--------------------------- MODULE CliVerbsProofs ---------------------------
(***************************************************************************)
(* Proofs about CliVerbs: the rate limit holds for any number of workers   *)
(* and any rate, the name cache never mixes addresses up, and a scan of    *)
(* any target by any number of workers runs every item once and reports    *)
(* what it found.                                                          *)
(***************************************************************************)
EXTENDS ScanPoolProofs

-----------------------------------------------------------------------------
(* The rate limit.  What the bucket would hold if it were refilled now and *)
(* what the meter has left never exceed the capacity together.             *)

RateInv ==
  /\ limiter \in [tokens : Nat, since : Nat]
  /\ level \in Nat
  /\ Refilled + level <= Capacity

\* Products of naturals, for provers that treat them as opaque.
LEMMA Product == \A m, n \in Nat : m * n \in Nat /\ (m + 1) * n = m * n + n
BY SMT

\* A refill by the rate over the ticks since the last one is a natural number.
LEMMA CapacityNat == Capacity \in Nat /\ Capacity >= US
<1>1. rate_pps \in Nat /\ rate_pps >= 1 /\ US \in Nat
  BY WorkPoolAssumption
<1>2. PICK r \in Nat : rate_pps = r + 1
  <2>1. rate_pps - 1 \in Nat /\ rate_pps = (rate_pps - 1) + 1
    BY <1>1
  <2> QED BY <2>1
<1>3. (r + 1) * US = r * US + US /\ r * US \in Nat
  BY <1>1, Product
<1> QED BY <1>1, <1>2, <1>3 DEF Capacity

\* At the start nothing has been granted.
LEMMA InitRate == Init => RateInv
<1> SUFFICES ASSUME Init PROVE RateInv
  OBVIOUS
<1>1. limiter = [tokens |-> 0, since |-> 0] /\ level = 0
  BY DEF Init, PoolInit
<1>2. 0 * rate_pps = 0
  BY WorkPoolAssumption
<1>3. Refilled = 0
  BY <1>1, <1>2, CapacityNat DEF Refilled, Less
<1> QED BY <1>1, <1>3, CapacityNat DEF RateInv

\* A step of a worker in the limiter takes from the bucket what it adds to
\* the meter.
LEMMA AcquireKeeps ==
  ASSUME NEW t \in Threads, RateInv, ps_limiter_acquire(t)
  PROVE  RateInv'
<1>1. limiter.tokens \in Nat /\ limiter.since \in Nat /\ level \in Nat
  BY DEF RateInv
<1>2. limiter.since * rate_pps \in Nat /\ 0 * rate_pps = 0
  BY <1>1, WorkPoolAssumption, Product
<1>3. Refilled \in Nat /\ Refilled <= Capacity
  BY <1>1, <1>2, CapacityNat DEF Refilled, Less
<1>4. Refilled + level <= Capacity
  BY DEF RateInv
<1>5. CASE Refilled >= US /\ limiter' = [tokens |-> Refilled - US, since |-> 0]
           /\ level' = level + US
  <2>1. limiter'.tokens = Refilled - US /\ limiter'.since = 0
    BY <1>5
  <2>2. US \in Nat /\ Refilled - US \in Nat
    BY <1>3, <1>5, WorkPoolAssumption
  <2>3. Refilled' = Refilled - US
    BY <2>1, <2>2, <1>2, <1>3, CapacityNat DEF Refilled, Less
  <2> QED BY <1>1, <1>3, <1>4, <1>5, <2>2, <2>3, CapacityNat DEF RateInv
<1>6. CASE limiter' = [tokens |-> Refilled, since |-> 0] /\ level' = level
  <2>1. limiter'.tokens = Refilled /\ limiter'.since = 0
    BY <1>6
  <2>2. Refilled' = Refilled
    BY <2>1, <1>2, <1>3, CapacityNat DEF Refilled, Less
  <2> QED BY <1>1, <1>3, <1>4, <1>6, <2>2 DEF RateInv
<1> QED BY <1>5, <1>6 DEF ps_limiter_acquire

\* A tick refills the bucket by at most what the meter drains, unless the
\* meter is empty.
LEMMA TickKeeps ==
  ASSUME RateInv, PoolTick
  PROVE  RateInv'
<1>1. limiter.tokens \in Nat /\ limiter.since \in Nat /\ level \in Nat
      /\ limiter \in [tokens : Nat, since : Nat]
  BY DEF RateInv
<1>2. rate_pps \in Nat /\ US \in Nat
  BY WorkPoolAssumption
<1>3. limiter'.tokens = limiter.tokens
      /\ limiter'.since \in {limiter.since + 1, US}
      /\ limiter'.since <= limiter.since + 1
      /\ limiter' \in [tokens : Nat, since : Nat]
  BY <1>1, <1>2 DEF PoolTick, Less
<1>4. limiter.since * rate_pps \in Nat
      /\ (limiter.since + 1) * rate_pps = limiter.since * rate_pps + rate_pps
      /\ US * rate_pps = Capacity
  BY <1>1, <1>2, Product DEF Capacity
<1>5. Refilled \in Nat /\ Refilled <= Capacity /\ Refilled + level <= Capacity
  BY <1>1, <1>4, CapacityNat DEF Refilled, Less, RateInv
<1>6. Refilled' \in Nat /\ Refilled' <= Capacity
      /\ Refilled' <= Refilled + rate_pps
  <2>1. CASE limiter'.since = limiter.since + 1
    <3>1. Refilled' = Less(limiter.tokens + (limiter.since * rate_pps + rate_pps),
                           Capacity)
      BY <2>1, <1>3, <1>4 DEF Refilled, Capacity
    <3> QED BY <3>1, <1>1, <1>2, <1>4, CapacityNat DEF Refilled, Less
  <2>2. CASE limiter'.since = US /\ limiter.since + 1 > US
    <3>1. limiter.since * rate_pps >= Capacity
      <4>1. PICK d \in Nat : limiter.since = US + d
        <5>1. limiter.since - US \in Nat /\ limiter.since = US + (limiter.since - US)
          BY <2>2, <1>1, <1>2
        <5> QED BY <5>1
      <4>2. (US + d) * rate_pps = US * rate_pps + d * rate_pps /\ d * rate_pps \in Nat
        BY <1>2, <4>1, Product
      <4> QED BY <4>1, <4>2, <1>4, CapacityNat
    <3>2. Refilled = Capacity
      BY <3>1, <1>1, <1>4, CapacityNat DEF Refilled, Less
    <3>3. Refilled' = Less(limiter.tokens + Capacity, Capacity)
      BY <2>2, <1>3, <1>4 DEF Refilled, Capacity
    <3> QED BY <3>2, <3>3, <1>1, <1>2, CapacityNat DEF Less
  <2> QED BY <2>1, <2>2, <1>1, <1>2, <1>3 DEF PoolTick, Less
<1>7. level' = IF level < rate_pps THEN 0 ELSE level - rate_pps
  BY DEF PoolTick
<1>8. level' \in Nat /\ Refilled' + level' <= Capacity
  <2> DEFINE r == Refilled  rr == Refilled'
  <2>0. r \in Nat /\ rr \in Nat /\ rr <= Capacity /\ rr <= r + rate_pps
        /\ r + level <= Capacity
    BY <1>5, <1>6
  <2> HIDE DEF r, rr
  <2>1. CASE level < rate_pps
    <3>1. level' = 0
      BY <2>1, <1>7
    <3>2. rr + level' <= Capacity
      BY <3>1, <2>0
    <3> QED BY <3>1, <3>2 DEF rr
  <2>2. CASE level >= rate_pps
    <3>1. level' = level - rate_pps
      BY <2>2, <1>1, <1>2, <1>7
    <3>2. level' \in Nat /\ rr + level' <= Capacity
      BY <3>1, <2>0, <2>2, <1>1, <1>2, CapacityNat
    <3> QED BY <3>2 DEF rr
  <2> QED BY <2>1, <2>2, <1>1, <1>2
<1>9. Capacity' = Capacity
  BY DEF Capacity
<1> QED BY <1>3, <1>8, <1>9 DEF RateInv

\* ps_workers_init fills the bucket and starts the meter anew.
LEMMA StartKeeps ==
  ASSUME ps_workers_init
  PROVE  RateInv'
<1>1. limiter'.tokens = Capacity /\ limiter'.since = 0 /\ level' = 0
      /\ limiter' = [tokens |-> Capacity, since |-> 0]
  BY DEF ps_workers_init
<1>2. 0 * rate_pps = 0
  BY WorkPoolAssumption
<1>3. Refilled' = Capacity
  BY <1>1, <1>2, CapacityNat DEF Refilled, Less, Capacity
<1> QED BY <1>1, <1>3, CapacityNat DEF RateInv, Capacity

\* A step that touches neither the bucket nor the meter.
LEMMA IdleKeeps ==
  ASSUME RateInv, UNCHANGED <<limiter, level>>
  PROVE  RateInv'
BY DEF RateInv, Refilled, Capacity

\* Every step keeps the rate invariant.
LEMMA NextRate == RateInv /\ [Next]_vars => RateInv'
<1> SUFFICES ASSUME RateInv, [Next]_vars PROVE RateInv'
  OBVIOUS
<1>1. CASE Main
  <2>1. CASE ps_scan_ports_run \/ ps_scan_udp_run \/ ps_discover_hosts_run
    BY <2>1, StartKeeps
       DEF ps_scan_ports_run, ps_scan_udp_run, ps_discover_hosts_run, Begin
  <2>2. CASE RefuseScan \/ NextJob \/ Return
    BY <2>2, IdleKeeps DEF RefuseScan, NextJob, Return, poolVars
  <2>3. CASE Submit
    BY <2>3, IdleKeeps DEF Submit, ps_workers_submit, poolVars
  <2>4. CASE Finish
    BY <2>4, IdleKeeps DEF Finish, Close
  <2>5. CASE StartTrace \/ tr_emit_cb \/ EndTrace \/ PtrJoin
    BY <2>5, IdleKeeps DEF StartTrace, tr_emit_cb, EndTrace, PtrJoin, poolVars
  <2>6. CASE Recheck /\ UNCHANGED <<plan, mpc, poolVars, scanVars>>
    BY <2>6, IdleKeeps DEF poolVars
  <2> QED BY <1>1, <2>1, <2>2, <2>3, <2>4, <2>5, <2>6 DEF Main
<1>2. ASSUME NEW t \in Threads, Worker(t) PROVE RateInv'
  <2>1. CASE ps_limiter_acquire(t)
    BY <2>1, AcquireKeeps
  <2>2. CASE TakeItem(t)
    BY <2>2, IdleKeeps DEF TakeItem, Take
  <2>3. CASE Admit(t)
    BY <2>3, IdleKeeps DEF Admit
  <2>4. CASE RunItem(t) \/ scan_one(t) \/ udp_scan_one(t) \/ check_host(t)
    BY <2>4, IdleKeeps
       DEF RunItem, scan_one, udp_scan_one, check_host, ProbeOnce, itemVars
  <2> QED BY <1>2, <2>1, <2>2, <2>3, <2>4 DEF Worker
<1>3. CASE Tick
  BY <1>3, TickKeeps DEF Tick
<1>4. CASE Resolver \/ Timeout
  BY <1>4, IdleKeeps DEF Resolver, Timeout, poolVars
<1>5. CASE Interrupt
  BY <1>5, IdleKeeps DEF Interrupt, ps_workers_cancel
<1>6. CASE Spurious
  BY <1>6, IdleKeeps DEF Spurious, SpuriousMain, SpuriousWorker, poolVars
<1>7. CASE UNCHANGED vars
  BY <1>7, IdleKeeps DEF vars, poolVars
<1> QED BY <1>1, <1>2, <1>3, <1>4, <1>5, <1>6, <1>7 DEF Next, Exited

\* The workers of a scan, any number of them at any rate, never exceed one
\* second's burst plus the rate (ps_limiter_acquire).
THEOREM RateLimited == Spec => []RateHeld
<1>1. RateInv => RateHeld
  <2> SUFFICES ASSUME RateInv PROVE level <= Capacity
    BY DEF RateHeld
  <2>1. limiter.tokens \in Nat /\ limiter.since \in Nat /\ level \in Nat
    BY DEF RateInv
  <2>2. limiter.since * rate_pps \in Nat
    BY <2>1, WorkPoolAssumption, Product
  <2>3. Refilled \in Nat
    BY <2>1, <2>2, CapacityNat DEF Refilled, Less
  <2> QED BY <2>1, <2>3, CapacityNat DEF RateInv
<1> QED BY InitRate, NextRate, <1>1, PTL DEF Spec

\* The bucket never holds more than its capacity.
LEMMA NextTokens ==
  ASSUME RateInv, limiter.tokens \in 0 .. Capacity, [Next]_vars
  PROVE  limiter'.tokens \in 0 .. Capacity
<1>1. limiter.tokens \in 0 .. Capacity /\ Capacity \in Nat /\ Capacity >= US /\ US \in Nat
  BY CapacityNat, WorkPoolAssumption
<1>2. limiter.tokens \in Nat /\ limiter.since \in Nat /\ limiter.since * rate_pps \in Nat
  BY WorkPoolAssumption, Product DEF RateInv
<1>3. ASSUME UNCHANGED limiter PROVE limiter'.tokens \in 0 .. Capacity
  BY <1>1, <1>3
<1>4. CASE Main
  <2>1. CASE ps_scan_ports_run \/ ps_scan_udp_run \/ ps_discover_hosts_run
    <3>1. ps_workers_init
      BY <2>1, Zenon DEF ps_scan_ports_run, ps_scan_udp_run, ps_discover_hosts_run, Begin
    <3>2. limiter' = [tokens |-> Capacity, since |-> 0]
      BY <3>1, Zenon DEF ps_workers_init
    <3> QED
      BY <1>1, <3>2
  <2>2. CASE RefuseScan \/ NextJob \/ Return
    BY <1>3, <2>2 DEF RefuseScan, NextJob, Return, poolVars
  <2>3. CASE Submit
    BY <1>3, <2>3 DEF Submit, ps_workers_submit, poolVars
  <2>4. CASE Finish
    BY <1>3, <2>4 DEF Finish, Close
  <2>5. CASE StartTrace \/ tr_emit_cb \/ EndTrace \/ PtrJoin
    BY <1>3, <2>5 DEF StartTrace, tr_emit_cb, EndTrace, PtrJoin, poolVars
  <2>6. CASE Recheck /\ UNCHANGED <<plan, mpc, poolVars, scanVars>>
    BY <1>3, <2>6 DEF poolVars
  <2> QED
    BY <1>4, <2>1, <2>2, <2>3, <2>4, <2>5, <2>6 DEF Main
<1>5. ASSUME NEW t \in Threads, Worker(t) PROVE limiter'.tokens \in 0 .. Capacity
  <2>1. CASE ps_limiter_acquire(t)
    <3>1. Refilled \in Nat /\ Refilled <= Capacity
      BY <1>1, <1>2 DEF Refilled, Less
    <3>2. CASE Refilled >= US /\ limiter' = [tokens |-> Refilled - US, since |-> 0]
      BY <1>1, <3>1, <3>2
    <3>3. CASE limiter' = [tokens |-> Refilled, since |-> 0]
      BY <1>1, <3>1, <3>3
    <3> QED
      BY <2>1, <3>2, <3>3, Zenon DEF ps_limiter_acquire
  <2>2. CASE TakeItem(t)
    BY <1>3, <2>2 DEF TakeItem, Take
  <2>3. CASE Admit(t)
    BY <1>3, <2>3 DEF Admit
  <2>4. CASE RunItem(t) \/ scan_one(t) \/ udp_scan_one(t) \/ check_host(t)
    BY <1>3, <2>4, Zenon
       DEF RunItem, scan_one, udp_scan_one, check_host, ProbeOnce, itemVars
  <2> QED
    BY <1>5, <2>1, <2>2, <2>3, <2>4 DEF Worker
<1>6. CASE Tick
  <2>1. limiter' = [limiter EXCEPT !.since = Less(@ + 1, US)]
    BY <1>6, Zenon DEF Tick, PoolTick
  <2>2. limiter \in [tokens : Nat, since : Nat]
    BY DEF RateInv
  <2>3. limiter'.tokens = limiter.tokens
    BY <2>1, <2>2
  <2> QED
    BY <1>1, <2>3
<1>7. CASE Resolver \/ Timeout
  BY <1>3, <1>7 DEF Resolver, Timeout, poolVars
<1>8. CASE Interrupt
  BY <1>3, <1>8 DEF Interrupt, ps_workers_cancel
<1>9. CASE Spurious
  BY <1>3, <1>9 DEF Spurious, SpuriousMain, SpuriousWorker, poolVars
<1>10. CASE UNCHANGED vars
  BY <1>3, <1>10 DEF vars, poolVars
<1> QED
  BY <1>4, <1>5, <1>6, <1>7, <1>8, <1>9, <1>10 DEF Next, Exited

-----------------------------------------------------------------------------
(* The name cache.  An entry the resolver thread works on stays pending    *)
(* while the lock is not held; an entry never changes its address; a name  *)
(* printed for a hop is in the resolved entry of its address.              *)

Entry ==
  [ip : Addrs, name : {NoName} \cup {NameOf[x] : x \in Addrs}, state : {1, 2}]

PtrType ==
  /\ cache \in [e : Seq(Entry), shutdown : BOOLEAN, pending : Nat]
  /\ resolver = "resolve" => idx \in Pending
  /\ plan \in Plans
  /\ plan.ptr = "off" => cache.e = <<>>
  /\ names \in Seq({NoName} \cup {NameOf[x] : x \in Addrs})

\* The entry waited for is that of the hop's address.
CallerWaits ==
  ptrCaller # "out" =>
    /\ asked \in DOMAIN cache.e
    /\ Hop \in DOMAIN plan.route
    /\ cache.e[asked].ip = plan.route[Hop]

\* What has been printed.
Printed ==
  \A h \in DOMAIN names :
    names[h] # NoName =>
      /\ h \in DOMAIN plan.route
      /\ \E i \in DOMAIN cache.e :
           /\ cache.e[i].state = 2
           /\ cache.e[i].ip = plan.route[h]
           /\ cache.e[i].name = names[h]

PtrInv ==
  PtrType /\ PendingCounts /\ NamesBelong /\ CallerWaits /\ Printed /\ HopNames

\* The table of the cache stays within its size, and its threads where their
\* code has a place for them.
PtrBounds ==
  /\ resolver \in {"none", "loop", "wait", "resolve", "exit"}
  /\ ptrCaller \in {"out", "cond", "woken"}
  /\ Len(cache.e) <= PTR_MAX

\* A step that changes nothing of the cache, its caller or what is printed.
LEMMA PtrIdle ==
  ASSUME PtrInv, UNCHANGED <<plan, cache, names>>,
         ptrCaller' # "out" => ptrCaller # "out" /\ asked' = asked,
         resolver' = "resolve" => resolver = "resolve" /\ idx' = idx
  PROVE  PtrInv'
<1>1. PtrType'
  BY DEF PtrInv, PtrType, Pending
<1>2. (PendingCounts /\ NamesBelong)'
  BY DEF PtrInv, PendingCounts, NamesBelong, Pending
<1>3. CallerWaits'
  BY DEF PtrInv, CallerWaits, Hop
<1>4. (Printed /\ HopNames)'
  BY DEF PtrInv, Printed, HopNames
<1> QED BY <1>1, <1>2, <1>3, <1>4 DEF PtrInv

\* Between two hops of a longer list, the later one of which is not its end.
LEMMA Earlier ==
  \A n \in Nat : \A h \in 1 .. n + 1 : \A g \in 1 .. n :
    g \in h .. n + 1 => h \in 1 .. n /\ g \in h .. n
OBVIOUS

\* A hop printed with a name that the cache holds for its address, or without
\* one when the cache holds none.
LEMMA AnswerKeeps ==
  ASSUME PtrInv, NEW name \in {NoName} \cup {NameOf[x] : x \in Addrs},
         Hop \in DOMAIN plan.route,
         \/ /\ name # NoName
            /\ \E i \in DOMAIN cache'.e : /\ cache'.e[i].state = 2
                                         /\ cache'.e[i].ip = plan.route[Hop]
                                         /\ cache'.e[i].name = name
         \/ /\ name = NoName
            /\ \A i \in DOMAIN cache'.e :
                 (cache'.e[i].state = 2 /\ cache'.e[i].ip = plan.route[Hop]) =>
                   cache'.e[i].name = NoName,
         names' = Append(names, name), plan' = plan, NamesBelong',
         \A i \in DOMAIN cache.e :
           cache.e[i].state = 2 =>
             i \in DOMAIN cache'.e /\ cache'.e[i] = cache.e[i]
  PROVE  (Printed /\ HopNames)' /\ names' \in Seq({NoName} \cup {NameOf[x] : x \in Addrs})
<1> DEFINE Nm == {NoName} \cup {NameOf[x] : x \in Addrs}
<1>1. names \in Seq(Nm)
  BY DEF PtrInv, PtrType
<1>2. names' \in Seq(Nm) /\ Len(names') = Len(names) + 1 /\ Len(names) \in Nat
      /\ names'[Len(names) + 1] = name
      /\ \A h \in 1 .. Len(names) : names'[h] = names[h]
      /\ DOMAIN names = 1 .. Len(names) /\ DOMAIN names' = 1 .. Len(names) + 1
  <2>1. name \in Nm /\ names' = Append(names, name)
    BY Zenon
  <2> HIDE DEF Nm
  <2> QED BY <1>1, <2>1
<1>3. Hop = Len(names) + 1
  BY DEF Hop
<1>4. Printed'
  <2> SUFFICES ASSUME NEW h \in DOMAIN names', names'[h] # NoName
               PROVE  /\ h \in DOMAIN plan.route
                      /\ \E i \in DOMAIN cache'.e :
                           /\ cache'.e[i].state = 2
                           /\ cache'.e[i].ip = plan.route[h]
                           /\ cache'.e[i].name = names'[h]
    BY DEF Printed
  <2>1. CASE h \in 1 .. Len(names)
    <3>1. h \in DOMAIN names /\ names'[h] = names[h] /\ names[h] # NoName
      BY <2>1, <1>2
    <3>2. /\ h \in DOMAIN plan.route
          /\ \E i \in DOMAIN cache.e : /\ cache.e[i].state = 2
                                       /\ cache.e[i].ip = plan.route[h]
                                       /\ cache.e[i].name = names[h]
      BY Zenon, <3>1 DEF PtrInv, Printed
    <3>3. PICK i \in DOMAIN cache.e : /\ cache.e[i].state = 2
                                      /\ cache.e[i].ip = plan.route[h]
                                      /\ cache.e[i].name = names[h]
      BY <3>2
    <3>4. i \in DOMAIN cache'.e /\ cache'.e[i] = cache.e[i]
      BY Zenon, <3>3
    <3> QED BY Zenon, <3>1, <3>2, <3>3, <3>4
  <2>2. CASE h = Len(names) + 1
    BY <2>2, <1>2, <1>3
  <2> QED BY <2>1, <2>2, <1>2
<1>5. HopNames'
  <2> SUFFICES ASSUME NEW h \in DOMAIN names', names'[h] # NoName
               PROVE  /\ names'[h] = NameOf[plan.route[h]]
                      /\ \A g \in h .. Len(names') :
                           plan.route[g] = plan.route[h] => names'[g] = names'[h]
    BY DEF HopNames
  <2>1. PICK i \in DOMAIN cache'.e : /\ cache'.e[i].state = 2
                                    /\ cache'.e[i].ip = plan.route[h]
                                    /\ cache'.e[i].name = names'[h]
    BY <1>4 DEF Printed
  <2>2. names'[h] = NameOf[plan.route[h]]
    BY <2>1 DEF NamesBelong
  <2>3. ASSUME NEW g \in h .. Len(names'), plan.route[g] = plan.route[h]
        PROVE  names'[g] = names'[h]
    <3>1. CASE g \in 1 .. Len(names)
      <4>1. h \in 1 .. Len(names) /\ g \in h .. Len(names)
        BY Zenon, <3>1, <2>3, <1>2, Earlier
      <4>2. names[h] # NoName
        BY <4>1, <1>2
      <4> QED BY <4>1, <4>2, <1>2, <2>3 DEF PtrInv, HopNames
    <3>2. CASE g = Len(names) + 1
      <4>1. names'[g] = name /\ plan.route[Hop] = plan.route[h]
        BY <3>2, <1>2, <1>3, <2>3
      <4>2. name # NoName
        BY <4>1, <2>1
      <4>3. PICK j \in DOMAIN cache'.e : /\ cache'.e[j].ip = plan.route[Hop]
                                        /\ cache'.e[j].name = name
        BY <4>2
      <4>4. i = j
        BY <4>1, <4>3, <2>1 DEF NamesBelong
      <4> QED BY <4>1, <4>3, <4>4, <2>1
    <3> QED BY <3>1, <3>2, <2>3, <1>2
  <2> QED BY <2>2, <2>3
<1> QED BY <1>2, <1>4, <1>5

\* Scheduling changes the cache.
LEMMA ScheduledDiffers ==
  ASSUME PtrInv, NEW ip
  PROVE  Scheduled(ip) # cache
<1>1. cache.pending \in Nat /\ cache \in [e : Seq(Entry), shutdown : BOOLEAN, pending : Nat]
  BY DEF PtrInv, PtrType
<1>2. Scheduled(ip).pending = cache.pending + 1
  BY <1>1 DEF Scheduled
<1> QED BY <1>1, <1>2

\* The caller, woken or timed out, prints what its entry holds.
LEMMA WakeKeeps ==
  ASSUME PtrInv, Recheck \/ TimedOut, plan' = plan
  PROVE  PtrInv'
<1>1. CASE ptrCaller = "woken" /\ ptrCaller' = "cond"
           /\ UNCHANGED <<asked, names, cache, resolver, idx>>
  BY <1>1, PtrIdle
<1>2. ASSUME ptrCaller # "out", NEW nm, Answer(nm),
             UNCHANGED <<cache, resolver, idx>>,
             \/ cache.e[asked].state = 2 /\ nm = cache.e[asked].name
             \/ cache.e[asked].state # 2 /\ nm = NoName
      PROVE  PtrInv'
  <2>1. /\ asked \in DOMAIN cache.e /\ Hop \in DOMAIN plan.route
        /\ cache.e[asked].ip = plan.route[Hop]
    BY <1>2 DEF PtrInv, CallerWaits
  <2>2. cache.e \in Seq(Entry)
    BY DEF PtrInv, PtrType
  <2>3. cache.e[asked] \in Entry
    BY <2>1, <2>2
  <2>4. nm \in {NoName} \cup {NameOf[x] : x \in Addrs}
    BY <1>2, <2>3 DEF Entry
  <2>5. \A i \in DOMAIN cache.e : cache.e[i].ip = plan.route[Hop] => i = asked
    BY <2>1 DEF PtrInv, NamesBelong
  <2>6. NamesBelong'
    BY <1>2 DEF PtrInv, NamesBelong
  <2>7. (Printed /\ HopNames)'
        /\ names' \in Seq({NoName} \cup {NameOf[x] : x \in Addrs})
    BY <1>2, <2>1, <2>4, <2>5, <2>6, AnswerKeeps, Zenon DEF Answer
  <2>8. (PtrType /\ PendingCounts)'
    BY <1>2, <2>7 DEF PtrInv, PtrType, PendingCounts, Pending
  <2>9. CallerWaits'
    BY <1>2 DEF Answer, CallerWaits
  <2> QED BY <2>6, <2>7, <2>8, <2>9 DEF PtrInv
<1> QED BY <1>1, <1>2, Zenon DEF Recheck, TimedOut

\* The resolver thread exits, sleeps or picks a pending entry.
LEMMA PickKeeps ==
  ASSUME PtrInv, PickEntry, plan' = plan
  PROVE  PtrInv'
<1>1. CASE resolver' = "resolve" /\ UNCHANGED cache /\ idx' \in Pending
  <2>1. idx' \in Pending'
    BY <1>1 DEF Pending
  <2>2. PtrType'
    BY <1>1, <2>1 DEF PickEntry, PtrInv, PtrType
  <2>3. (PendingCounts /\ NamesBelong)'
    BY <1>1 DEF PtrInv, PendingCounts, NamesBelong, Pending
  <2>4. (CallerWaits /\ Printed /\ HopNames)'
    BY <1>1 DEF PickEntry, PtrInv, CallerWaits, Printed, HopNames, Hop
  <2> QED BY <2>2, <2>3, <2>4 DEF PtrInv
<1>2. CASE resolver' # "resolve" /\ UNCHANGED cache
  BY <1>2, PtrIdle DEF PickEntry
<1> QED BY <1>1, <1>2 DEF PickEntry

\* ps_ptr_cache_free only says that the thread is to stop.
LEMMA FreeKeeps ==
  ASSUME PtrInv, ps_ptr_cache_free, plan' = plan
  PROVE  PtrInv'
<1>1. cache \in [e : Seq(Entry), shutdown : BOOLEAN, pending : Nat]
  BY DEF PtrInv, PtrType
<1>2. cache'.e = cache.e /\ cache'.pending = cache.pending
      /\ cache' \in [e : Seq(Entry), shutdown : BOOLEAN, pending : Nat]
  BY <1>1, Zenon DEF ps_ptr_cache_free
<1>3. (PtrType /\ PendingCounts /\ NamesBelong)'
  BY <1>2 DEF ps_ptr_cache_free, Broadcast, PtrInv, PtrType, PendingCounts,
              NamesBelong, Pending
<1>4. (CallerWaits /\ Printed /\ HopNames)'
  BY <1>2 DEF ps_ptr_cache_free, PtrInv, CallerWaits, Printed, HopNames, Hop
<1> QED BY <1>3, <1>4 DEF PtrInv

\* A hop without an address, or a trace without a cache.
LEMMA UnnamedKeeps ==
  ASSUME PtrInv, names' = Append(names, NoName), ptrCaller = "out",
         Hop \in DOMAIN plan.route,
         plan.route[Hop] = NoName \/ plan.ptr = "off",
         UNCHANGED <<plan, cache, resolver, idx, ptrCaller, asked>>
  PROVE  PtrInv'
<1>1. cache.e \in Seq(Entry)
  BY DEF PtrInv, PtrType
<1>2. \A i \in DOMAIN cache.e : cache.e[i].ip # plan.route[Hop]
  <2>1. \A i \in DOMAIN cache.e : cache.e[i] \in Entry
    BY <1>1
  <2>2. CASE plan.route[Hop] = NoName
    BY <2>1, <2>2, PtrAssumption DEF Entry
  <2>3. CASE plan.ptr = "off"
    BY <2>3 DEF PtrInv, PtrType
  <2> QED BY <2>2, <2>3
<1>3. NamesBelong'
  BY DEF PtrInv, NamesBelong
<1>4. (Printed /\ HopNames)'
      /\ names' \in Seq({NoName} \cup {NameOf[x] : x \in Addrs})
  BY <1>2, <1>3, AnswerKeeps
<1>5. (PtrType /\ PendingCounts)'
  BY <1>4 DEF PtrInv, PtrType, PendingCounts, Pending
<1>6. CallerWaits'
  BY DEF CallerWaits
<1> QED BY <1>3, <1>4, <1>5, <1>6 DEF PtrInv

\* The pending entries are finitely many.
LEMMA PendingFinite ==
  ASSUME Counting, PtrType
  PROVE  IsFiniteSet(Pending)
<1>1. cache.e \in Seq(Entry)
  BY DEF PtrType
<1>2. Pending \subseteq 1 .. Len(cache.e) /\ Len(cache.e) \in Nat
  BY <1>1 DEF Pending
<1> QED BY <1>2, Zenon DEF Counting

\* A new entry is pending, and the only one of its address.
LEMMA ScheduleKeeps ==
  ASSUME Counting, PtrInv, NEW ip \in Addrs, find(ip) = 0, cache' = Scheduled(ip)
  PROVE  /\ cache' \in [e : Seq(Entry), shutdown : BOOLEAN, pending : Nat]
         /\ DOMAIN cache.e = 1 .. Len(cache.e) /\ Len(cache.e) \in Nat
         /\ DOMAIN cache'.e = 1 .. Len(cache.e) + 1
         /\ \A i \in DOMAIN cache.e : cache'.e[i] = cache.e[i]
         /\ cache'.e[Len(cache.e) + 1] = [ip |-> ip, name |-> NoName, state |-> 1]
         /\ \A i \in DOMAIN cache.e : cache.e[i].ip # ip
         /\ Pending \subseteq Pending'
         /\ (PendingCounts /\ NamesBelong)'
<1> DEFINE new == [ip |-> ip, name |-> NoName, state |-> 1]
           n == Len(cache.e)
<1>1. cache \in [e : Seq(Entry), shutdown : BOOLEAN, pending : Nat] /\ new \in Entry
  BY DEF PtrInv, PtrType, Entry
<1>2. cache'.e = Append(cache.e, new) /\ cache'.pending = cache.pending + 1
      /\ cache' \in [e : Seq(Entry), shutdown : BOOLEAN, pending : Nat]
  <2>1. cache' = [cache EXCEPT !.e = Append(cache.e, new),
                               !.pending = cache.pending + 1]
    BY DEF Scheduled
  <2>2. Append(cache.e, new) \in Seq(Entry) /\ cache.pending + 1 \in Nat
    BY <1>1
  <2> HIDE DEF new
  <2> QED BY <1>1, <2>1, <2>2, Zenon
<1>3. /\ n \in Nat /\ DOMAIN cache.e = 1 .. n /\ DOMAIN cache'.e = 1 .. n + 1
      /\ \A i \in DOMAIN cache.e : cache'.e[i] = cache.e[i]
      /\ cache'.e[n + 1] = new
  BY <1>1, <1>2
<1>4. \A i \in DOMAIN cache.e : cache.e[i].ip # ip
  <2> SUFFICES ASSUME NEW i \in DOMAIN cache.e, cache.e[i].ip = ip PROVE FALSE
    OBVIOUS
  <2>1. find(ip) \in DOMAIN cache.e
    BY DEF find
  <2> QED BY <2>1, <1>3
<1>5. Pending' = Pending \cup {n + 1} /\ n + 1 \notin Pending
  BY <1>3 DEF Pending
<1>6. PendingCounts'
  <2>1. IsFiniteSet(Pending)
    BY PendingFinite DEF PtrInv
  <2>2. Cardinality(Pending') = Cardinality(Pending) + 1
    BY <2>1, <1>5, Zenon DEF Counting
  <2> QED BY <2>2, <1>2 DEF PtrInv, PendingCounts
<1>7. NamesBelong'
  <2>1. \A i \in DOMAIN cache'.e :
          i \in DOMAIN cache.e \/ (i = n + 1 /\ cache'.e[i] = new)
    BY <1>3
  <2>2. \A i \in DOMAIN cache.e : cache'.e[i] = cache.e[i] /\ cache.e[i].ip # ip
    BY <1>3, <1>4
  <2>5. new.ip = ip /\ new.name = NoName
    OBVIOUS
  <2> HIDE DEF new
  <2>3. \A i, j \in DOMAIN cache'.e :
          cache'.e[i].ip = cache'.e[j].ip => i = j
    <3> SUFFICES ASSUME NEW i \in DOMAIN cache'.e, NEW j \in DOMAIN cache'.e,
                        cache'.e[i].ip = cache'.e[j].ip
                 PROVE  i = j
      OBVIOUS
    <3>1. CASE i \in DOMAIN cache.e /\ j \in DOMAIN cache.e
      BY Zenon, <3>1, <2>2 DEF PtrInv, NamesBelong
    <3>2. CASE i \in DOMAIN cache.e /\ cache'.e[j] = new
      BY Zenon, <3>2, <2>2, <2>5
    <3>3. CASE j \in DOMAIN cache.e /\ cache'.e[i] = new
      BY Zenon, <3>3, <2>2, <2>5
    <3> QED BY Zenon, <2>1, <3>1, <3>2, <3>3
  <2>4. \A i \in DOMAIN cache'.e :
          cache'.e[i].name \in {NoName, NameOf[cache'.e[i].ip]}
    <3> SUFFICES ASSUME NEW i \in DOMAIN cache'.e
                 PROVE  cache'.e[i].name \in {NoName, NameOf[cache'.e[i].ip]}
      OBVIOUS
    <3>1. CASE i \in DOMAIN cache.e
      BY Zenon, <3>1, <2>2 DEF PtrInv, NamesBelong
    <3>2. CASE cache'.e[i] = new
      BY Zenon, <3>2, <2>5
    <3> QED BY Zenon, <2>1, <3>1, <3>2
  <2> QED BY <2>3, <2>4 DEF NamesBelong
<1> QED BY <1>2, <1>3, <1>4, <1>5, <1>6, <1>7

\* ps_ptr_cache_wait for the hop that is next.
LEMMA AskKeeps ==
  ASSUME Counting, PtrInv, NEW waits \in BOOLEAN, Hop \in DOMAIN plan.route,
         plan.ptr # "off",
         plan.route[Hop] # NoName, plan' = plan,
         ps_ptr_cache_wait(plan.route[Hop], waits)
  PROVE  PtrInv'
<1> DEFINE ip == plan.route[Hop]
<1>1. plan.route \in Seq(Addrs \cup {NoName})
  BY PlansAssumption DEF PtrInv, PtrType
<1>2. ip \in Addrs
  BY <1>1
<1>3. Len(names) \in Nat /\ cache.e \in Seq(Entry)
  BY DEF PtrInv, PtrType
<1>4. ASSUME find(ip) # 0
      PROVE  find(ip) \in DOMAIN cache.e /\ cache.e[find(ip)].ip = ip
  BY <1>4 DEF find
<1>5. idx' = idx /\ (resolver' = "resolve" => resolver = "resolve")
  BY Zenon DEF ps_ptr_cache_wait, Broadcast
<1>6. CASE find(ip) # 0 /\ cache' = cache
  <2>1. CASE ptrCaller' = "cond" /\ asked' = find(ip) /\ names' = names
    <3>1. CallerWaits'
      BY <2>1, <1>4, <1>6 DEF CallerWaits, Hop
    <3>2. (PtrType /\ PendingCounts /\ NamesBelong)'
      BY <2>1, <1>5, <1>6, Zenon
         DEF PtrInv, PtrType, PendingCounts, NamesBelong, Pending
    <3>3. (Printed /\ HopNames)'
      BY <2>1, <1>6, Zenon DEF PtrInv, Printed, HopNames
    <3> QED BY <3>1, <3>2, <3>3 DEF PtrInv
  <2>2. ASSUME NEW nm \in {NoName} \cup {NameOf[x] : x \in Addrs},
               Answer(nm),
               \/ cache.e[find(ip)].state = 2 /\ nm = cache.e[find(ip)].name
               \/ cache.e[find(ip)].state # 2 /\ nm = NoName
        PROVE  PtrInv'
    <3>1. \A i \in DOMAIN cache.e : cache.e[i].ip = ip => i = find(ip)
      BY <1>4, <1>6, Zenon DEF PtrInv, NamesBelong
    <3>2. NamesBelong'
      BY <1>6, Zenon DEF PtrInv, NamesBelong
    <3>3. (Printed /\ HopNames)'
          /\ names' \in Seq({NoName} \cup {NameOf[x] : x \in Addrs})
      BY <2>2, <3>1, <3>2, <1>4, <1>6, AnswerKeeps, Zenon DEF Answer
    <3>4. (PtrType /\ PendingCounts)'
      BY <3>3, <1>5, <1>6, Zenon DEF PtrInv, PtrType, PendingCounts, Pending
    <3>5. CallerWaits'
      BY <2>2, Zenon DEF Answer, CallerWaits
    <3> QED BY <3>2, <3>3, <3>4, <3>5, Zenon DEF PtrInv
  <2>3. cache.e[find(ip)].name \in {NoName} \cup {NameOf[x] : x \in Addrs}
    <3>1. cache.e[find(ip)] \in Entry
      BY <1>3, <1>4, <1>6
    <3> QED BY <3>1, Zenon DEF Entry
  <2> QED BY <1>6, <2>1, <2>2, <2>3, Zenon DEF ps_ptr_cache_wait
<1>7. CASE find(ip) = 0 /\ cache' = cache
  <2>1. Answer(NoName)
    <3>1. cache' # Scheduled(ip)
      BY <1>7, ScheduledDiffers
    <3> QED BY <1>7, <3>1, Zenon DEF ps_ptr_cache_wait
  <2>2. \A i \in DOMAIN cache.e : cache.e[i].ip # ip
    <3> SUFFICES ASSUME NEW i \in DOMAIN cache.e, cache.e[i].ip = ip PROVE FALSE
      OBVIOUS
    <3>1. find(ip) \in DOMAIN cache.e
      BY Zenon DEF find
    <3>2. 0 \notin DOMAIN cache.e
      BY <1>3
    <3> QED BY Zenon, <3>1, <3>2, <1>7
  <2>3. NamesBelong'
    BY <1>7, Zenon DEF PtrInv, NamesBelong
  <2>4. (Printed /\ HopNames)'
        /\ names' \in Seq({NoName} \cup {NameOf[x] : x \in Addrs})
    BY <2>1, <2>2, <2>3, <1>7, AnswerKeeps, Zenon DEF Answer
  <2>5. (PtrType /\ PendingCounts)'
    BY <2>4, <1>5, <1>7, Zenon DEF PtrInv, PtrType, PendingCounts, Pending
  <2>6. CallerWaits'
    BY <2>1, Zenon DEF Answer, CallerWaits
  <2> QED BY <2>3, <2>4, <2>5, <2>6 DEF PtrInv
<1>8. CASE find(ip) = 0 /\ cache' = Scheduled(ip)
  <2>1. /\ cache' \in [e : Seq(Entry), shutdown : BOOLEAN, pending : Nat]
        /\ DOMAIN cache.e = 1 .. Len(cache.e) /\ Len(cache.e) \in Nat
        /\ DOMAIN cache'.e = 1 .. Len(cache.e) + 1
        /\ \A i \in DOMAIN cache.e : cache'.e[i] = cache.e[i]
        /\ cache'.e[Len(cache.e) + 1] = [ip |-> ip, name |-> NoName, state |-> 1]
        /\ \A i \in DOMAIN cache.e : cache.e[i].ip # ip
        /\ Pending \subseteq Pending'
        /\ (PendingCounts /\ NamesBelong)'
    BY <1>2, <1>8, ScheduleKeeps, Zenon
  <2>4. DOMAIN cache.e \subseteq DOMAIN cache'.e
    <3>1. \A n \in Nat : 1 .. n \subseteq 1 .. n + 1
      OBVIOUS
    <3> QED
      BY <2>1, <3>1, Zenon
  <2>2. CASE ptrCaller' = "cond" /\ asked' = Len(cache.e) + 1 /\ names' = names
    <3>1. CallerWaits'
      BY <2>1, <2>2 DEF CallerWaits, Hop
    <3>2. PtrType'
      BY <2>1, <2>2, <1>5 DEF PtrInv, PtrType
    <3>3. Printed'
      <4> SUFFICES ASSUME NEW h \in DOMAIN names, names[h] # NoName
                   PROVE  /\ h \in DOMAIN plan.route
                          /\ \E i \in DOMAIN cache'.e :
                               /\ cache'.e[i].state = 2
                               /\ cache'.e[i].ip = plan.route[h]
                               /\ cache'.e[i].name = names[h]
        BY Zenon, <2>2 DEF Printed
      <4>1. /\ h \in DOMAIN plan.route
            /\ \E i \in DOMAIN cache.e : /\ cache.e[i].state = 2
                                         /\ cache.e[i].ip = plan.route[h]
                                         /\ cache.e[i].name = names[h]
        BY Zenon DEF PtrInv, Printed
      <4> QED BY Zenon, <2>1, <2>4, <4>1
    <3>4. HopNames'
      BY <2>2, Zenon DEF PtrInv, HopNames
    <3> QED BY <2>1, <3>1, <3>2, <3>3, <3>4, Zenon DEF PtrInv
  <2>3. CASE Answer(NoName)
    <3>1. \A i \in DOMAIN cache'.e :
            ~(cache'.e[i].state = 2 /\ cache'.e[i].ip = ip)
      <4>1. \A i \in DOMAIN cache.e : cache'.e[i].ip # ip
        BY <2>1, Zenon
      <4>2. cache'.e[Len(cache.e) + 1].state # 2
        <5>1. [ip |-> ip, name |-> NoName, state |-> 1].state # 2
          OBVIOUS
        <5> QED BY <2>1, <5>1, Zenon
      <4>3. \A i \in DOMAIN cache'.e : i \in DOMAIN cache.e \/ i = Len(cache.e) + 1
        <5>1. \A n \in Nat : \A i \in 1 .. n + 1 : i \in 1 .. n \/ i = n + 1
          OBVIOUS
        <5> QED BY <2>1, <5>1, Zenon
      <4> QED BY <4>1, <4>2, <4>3, Zenon
    <3>2. (Printed /\ HopNames)'
          /\ names' \in Seq({NoName} \cup {NameOf[x] : x \in Addrs})
      <4>1. NamesBelong' /\ names' = Append(names, NoName)
        BY <2>1, <2>3 DEF Answer
      <4>2. \A i \in DOMAIN cache.e :
              cache.e[i].state = 2 =>
                i \in DOMAIN cache'.e /\ cache'.e[i] = cache.e[i]
        BY Zenon, <2>1, <2>4
      <4> QED BY <4>1, <4>2, <3>1, AnswerKeeps, Zenon
    <3>3. PtrType'
      BY <2>1, <3>2, <1>5, Zenon DEF PtrInv, PtrType
    <3>4. CallerWaits'
      BY <2>3 DEF Answer, CallerWaits
    <3> QED BY <2>1, <3>2, <3>3, <3>4 DEF PtrInv
  <2> QED BY <1>8, <2>2, <2>3, <1>3, ScheduledDiffers, Zenon DEF ps_ptr_cache_wait
<1> QED BY <1>6, <1>7, <1>8, Zenon DEF ps_ptr_cache_wait

\* The name found is stored in the entry picked before the lock was let go.
LEMMA StoreKeeps ==
  ASSUME Counting, PtrInv, StoreName, plan' = plan
  PROVE  PtrInv'
<1>1. PICK nm \in {NameOf[cache.e[idx].ip], NoName} :
        cache' = [cache EXCEPT !.e[idx] = [@ EXCEPT !.name = nm, !.state = 2],
                               !.pending = IF @ > 0 THEN @ - 1 ELSE @]
  BY Zenon DEF StoreName
<1>2. /\ cache \in [e : Seq(Entry), shutdown : BOOLEAN, pending : Nat]
      /\ idx \in Pending /\ idx \in DOMAIN cache.e
  BY DEF StoreName, PtrInv, PtrType, Pending
<1>3. cache.e[idx] \in Entry /\ cache.e[idx].ip \in Addrs
  <2>1. cache.e \in Seq(Entry)
    BY Zenon, <1>2
  <2>2. cache.e[idx] \in Entry
    BY <1>2, <2>1
  <2> QED BY <2>2 DEF Entry
<1> DEFINE new == [cache.e[idx] EXCEPT !.name = nm, !.state = 2]
<1>4. new \in Entry /\ new.ip = cache.e[idx].ip /\ new.name = nm /\ new.state = 2
  BY <1>1, <1>3, Zenon DEF Entry
<1>5. Cardinality(Pending) \in Nat /\ Cardinality(Pending) # 0
      /\ Cardinality(Pending \ {idx}) = Cardinality(Pending) - 1
  <2>1. IsFiniteSet(Pending)
    BY PendingFinite DEF PtrInv
  <2> QED BY <2>1, <1>2, Zenon DEF Counting
<1>6. cache'.e = [cache.e EXCEPT ![idx] = new]
      /\ cache'.pending = cache.pending - 1
      /\ cache' \in [e : Seq(Entry), shutdown : BOOLEAN, pending : Nat]
  <2>1. cache.pending = Cardinality(Pending)
    BY DEF PtrInv, PendingCounts
  <2>2. cache' = [cache EXCEPT !.e[idx] = new, !.pending = cache.pending - 1]
    <3>1. (IF cache.pending > 0 THEN cache.pending - 1 ELSE cache.pending)
            = cache.pending - 1
      BY <1>5, <2>1
    <3> QED BY <1>1, <3>1, Zenon
  <2> HIDE DEF new
  <2>3. cache'.e = [cache.e EXCEPT ![idx] = new]
    BY <1>2, <2>2
  <2>4. cache'.pending = cache.pending - 1 /\ cache'.pending \in Nat
    BY <1>2, <1>5, <2>1, <2>2
  <2>5. [cache.e EXCEPT ![idx] = new] \in Seq(Entry)
    BY <1>2, <1>4
  <2>6. cache' \in [e : Seq(Entry), shutdown : BOOLEAN, pending : Nat]
    BY <1>2, <2>2, <2>3, <2>4, <2>5, Zenon
  <2> QED BY <2>3, <2>4, <2>6
<1> HIDE DEF new
<1>7. /\ DOMAIN cache'.e = DOMAIN cache.e
      /\ cache'.e[idx] = new
      /\ \A i \in DOMAIN cache.e : i # idx => cache'.e[i] = cache.e[i]
  BY <1>2, <1>6
<1>8. PendingCounts'
  <2>1. Pending' = Pending \ {idx}
    BY <1>4, <1>7 DEF Pending
  <2> QED BY <2>1, <1>5, <1>6 DEF PtrInv, PendingCounts
<1>9. NamesBelong'
  <2>1. \A i \in DOMAIN cache.e : cache'.e[i].ip = cache.e[i].ip
    BY <1>4, <1>7, Zenon
  <2>2. \A i \in DOMAIN cache.e :
          cache'.e[i].name \in {NoName, NameOf[cache'.e[i].ip]}
    BY <1>1, <1>4, <1>7, <2>1 DEF PtrInv, NamesBelong
  <2> QED BY <1>7, <2>1, <2>2, Zenon DEF PtrInv, NamesBelong
<1>10. PtrType'
  <2>1. plan.ptr # "off"
    <3>1. cache.e # <<>>
      BY <1>2
    <3> QED BY Zenon, <3>1 DEF PtrInv, PtrType
  <2> QED BY <1>6, <2>1 DEF StoreName, PtrInv, PtrType
<1>11. CallerWaits'
  <2>1. \A i \in DOMAIN cache.e : cache'.e[i].ip = cache.e[i].ip
    BY <1>4, <1>7
  <2>2. ptrCaller' # "out" => ptrCaller # "out"
    BY DEF StoreName
  <2> QED BY <1>7, <2>1, <2>2 DEF StoreName, PtrInv, CallerWaits, Hop
<1>12. Printed'
  <2>1. \A i \in DOMAIN cache.e : cache.e[i].state = 2 => cache'.e[i] = cache.e[i]
    BY <1>2, <1>7 DEF Pending
  <2> SUFFICES ASSUME NEW h \in DOMAIN names, names[h] # NoName
               PROVE  /\ h \in DOMAIN plan.route
                      /\ \E i \in DOMAIN cache'.e :
                           /\ cache'.e[i].state = 2
                           /\ cache'.e[i].ip = plan.route[h]
                           /\ cache'.e[i].name = names[h]
    BY DEF Printed, StoreName
  <2>2. PICK i \in DOMAIN cache.e : /\ cache.e[i].state = 2
                                    /\ cache.e[i].ip = plan.route[h]
                                    /\ cache.e[i].name = names[h]
    BY DEF PtrInv, Printed
  <2>3. h \in DOMAIN plan.route
    BY DEF PtrInv, Printed
  <2> QED BY <1>7, <2>1, <2>2, <2>3
<1>13. HopNames'
  BY DEF StoreName, PtrInv, HopNames
<1> QED BY <1>8, <1>9, <1>10, <1>11, <1>12, <1>13 DEF PtrInv

\* An empty cache and nothing printed.
LEMMA InitPtr == Counting /\ Init => PtrInv
<1> SUFFICES ASSUME Counting, Init PROVE PtrInv
  OBVIOUS
<1>1. /\ cache = [e |-> <<>>, shutdown |-> FALSE, pending |-> 0]
      /\ resolver = "none" /\ ptrCaller = "out" /\ names = <<>> /\ plan \in Plans
  BY DEF Init, PtrInit
<1>2. PtrType
  BY <1>1 DEF PtrType
<1>3. Pending = {}
  BY <1>1 DEF Pending
<1>4. PendingCounts
  BY <1>1, <1>3, Zenon DEF PendingCounts, Counting
<1> QED BY <1>1, <1>2, <1>4
        DEF PtrInv, NamesBelong, CallerWaits, Printed, HopNames

\* Every step keeps the invariant of the cache.
LEMMA NextPtr == Counting /\ PtrInv /\ [Next]_vars => PtrInv'
<1> SUFFICES ASSUME Counting, PtrInv, [Next]_vars PROVE PtrInv'
  OBVIOUS
<1>1. ASSUME UNCHANGED <<plan, ptrVars>> PROVE PtrInv'
  BY <1>1, PtrIdle DEF ptrVars
<1>2. CASE Main
  <2>1. CASE \/ ps_scan_ports_run \/ ps_scan_udp_run \/ ps_discover_hosts_run
             \/ RefuseScan \/ NextJob \/ Submit \/ Finish \/ Return \/ PtrJoin
    BY <2>1, <1>1, Zenon
       DEF ps_scan_ports_run, ps_scan_udp_run, ps_discover_hosts_run, Begin,
           RefuseScan, NextJob, Submit, Finish, Return, PtrJoin
  <2>2. CASE StartTrace
    <3>1. CASE ps_ptr_cache_new /\ plan' = plan
      BY <3>1, PtrIdle DEF ps_ptr_cache_new
    <3> QED BY <2>2, <3>1, <1>1 DEF StartTrace
  <2>3. CASE tr_emit_cb
    <3>1. Hop \in DOMAIN plan.route
      <4>1. plan.route \in Seq(Addrs \cup {NoName}) /\ Len(names) \in Nat
        <5>1. plan \in Plans /\ names \in Seq({NoName} \cup {NameOf[x] : x \in Addrs})
          BY Zenon DEF PtrInv, PtrType
        <5>2. plan.route \in Seq(Addrs \cup {NoName})
          BY <5>1, PlansAssumption, Zenon
        <5> QED BY <5>1, <5>2
      <4>2. Hop <= Len(plan.route)
        BY Zenon, <2>3 DEF tr_emit_cb
      <4> QED BY <4>1, <4>2 DEF Hop
    <3>2. CASE plan.ptr = "off" \/ plan.route[Hop] = NoName
      BY <2>3, <3>1, <3>2, UnnamedKeeps, Zenon DEF tr_emit_cb
    <3>3. CASE ~(plan.ptr = "off" \/ plan.route[Hop] = NoName)
      BY <2>3, <3>1, <3>3, AskKeeps, Zenon DEF tr_emit_cb
    <3> QED BY <3>2, <3>3
  <2>4. CASE EndTrace
    <3>1. CASE ps_ptr_cache_free /\ plan' = plan
      BY <3>1, FreeKeeps
    <3> QED BY <2>4, <3>1, <1>1 DEF EndTrace
  <2>5. CASE Recheck /\ plan' = plan
    BY <2>5, WakeKeeps
  <2> QED BY <1>2, <2>1, <2>2, <2>3, <2>4, <2>5 DEF Main
<1>3. ASSUME NEW t \in Threads, Worker(t) PROVE PtrInv'
  BY <1>1, <1>3, Zenon
     DEF Worker, TakeItem, RunItem, scan_one, udp_scan_one, check_host,
                    ProbeOnce, itemVars
<1>4. CASE Resolver
  BY <1>4, PickKeeps, StoreKeeps DEF Resolver
<1>5. CASE Interrupt \/ Tick
  BY <1>1, <1>5 DEF Interrupt, Tick
<1>6. CASE Spurious
  <2>1. CASE SpuriousMain
    BY <2>1, <1>1 DEF SpuriousMain
  <2>2. CASE SpuriousPtr /\ plan' = plan
    BY <2>2, PtrIdle DEF SpuriousPtr
  <2> QED BY <1>1, <1>6, <2>1, <2>2 DEF Spurious
<1>7. CASE Timeout
  BY <1>7, WakeKeeps DEF Timeout
<1>8. CASE UNCHANGED vars
  BY <1>1, <1>8 DEF vars
<1> QED BY <1>2, <1>3, <1>4, <1>5, <1>6, <1>7, <1>8 DEF Next, Exited

\* A step of the cache keeps its bounds.
LEMMA NextPtrBounds ==
  ASSUME PtrInv, PtrBounds, [Next]_vars
  PROVE  PtrBounds'
<1>1. /\ cache \in [e : Seq(Entry), shutdown : BOOLEAN, pending : Nat]
      /\ Len(cache.e) \in Nat /\ PTR_MAX \in Nat
  BY PtrAssumption DEF PtrInv, PtrType
<1>2. ASSUME UNCHANGED ptrVars PROVE PtrBounds'
  BY <1>2 DEF PtrBounds, ptrVars
<1>3. ASSUME UNCHANGED <<cache, resolver>>, ptrCaller' \in {"out", "cond", "woken"}
      PROVE  PtrBounds'
  BY <1>3 DEF PtrBounds
<1>4. ASSUME UNCHANGED <<cache, ptrCaller>>,
             resolver' \in {"none", "loop", "wait", "resolve", "exit"}
      PROVE  PtrBounds'
  BY <1>4 DEF PtrBounds
<1>5. ASSUME NEW ip, NEW waits, ps_ptr_cache_wait(ip, waits) PROVE PtrBounds'
  <2>1. ptrCaller' \in {"out", "cond"}
    BY <1>5 DEF ps_ptr_cache_wait, Answer
  <2>2. CASE UNCHANGED <<cache, resolver>>
    BY <1>3, <2>1, <2>2
  <2>3. CASE Len(cache.e) < PTR_MAX /\ cache' = Scheduled(ip) /\ resolver' = Broadcast(resolver)
    <3>1. Len(cache'.e) = Len(cache.e) + 1
      BY <1>1, <2>3 DEF Scheduled
    <3>2. Len(cache'.e) <= PTR_MAX
      BY <1>1, <2>3, <3>1
    <3>3. resolver' \in {"none", "loop", "wait", "resolve", "exit"}
      BY <2>3 DEF Broadcast, PtrBounds
    <3> QED
      BY <2>1, <3>2, <3>3 DEF PtrBounds
  <2> QED
    BY <1>5, <2>2, <2>3, Zenon DEF ps_ptr_cache_wait
<1>6. CASE Main
  <2>1. CASE \/ ps_scan_ports_run \/ ps_scan_udp_run \/ ps_discover_hosts_run
             \/ RefuseScan \/ NextJob \/ Submit \/ Finish \/ Return \/ PtrJoin
    BY <1>2, <2>1, Zenon
       DEF ps_scan_ports_run, ps_scan_udp_run, ps_discover_hosts_run, Begin,
           RefuseScan, NextJob, Submit, Finish, Return, PtrJoin
  <2>2. CASE StartTrace
    BY <1>2, <1>4, <2>2 DEF StartTrace, ps_ptr_cache_new
  <2>3. CASE tr_emit_cb
    <3>1. CASE UNCHANGED <<cache, resolver, idx, ptrCaller, asked>>
      BY <1>4, <3>1 DEF PtrBounds
    <3>2. CASE ps_ptr_cache_wait(plan.route[Hop], plan.ptr = "wait")
      BY <1>5, <3>2
    <3> QED
      BY <2>3, <3>1, <3>2, Zenon DEF tr_emit_cb
  <2>4. CASE EndTrace
    <3>1. CASE ps_ptr_cache_free
      <4>1. cache'.e = cache.e
        BY <1>1, <3>1 DEF ps_ptr_cache_free
      <4>2. resolver' \in {"none", "loop", "wait", "resolve", "exit"}
        BY <3>1 DEF ps_ptr_cache_free, Broadcast, PtrBounds
      <4> QED
        BY <3>1, <4>1, <4>2 DEF ps_ptr_cache_free, PtrBounds
    <3> QED
      BY <1>2, <2>4, <3>1 DEF EndTrace
  <2>5. CASE Recheck
    BY <1>3, <2>5 DEF Recheck, Answer
  <2> QED
    BY <1>6, <2>1, <2>2, <2>3, <2>4, <2>5 DEF Main
<1>7. ASSUME NEW t \in Threads, Worker(t) PROVE PtrBounds'
  BY <1>2, <1>7, Zenon
     DEF Worker, TakeItem, RunItem, scan_one, udp_scan_one, check_host,
                    ProbeOnce, itemVars
<1>8. CASE PickEntry
  BY <1>4, <1>8 DEF PickEntry
<1>9. CASE StoreName
  <2>1. PICK name : cache' = [cache EXCEPT !.e[idx] = [@ EXCEPT !.name = name, !.state = 2],
                                           !.pending = IF @ > 0 THEN @ - 1 ELSE @]
    BY <1>9, Zenon DEF StoreName
  <2>2. Len(cache'.e) = Len(cache.e)
    BY <1>1, <2>1
  <2>3. resolver' = "loop" /\ ptrCaller' \in {ptrCaller, "woken"}
    BY <1>9 DEF StoreName
  <2> QED
    BY <2>2, <2>3 DEF PtrBounds
<1>10. CASE Interrupt \/ Tick
  BY <1>2, <1>10 DEF Interrupt, Tick
<1>11. CASE Spurious
  <2>1. CASE SpuriousMain
    BY <2>1, <1>2 DEF SpuriousMain
  <2>2. CASE SpuriousPtr
    BY <2>2, <1>3, <1>4 DEF SpuriousPtr
  <2> QED
    BY <1>2, <1>11, <2>1, <2>2 DEF Spurious
<1>12. CASE Timeout
  BY <1>3, <1>12 DEF Timeout, TimedOut, Answer
<1>13. CASE UNCHANGED vars
  BY <1>2, <1>13 DEF vars
<1> QED
  BY <1>6, <1>7, <1>8, <1>9, <1>10, <1>11, <1>12, <1>13 DEF Next, Resolver, Exited

-----------------------------------------------------------------------------
(* Targets and port lists, by induction over prefixes and ranges.          *)

LOCAL INSTANCE WellFoundedInduction

\* A set of naturals that is not empty has a least member.
LEMMA LeastNatural ==
  ASSUME NEW T, T \subseteq Nat, T # {}
  PROVE  \E x \in T : \A y \in T : x <= y
<1> DEFINE R == {p \in Nat \X Nat : p[1] < p[2]}
<1>1. IsWellFoundedOn(R, Nat)
  BY NatLessThanWellFounded, Zenon DEF OpToRel
<1>2. \E x \in T : \A y \in T : ~(<<y, x>> \in R)
  <2> HIDE DEF R
  <2> QED
    BY <1>1, WFMin, Zenon
<1>3. PICK x \in T : \A y \in T : ~(<<y, x>> \in R)
  BY <1>2
<1>4. ASSUME NEW y \in T
      PROVE  x <= y
  <2>1. x \in Nat /\ y \in Nat
    OBVIOUS
  <2>2. y < x => <<y, x>> \in R
    BY <2>1
  <2>3. ~(y < x)
    BY <1>3, <2>2
  <2> QED
    BY <2>1, <2>3
<1> QED
  BY <1>3, <1>4

\* The powers of two up to any exponent exist as a function.
LEMMA PowersExist ==
  ASSUME NEW n \in Nat
  PROVE  \E g : g = [i \in 0 .. n |-> IF i = 0 THEN 1 ELSE 2 * g[i - 1]]
<1> DEFINE Powers(m) == \E g : g = [i \in 0 .. m |-> IF i = 0 THEN 1 ELSE 2 * g[i - 1]]
           T == {m \in Nat : ~Powers(m)}
<1>1. ASSUME T # {} PROVE FALSE
  <2>1. PICK m \in T : \A k \in T : m <= k
    BY <1>1, LeastNatural, Zenon
  <2>2. m # 0
    <3> DEFINE z == [i \in 0 .. 0 |-> 1]
    <3>1. z = [i \in 0 .. 0 |-> IF i = 0 THEN 1 ELSE 2 * z[i - 1]]
      OBVIOUS
    <3>2. Powers(0)
      BY <3>1, Zenon
    <3>3. ~Powers(m)
      BY <2>1
    <3> HIDE DEF Powers
    <3> QED
      BY <3>2, <3>3
  <2>3. m - 1 \in Nat /\ ~(m <= m - 1)
    BY <2>2
  <2>4. Powers(m - 1)
    BY <2>1, <2>3, Zenon
  <2>5. PICK g : g = [i \in 0 .. m - 1 |-> IF i = 0 THEN 1 ELSE 2 * g[i - 1]]
    BY <2>4, Zenon
  <2> DEFINE h == [i \in 0 .. m |-> IF i = m THEN 2 * g[m - 1] ELSE g[i]]
  <2>6. \A i \in 0 .. m - 1 : h[i] = g[i] /\ g[i] = IF i = 0 THEN 1 ELSE 2 * g[i - 1]
    BY <2>3, <2>5
  <2>7. \A i \in 0 .. m : h[i] = IF i = 0 THEN 1 ELSE 2 * h[i - 1]
    <3> TAKE i \in 0 .. m
    <3>1. CASE i = m
      <4>1. h[m] = 2 * g[m - 1] /\ h[m - 1] = g[m - 1]
        BY <2>2, <2>3, <2>6
      <4> QED
        BY <2>2, <3>1, <4>1
    <3>2. CASE i # m /\ i # 0
      <4>1. i \in 0 .. m - 1 /\ i - 1 \in 0 .. m - 1
        BY <3>2
      <4> QED
        BY <2>6, <3>2, <4>1, Zenon
    <3>3. CASE i = 0
      <4>1. 0 \in 0 .. m - 1
        BY <2>2
      <4>2. h[0] = 1
        BY <2>6, <4>1, Zenon
      <4> QED
        BY <3>3, <4>2
    <3> QED
      BY <3>1, <3>2, <3>3, Zenon
  <2>8. h = [i \in 0 .. m |-> h[i]]
    OBVIOUS
  <2> HIDE DEF h
  <2>9. h = [i \in 0 .. m |-> IF i = 0 THEN 1 ELSE 2 * h[i - 1]]
    BY <2>7, <2>8, Zenon
  <2>10. Powers(m)
    BY <2>9, Zenon
  <2> QED
    BY <2>1, <2>10
<1> QED
  BY <1>1, Zenon

\* A shift by one doubles.
LEMMA ShiftDoubles ==
  Shift[0] = 1 /\ \A i \in 1 .. Bits : Shift[i] = 2 * Shift[i - 1]
<1>1. Shift = [i \in 0 .. Bits |-> IF i = 0 THEN 1 ELSE 2 * Shift[i - 1]]
  BY PowersExist, TargetsAssumption, Zenon DEF Shift
<1>2. Bits \in Nat
  BY TargetsAssumption
<1> HIDE DEF Shift
<1> QED
  BY <1>1, <1>2

\* A power of two divides every higher one.
LEMMA ShiftDivides ==
  \A i \in 0 .. Bits :
    Shift[i] \in Nat \ {0} /\ \E c \in Nat \ {0} : Shift[Bits] = c * Shift[i]
<1>1. Bits \in Nat
  BY TargetsAssumption
<1>2. \A i \in 0 .. Bits : Shift[i] \in Nat \ {0}
  <2> DEFINE T == {i \in 0 .. Bits : Shift[i] \notin Nat \ {0}}
  <2>1. ASSUME T # {} PROVE FALSE
    <3>1. T \subseteq Nat
      OBVIOUS
    <3>2. PICK i \in T : \A k \in T : i <= k
      BY <2>1, <3>1, LeastNatural, Zenon
    <3>3. i # 0
      BY ShiftDoubles
    <3>4. i - 1 \in 0 .. Bits /\ i \in 1 .. Bits /\ ~(i <= i - 1)
      BY <1>1, <3>3
    <3>5. Shift[i - 1] \in Nat \ {0}
      BY <3>2, <3>4
    <3>6. Shift[i] = 2 * Shift[i - 1]
      BY <3>4, ShiftDoubles
    <3> QED
      BY <3>2, <3>5, <3>6
  <2> QED
    BY <2>1
<1> DEFINE Divides(i) == \E c \in Nat \ {0} : Shift[Bits] = c * Shift[i]
           U == {d \in 0 .. Bits : ~Divides(Bits - d)}
<1>3. ASSUME U # {} PROVE FALSE
  <2>1. U \subseteq Nat
    OBVIOUS
  <2>2. PICK d \in U : \A k \in U : d <= k
    BY <1>3, <2>1, LeastNatural, Zenon
  <2>3. d # 0
    <3>1. Shift[Bits] = 1 * Shift[Bits]
      BY <1>1, <1>2
    <3>2. Divides(Bits) /\ Bits - 0 = Bits
      BY <1>1, <3>1
    <3> QED
      BY <2>2, <3>2
  <2>4. d - 1 \in 0 .. Bits /\ ~(d <= d - 1)
    BY <1>1, <2>3
  <2>5. Divides(Bits - (d - 1))
    BY <2>2, <2>4
  <2>6. PICK c \in Nat \ {0} : Shift[Bits] = c * Shift[Bits - (d - 1)]
    BY <2>5
  <2>7. Shift[Bits - (d - 1)] = 2 * Shift[Bits - d] /\ Shift[Bits - d] \in Nat
    <3>1. Bits - (d - 1) \in 1 .. Bits /\ Bits - d = (Bits - (d - 1)) - 1 /\ Bits - d \in 0 .. Bits
      BY <1>1, <2>4
    <3> QED
      BY <1>2, <3>1, ShiftDoubles
  <2>8. \A s \in Nat : c * (2 * s) = (2 * c) * s
    OBVIOUS
  <2>9. Shift[Bits] = (2 * c) * Shift[Bits - d] /\ 2 * c \in Nat \ {0}
    BY <2>6, <2>7, <2>8
  <2>10. Divides(Bits - d)
    BY <2>9
  <2> QED
    BY <2>2, <2>10
<1>4. \A i \in 0 .. Bits : Divides(i)
  <2> TAKE i \in 0 .. Bits
  <2>1. Bits - i \in 0 .. Bits /\ Bits - (Bits - i) = i
    BY <1>1
  <2>2. Bits - i \notin U
    BY <1>3
  <2> HIDE DEF Divides
  <2> QED
    BY <2>1, <2>2
<1> QED
  BY <1>2, <1>4

\* The addresses that agree with x above the last S are the block that x is in.
LEMMA BlockOf ==
  ASSUME NEW S \in Nat \ {0}, NEW x \in Nat
  PROVE  /\ x - (x % S) \in Nat
         /\ \A y \in Nat : y \div S = x \div S <=> x - (x % S) <= y /\ y < (x - (x % S)) + S
<1>1. PICK q \in Nat, r \in 0 .. S - 1 : x \div S = q /\ x % S = r /\ x = S * q + r
  BY SMT
<1>2. x - (x % S) = S * q /\ S * q \in Nat
  <2>1. S * q \in Nat
    BY Product
  <2>2. \A z \in Nat : (z + r) - r = z
    OBVIOUS
  <2> QED
    BY <1>1, <2>1, <2>2, Zenon
<1>3. ASSUME NEW y \in Nat, y \div S = q PROVE S * q <= y /\ y < S * q + S
  BY <1>3
<1>4. ASSUME NEW y \in Nat, S * q <= y, y < S * q + S PROVE y \div S = q
  <2>1. PICK d \in 0 .. S - 1 : y = S * q + d
    <3>1. y - S * q \in 0 .. S - 1 /\ y = S * q + (y - S * q)
      BY <1>2, <1>4
    <3> QED
      BY <3>1
  <2> QED
    BY <2>1
<1> QED
  BY <1>1, <1>2, <1>3, <1>4

\* A block of addresses lies within the address space.
LEMMA BlockFits ==
  ASSUME NEW S \in Nat \ {0}, NEW c \in Nat \ {0}, NEW x \in Nat, x < c * S
  PROVE  (x - (x % S)) + S <= c * S
<1>1. PICK q \in Nat, r \in 0 .. S - 1 : x \div S = q /\ x % S = r /\ x = S * q + r
  BY SMT
<1>2. q < c
  <2>1. ASSUME q >= c PROVE FALSE
    <3>1. S * q >= S * c /\ S * c = c * S
      BY <2>1
    <3> QED
      BY <1>1, <3>1
  <2> QED
    BY <2>1
<1>3. S * (q + 1) <= S * c /\ S * (q + 1) = S * q + S /\ S * c = c * S
  BY <1>2
<1> QED
  BY <1>1, <1>3

\* The loops over n hosts and m ports meet every host, and no other.
LEMMA LoopHosts ==
  ASSUME NEW n \in Nat, NEW m \in Nat \ {0}
  PROVE  /\ n * m \in Nat
         /\ \A k \in 1 .. n * m : (k - 1) \div m \in 0 .. n - 1 /\ (k - 1) % m \in 0 .. m - 1
         /\ \A i \in 0 .. n - 1 : i * m + 1 \in 1 .. n * m /\ ((i * m + 1) - 1) \div m = i
<1>1. n * m \in Nat
  OBVIOUS
<1>2. ASSUME NEW k \in 1 .. n * m
      PROVE  (k - 1) \div m \in 0 .. n - 1 /\ (k - 1) % m \in 0 .. m - 1
  <2>1. PICK q \in Nat, r \in 0 .. m - 1 : (k - 1) \div m = q /\ (k - 1) % m = r /\ k - 1 = m * q + r
    BY <1>1, SMT
  <2>2. q < n
    <3>1. ASSUME q >= n PROVE FALSE
      <4>1. m * q >= m * n /\ m * n = n * m
        BY <3>1
      <4> QED
        BY <2>1, <4>1, <1>1
    <3> QED
      BY <3>1
  <2> QED
    BY <2>1, <2>2
<1>3. ASSUME NEW i \in 0 .. n - 1
      PROVE  i * m + 1 \in 1 .. n * m /\ ((i * m + 1) - 1) \div m = i
  <2>1. i * m \in Nat /\ i * m + m = (i + 1) * m /\ (i + 1) * m <= n * m
    OBVIOUS
  <2>2. i * m + 1 \in 1 .. n * m /\ (i * m + 1) - 1 = i * m
    BY <2>1, <1>1
  <2>3. (i * m) \div m = i
    OBVIOUS
  <2> QED
    BY <2>2, <2>3
<1> QED
  BY <1>1, <1>2, <1>3

\* ps_cidr_parse and ps_cidr_addr give the addresses of the target.
LEMMA CidrCovers ==
  ASSUME plan \in Plans, NEW cidr \in ps_cidr_parse(plan.addr, plan.prefix)
  PROVE  /\ cidr.base \in Nat /\ cidr.count \in Nat
         /\ plan.prefix # 0 =>
              \A y \in Int : y \in Target <=> cidr.base <= y /\ y < cidr.base + cidr.count
<1> DEFINE x == plan.addr
           p == plan.prefix
<1>1. Bits \in Nat /\ Shift[Bits] \in Nat
  BY TargetsAssumption, ShiftDivides
<1>2. x # Malformed /\ ~(p > Bits)
  BY Zenon DEF ps_cidr_parse
<1>3. x \in 0 .. Shift[Bits] - 1 /\ p \in {NoPrefix} \cup Nat
  BY <1>2, PlansAssumption
<1>4. CASE p = NoPrefix
  <2>1. cidr = [base |-> x, count |-> 1]
    BY <1>2, <1>4 DEF ps_cidr_parse
  <2>2. \A y \in Int : y \in Target <=> y = x
    BY <1>1, <1>3, <1>4 DEF Target
  <2> QED
    BY <1>1, <1>3, <2>1, <2>2
<1>5. CASE p # NoPrefix
  <2> DEFINE S == Shift[Bits - p]
  <2>1. p \in 0 .. Bits /\ Bits - p \in 0 .. Bits
    BY <1>1, <1>2, <1>3, <1>5
  <2>2. S \in Nat \ {0} /\ \E c \in Nat \ {0} : Shift[Bits] = c * S
    BY <2>1, ShiftDivides
  <2>3. PICK n : /\ cidr = [base |-> x - (x % S), count |-> n]
                 /\ n \in IF p = 0 THEN {0, 1} ELSE {S}
    BY <1>2, <1>5, Zenon DEF ps_cidr_parse
  <2>4. n \in Nat /\ (p # 0 => n = S)
    BY <2>2, <2>3
  <2>5. /\ x - (x % S) \in Nat
        /\ \A y \in Nat : y \div S = x \div S <=> x - (x % S) <= y /\ y < (x - (x % S)) + S
    <3>1. x \in Nat
      BY <1>1, <1>3
    <3> HIDE DEF S, x
    <3> QED
      BY <2>2, <3>1, BlockOf, Zenon
  <2>6. (x - (x % S)) + S <= Shift[Bits]
    <3>1. x \in Nat /\ x < Shift[Bits]
      BY <1>1, <1>3
    <3> HIDE DEF S, x
    <3> QED
      BY <2>2, <3>1, BlockFits, Zenon
  <2>7. \A y \in Int : y \in Target <=> y \in 0 .. Shift[Bits] - 1 /\ y \div S = x \div S
    BY <1>1, <1>5 DEF Target
  <2> HIDE DEF S, x, p
  <2>8. \A y \in Int : y \in Target <=> x - (x % S) <= y /\ y < (x - (x % S)) + S
    <3> DEFINE b == x - (x % S)
               Same(y) == y \div S = x \div S
    <3>1. b \in Nat /\ b + S <= Shift[Bits]
      BY <2>5, <2>6
    <3>2. \A y \in Nat : Same(y) <=> b <= y /\ y < b + S
      BY <2>5
    <3>3. \A y \in Int : y \in Target <=> y \in 0 .. Shift[Bits] - 1 /\ Same(y)
      BY <2>7
    <3> HIDE DEF b, Same
    <3>4. \A y \in Int : y \in Target <=> b <= y /\ y < b + S
      BY <1>1, <2>2, <3>1, <3>2, <3>3
    <3> QED
      BY <3>4 DEF b
  <2> QED
    BY <2>3, <2>4, <2>5, <2>8 DEF p
<1> QED
  BY <1>4, <1>5

\* A function on the first N numbers is a sequence.
LEMMA SeqOf == \A X : \A N \in Nat : \A f \in [1 .. N -> X] : f \in Seq(X) /\ Len(f) = N
OBVIOUS

\* A scan's items are one for each host of the target and each port.
LEMMA JobsCover ==
  ASSUME plan \in Plans, NEW ports \in Seq(Nat), ports # <<>>,
         NEW cidr \in ps_cidr_parse(plan.addr, plan.prefix)
  PROVE  /\ Jobs(cidr, ports) \in Seq(Job)
         /\ plan.prefix # 0 => Hosts(Jobs(cidr, ports)) = Target
         /\ Len(ports) \in Nat \ {0}
<1> DEFINE b == cidr.base
           n == cidr.count
           m == Len(ports)
           J == Jobs(cidr, ports)
<1>1. b \in Nat /\ n \in Nat /\ (plan.prefix # 0 =>
        \A y \in Int : y \in Target <=> b <= y /\ y < b + n)
  BY CidrCovers
<1>2. m \in Nat \ {0}
  OBVIOUS
<1>3. /\ n * m \in Nat
      /\ \A k \in 1 .. n * m : (k - 1) \div m \in 0 .. n - 1 /\ (k - 1) % m \in 0 .. m - 1
      /\ \A i \in 0 .. n - 1 : i * m + 1 \in 1 .. n * m /\ ((i * m + 1) - 1) \div m = i
  <2> HIDE DEF n, m
  <2> QED
    BY <1>1, <1>2, LoopHosts, Zenon
<1>4. J = [k \in 1 .. n * m |-> [host |-> b + ((k - 1) \div m), port |-> ports[((k - 1) % m) + 1]]]
  BY Zenon DEF Jobs, ps_cidr_addr
<1>5. \A k \in 1 .. n * m : ports[((k - 1) % m) + 1] \in Nat /\ (k - 1) \div m \in 0 .. n - 1
  <2> TAKE k \in 1 .. n * m
  <2>1. ((k - 1) % m) + 1 \in 1 .. m
    <3> HIDE DEF m, n
    <3> QED BY <1>2, <1>3
  <2>2. \A j \in 1 .. m : ports[j] \in Nat
    OBVIOUS
  <2> HIDE DEF m, n
  <2> QED BY <1>3, <2>1, <2>2
<1> HIDE DEF m, n, b, J
<1>6. J \in [1 .. n * m -> Job]
  BY <1>1, <1>4, <1>5 DEF Job
<1>7. J \in Seq(Job)
  BY <1>3, <1>6, SeqOf, Zenon
<1>8. DOMAIN J = 1 .. n * m /\ \A k \in 1 .. n * m : J[k].host = b + ((k - 1) \div m)
  BY <1>4
<1>9. \A y : y \in Hosts(J) <=> y \in Int /\ b <= y /\ y < b + n
  <2>1. ASSUME NEW k \in 1 .. n * m
        PROVE  J[k].host \in Int /\ b <= J[k].host /\ J[k].host < b + n
    BY <1>1, <1>5, <1>8
  <2>2. ASSUME NEW y \in Int, b <= y, y < b + n
        PROVE  \E k \in 1 .. n * m : y = J[k].host
    <3>1. y - b \in 0 .. n - 1
      BY <1>1, <2>2
    <3>2. PICK i \in 0 .. n - 1 : i = y - b
      BY <3>1
    <3>3. i * m + 1 \in 1 .. n * m /\ ((i * m + 1) - 1) \div m = i
      BY <1>3
    <3>4. J[i * m + 1].host = b + i /\ b + i = y
      BY <1>1, <1>8, <3>2, <3>3
    <3> QED
      BY <3>3, <3>4
  <2> QED
    BY <1>8, <2>1, <2>2, Zenon DEF Hosts
<1>10. plan.prefix # 0 => Hosts(J) = Target
  <2>1. \A y : y \in Target => y \in Int
    <3>1. Shift[Bits] \in Nat
      BY TargetsAssumption, ShiftDivides
    <3> QED
      BY <3>1 DEF Target
  <2>2. ASSUME plan.prefix # 0, NEW y PROVE y \in Hosts(J) <=> y \in Target
    BY <1>1, <1>9, <2>1, <2>2
  <2> QED
    BY <2>2, Zenon
<1> QED
  BY <1>2, <1>7, <1>10 DEF J, m

\* The ports of one range.
PortsOf(r) == [j \in 1 .. r[2] - r[1] + 1 |-> r[1] + j - 1]

\* What ps_ports_parse reads, range by range, exists as a function.
LEMMA ReadsExist ==
  ASSUME NEW spec, NEW n \in Nat
  PROVE  \E g : g = [i \in 0 .. n |-> IF i = 0 THEN <<>> ELSE g[i - 1] \o PortsOf(spec[i])]
<1> DEFINE Reads(m) ==
             \E g : g = [i \in 0 .. m |-> IF i = 0 THEN <<>> ELSE g[i - 1] \o PortsOf(spec[i])]
           T == {m \in Nat : ~Reads(m)}
<1>1. ASSUME T # {} PROVE FALSE
  <2>1. PICK m \in T : \A k \in T : m <= k
    BY <1>1, LeastNatural, Zenon
  <2>2. m # 0
    <3> DEFINE z == [i \in 0 .. 0 |-> <<>>]
    <3>1. z = [i \in 0 .. 0 |-> IF i = 0 THEN <<>> ELSE z[i - 1] \o PortsOf(spec[i])]
      OBVIOUS
    <3>2. Reads(0)
      BY <3>1, Zenon
    <3>3. ~Reads(m)
      BY <2>1, Zenon
    <3> HIDE DEF Reads
    <3> QED
      BY <3>2, <3>3
  <2>3. m - 1 \in Nat /\ ~(m <= m - 1)
    BY <2>2
  <2>4. Reads(m - 1)
    BY <2>1, <2>3, Zenon
  <2>5. PICK g : g = [i \in 0 .. m - 1 |-> IF i = 0 THEN <<>> ELSE g[i - 1] \o PortsOf(spec[i])]
    BY <2>4, Zenon
  <2> DEFINE h == [i \in 0 .. m |-> IF i = m THEN g[m - 1] \o PortsOf(spec[m]) ELSE g[i]]
  <2>6. \A i \in 0 .. m - 1 :
          h[i] = g[i] /\ g[i] = IF i = 0 THEN <<>> ELSE g[i - 1] \o PortsOf(spec[i])
    BY <2>3, <2>5
  <2>7. \A i \in 0 .. m : h[i] = IF i = 0 THEN <<>> ELSE h[i - 1] \o PortsOf(spec[i])
    <3> TAKE i \in 0 .. m
    <3>1. CASE i = m
      <4>1. h[m] = g[m - 1] \o PortsOf(spec[m]) /\ h[m - 1] = g[m - 1]
        <5>1. m \in 0 .. m /\ m - 1 \in 0 .. m - 1
          BY <2>2, <2>3
        <5> QED BY <2>6, <5>1, Zenon
      <4> QED
        BY <2>2, <3>1, <4>1, Zenon
    <3>2. CASE i # m /\ i # 0
      <4>1. i \in 0 .. m - 1 /\ i - 1 \in 0 .. m - 1
        BY <3>2
      <4> QED
        BY <2>6, <3>2, <4>1, Zenon
    <3>3. CASE i = 0
      <4>1. 0 \in 0 .. m - 1
        BY <2>2
      <4>2. h[0] = <<>>
        BY <2>6, <4>1, Zenon
      <4> QED
        BY <3>3, <4>2
    <3> QED
      BY <3>1, <3>2, <3>3, Zenon
  <2>8. h = [i \in 0 .. m |-> h[i]]
    OBVIOUS
  <2> HIDE DEF h
  <2>9. h = [i \in 0 .. m |-> IF i = 0 THEN <<>> ELSE h[i - 1] \o PortsOf(spec[i])]
    BY <2>7, <2>8, Zenon
  <2>10. Reads(m)
    BY <2>9, Zenon
  <2> QED
    BY <2>1, <2>10
<1> QED
  BY <1>1, Zenon

\* Sequences of ports put together are one.
LEMMA ReadsTyped ==
  ASSUME NEW spec, NEW h, NEW n \in Nat, h[0] = <<>>,
         \A i \in 1 .. n : h[i] = h[i - 1] \o PortsOf(spec[i]),
         \A i \in 1 .. n : PortsOf(spec[i]) \in Seq(Nat)
  PROVE  h[n] \in Seq(Nat)
<1> DEFINE Typed(i) == h[i] \in Seq(Nat)
           T == {i \in 0 .. n : ~Typed(i)}
<1>1. ASSUME T # {} PROVE FALSE
  <2>1. T \subseteq Nat
    OBVIOUS
  <2>2. PICK i \in T : \A k \in T : i <= k
    BY <1>1, <2>1, LeastNatural, Zenon
  <2>3. i # 0
    <3>1. Typed(0)
      OBVIOUS
    <3> HIDE DEF Typed
    <3> QED
      BY <2>2, <3>1
  <2>4. i - 1 \in 0 .. n /\ i \in 1 .. n /\ ~(i <= i - 1)
    BY <2>2, <2>3
  <2>5. Typed(i - 1)
    <3> HIDE DEF Typed
    <3> QED
      BY <2>2, <2>4
  <2>6. h[i] = h[i - 1] \o PortsOf(spec[i]) /\ PortsOf(spec[i]) \in Seq(Nat)
    BY <2>4, Zenon
  <2>7. Typed(i)
    <3>1. \A s, u \in Seq(Nat) : s \o u \in Seq(Nat)
      OBVIOUS
    <3> QED
      BY <2>5, <2>6, <3>1
  <2> HIDE DEF Typed
  <2> QED
    BY <2>2, <2>7
<1>2. n \in 0 .. n
  OBVIOUS
<1> QED
  BY <1>1, <1>2

\* ps_ports_parse gives a sequence of ports.
LEMMA PortsRead ==
  ASSUME NEW spec \in Seq(Nat \X Nat)
  PROVE  ps_ports_parse(spec) \in Seq(Nat)
<1> DEFINE h == CHOOSE g : g = [i \in 0 .. Len(spec) |->
                  IF i = 0 THEN <<>> ELSE g[i - 1] \o PortsOf(spec[i])]
           Good == \A i \in DOMAIN spec :
             spec[i][1] <= spec[i][2] /\ \A v \in spec[i][1] .. spec[i][2] : port_add(v)
<1>1. h = [i \in 0 .. Len(spec) |-> IF i = 0 THEN <<>> ELSE h[i - 1] \o PortsOf(spec[i])]
  <2>1. Len(spec) \in Nat
    OBVIOUS
  <2> QED
    BY <2>1, ReadsExist, Zenon
<1>2. ps_ports_parse(spec) = IF Good THEN h[Len(spec)] ELSE <<>>
  BY Zenon DEF ps_ports_parse, PortsOf
<1> HIDE DEF h
<1>3. ASSUME Good PROVE \A i \in 1 .. Len(spec) : PortsOf(spec[i]) \in Seq(Nat)
  <2> TAKE i \in 1 .. Len(spec)
  <2>1. spec[i] \in Nat \X Nat /\ spec[i][1] <= spec[i][2]
    BY <1>3
  <2>2. PICK x \in Nat, y \in Nat : spec[i][1] = x /\ spec[i][2] = y /\ x <= y
    BY <2>1
  <2>3. PortsOf(spec[i]) = [j \in 1 .. y - x + 1 |-> x + j - 1]
    BY <2>2 DEF PortsOf
  <2>4. y - x + 1 \in Nat /\ \A j \in 1 .. y - x + 1 : x + j - 1 \in Nat
    BY <2>2
  <2>5. PortsOf(spec[i]) \in [1 .. y - x + 1 -> Nat]
    BY <2>3, <2>4
  <2> QED
    BY <2>4, <2>5, SeqOf
<1>4. Len(spec) \in Nat
  OBVIOUS
<1>5. h[0] = <<>> /\ \A i \in 1 .. Len(spec) : h[i] = h[i - 1] \o PortsOf(spec[i])
  <2> DEFINE n == Len(spec)
  <2>1. \A i \in 0 .. n : h[i] = IF i = 0 THEN <<>> ELSE h[i - 1] \o PortsOf(spec[i])
    BY <1>1, Zenon
  <2>2. 0 \in 0 .. n /\ \A i \in 1 .. n : i \in 0 .. n /\ i # 0
    BY <1>4
  <2> QED
    BY <2>1, <2>2, Zenon
<1>6. Good => h[Len(spec)] \in Seq(Nat)
  BY <1>3, <1>4, <1>5, ReadsTyped, Zenon
<1> HIDE DEF Good
<1> QED
  BY <1>2, <1>6

\* The ports of a scan.
LEMMA PortListRead ==
  ASSUME plan \in Plans
  PROVE  PortList \in Seq(Nat)
<1>1. plan.spec # NoSpec => plan.spec \in Seq(Nat \X Nat)
  BY PlansAssumption
<1> QED
  BY <1>1, PortsRead, PortsAssumption DEF PortList

\* So every plan is as the pool needs it.
LEMMA PlansAreCovered == PlansCovered
<1> SUFFICES ASSUME plan \in Plans
             PROVE  /\ PortList \in Seq(Nat)
                    /\ \A ports \in Seq(Nat) : ports # <<>> =>
                         /\ Len(ports) \in Nat \ {0}
                         /\ \A cidr \in ps_cidr_parse(plan.addr, plan.prefix) :
                              /\ Jobs(cidr, ports) \in Seq(Job)
                              /\ plan.prefix # 0 => Hosts(Jobs(cidr, ports)) = Target
  BY Zenon DEF PlansCovered
<1>1. PortList \in Seq(Nat)
  BY PortListRead
<1>2. ASSUME NEW ports \in Seq(Nat), ports # <<>>
      PROVE  Len(ports) \in Nat \ {0}
  BY <1>2
<1>3. ASSUME NEW ports \in Seq(Nat), ports # <<>>,
             NEW cidr \in ps_cidr_parse(plan.addr, plan.prefix)
      PROVE  /\ Jobs(cidr, ports) \in Seq(Job)
             /\ plan.prefix # 0 => Hosts(Jobs(cidr, ports)) = Target
  BY <1>3, JobsCover
<1> QED
  BY <1>1, <1>2, <1>3, Zenon

-----------------------------------------------------------------------------
(* The library's facts about finite sets, and with them the theorems.      *)

LOCAL F == INSTANCE FiniteSetTheorems

\* The facts about finite sets that the lemmas above assume.
LEMMA CountingHolds == Counting
<1>1. \A S : F!IsFiniteSet(S) <=> IsFiniteSet(S)
  BY Zenon DEF IsFiniteSet, F!IsFiniteSet
<1>2. \A S : F!Cardinality(S) = Cardinality(S)
  BY Zenon DEF Cardinality, F!Cardinality
<1>3. IsFiniteSet({}) /\ Cardinality({}) = 0
  BY <1>1, <1>2, F!FS_EmptySet, Zenon
<1>4. \A x : Cardinality({x}) = 1
  BY <1>2, F!FS_Singleton, Zenon
<1>5. \A S : IsFiniteSet(S) => Cardinality(S) \in Nat
  BY <1>1, <1>2, F!FS_CardinalityType, Zenon
<1>6. ASSUME NEW n \in Nat, NEW S, S \subseteq 1 .. n PROVE IsFiniteSet(S)
  <2>1. F!IsFiniteSet(1 .. n)
    <3>1. 1 \in Int /\ n \in Int
      OBVIOUS
    <3> QED
      BY <3>1, F!FS_Interval, Zenon
  <2> QED
    BY <1>1, <1>6, <2>1, F!FS_Subset, Zenon
<1>7. \A S, x : IsFiniteSet(S) /\ x \notin S => Cardinality(S \cup {x}) = Cardinality(S) + 1
  BY <1>1, <1>2, F!FS_AddElement, Zenon
<1>8. ASSUME NEW S, NEW x, IsFiniteSet(S), x \in S
      PROVE  Cardinality(S) # 0 /\ Cardinality(S \ {x}) = Cardinality(S) - 1
  <2>1. Cardinality(S \ {x}) = Cardinality(S) - 1
    BY <1>1, <1>2, <1>8, F!FS_RemoveElement, Zenon
  <2>2. Cardinality(S) = 0 => S = {}
    BY <1>1, <1>2, <1>8, F!FS_EmptySet, Zenon
  <2> QED
    BY <1>8, <2>1, <2>2
<1> QED
  BY <1>3, <1>4, <1>5, <1>6, <1>7, <1>8, Zenon DEF Counting

\* The cache's pending count is the number of entries still to be looked up, so
\* the resolver's defensive branch is never taken; and whatever the resolver
\* thread and the deadlines do, an entry and a hop get only the name of their
\* own address (ensure, worker_main, ps_ptr_cache_wait).
THEOREM NamesStayTrue == Spec => []NamesTrue
<1>1. PtrInv => NamesTrue
  BY DEF PtrInv, NamesTrue
<1> QED BY InitPtr, NextPtr, CountingHolds, <1>1, PTL DEF Spec

ScanInv ==
  /\ PoolInv /\ TriesInv /\ FoundInv /\ Reported /\ StopInv /\ CoverInv
  /\ RateInv /\ limiter.tokens \in 0 .. Capacity
  /\ PtrInv /\ PtrBounds

\* Nothing is submitted, tried or reported at the start.
LEMMA InitScan == Init => ScanInv
<1> SUFFICES ASSUME Init PROVE ScanInv
  OBVIOUS
<1>1. /\ mpc = "start" /\ jobs = <<>> /\ found = <<>> /\ n_info = 0 /\ counts = 0
      /\ W = NoPool /\ tries = [t \in Threads |-> 0]
      /\ limiter = [tokens |-> 0, since |-> 0]
      /\ cache = [e |-> <<>>, shutdown |-> FALSE, pending |-> 0]
      /\ resolver = "none" /\ ptrCaller = "out"
  BY DEF Init, PoolInit, PtrInit
<1>2. Len(SWEEP_PORTS) \in Nat \ {0}
  BY PortsAssumption
<1>3. Len(jobs) = 0 /\ 1 .. 0 = {} /\ DOMAIN jobs = {} /\ <<>> \in [1 .. 0 -> Seq(Nat)]
  BY <1>1
<1>4. TriesInv
  <2>1. tries \in [Threads -> 0 .. Len(SWEEP_PORTS) - 1]
    BY <1>1, <1>2
  <2>2. \A t \in Threads : tries[t] = 0
    BY <1>1
  <2>3. \A t \in Threads : \A j \in 1 .. tries[t] : FALSE
    BY <2>2
  <2> QED
    BY <2>1, <2>2, <2>3, Zenon DEF TriesInv
<1>5. FoundInv
  <2>1. Hits = {}
    BY <1>3 DEF Hits
  <2>2. Cardinality(Hits) = 0
    BY <2>1, CountingHolds, Zenon DEF Counting
  <2> QED
    BY <1>1, <1>3, <2>2 DEF FoundInv
<1>6. Reported
  BY <1>3, Zenon DEF Reported
<1>7. StopInv
  BY <1>1, Zenon DEF StopInv, NoPool
<1>8. CoverInv
  BY <1>1, Zenon DEF CoverInv
<1>9. limiter.tokens \in 0 .. Capacity
  BY <1>1, CapacityNat
<1>10. PtrBounds
  BY <1>1, PtrAssumption DEF PtrBounds
<1> QED
  BY <1>4, <1>5, <1>6, <1>7, <1>8, <1>9, <1>10, InitPool, InitRate,
     InitPtr, CountingHolds, Zenon DEF ScanInv

\* Every step keeps the invariant of the scans.
LEMMA NextScan == ScanInv /\ [Next]_vars => ScanInv'
<1> SUFFICES ASSUME ScanInv, [Next]_vars PROVE ScanInv'
  OBVIOUS
<1>1. /\ PoolInv /\ TriesInv /\ FoundInv /\ Reported /\ StopInv /\ CoverInv
      /\ RateInv /\ limiter.tokens \in 0 .. Capacity /\ PtrInv /\ PtrBounds
  BY Zenon DEF ScanInv
<1>0. PlansCovered /\ Counting
  BY PlansAreCovered, CountingHolds
<1>2. PoolStep /\ ItemStep /\ LoopStep
  BY <1>0, <1>1, NextPoolStep, NextItemStep, NextLoopStep, Zenon
<1>3. PoolInv'
  BY <1>0, <1>1, <1>2, StepPool, Zenon
<1>4. TriesInv' /\ FoundInv' /\ Reported'
  BY <1>0, <1>1, <1>2, StepTries, StepFound, StepReported, Zenon
<1>5. StopInv' /\ CoverInv'
  BY <1>0, <1>1, <1>2, StepStop, StepCover, Zenon
<1>6. RateInv' /\ PtrInv'
  BY <1>0, <1>1, NextRate, NextPtr, Zenon
<1>7. limiter'.tokens \in 0 .. Capacity' /\ PtrBounds'
  BY <1>1, NextTokens, NextPtrBounds DEF Capacity
<1> QED
  BY <1>3, <1>4, <1>5, <1>6, <1>7, Zenon DEF ScanInv

\* Whatever the threads, a signal and the network do, a scan runs and frees each
\* of its items once, reports an item only where something answers, with the
\* first open port of a host, tries the whole target and nothing else unless it
\* is cancelled, stops within the host it was at when it is, and counts what it
\* reported (ps_scan_ports_run, ps_scan_udp_run, ps_discover_hosts_run,
\* ps_workers_submit, ps_workers_finish, worker_main).
THEOREM ScansStayTrue == Spec => []ScansTrue
<1>1. ScanInv => ScansTrue
  <2> SUFFICES ASSUME ScanInv PROVE ScansTrue
    OBVIOUS
  <2>1. /\ PoolInv /\ FoundInv /\ Reported /\ StopInv /\ CoverInv
        /\ limiter.tokens \in 0 .. Capacity /\ PtrBounds
    BY Zenon DEF ScanInv
  <2>2. TypeOK
    <3>1. PoolType
      BY <2>1 DEF PoolInv
    <3> QED
      BY <2>1, <3>1, PoolFields, Zenon DEF PoolType, PtrBounds, TypeOK
  <2>3. EachItemOnce /\ CountsFinal
    BY <2>1, PoolOnce, CountingHolds, ScanEnded
  <2>4. Covered
    <3> SUFFICES ASSUME mpc = "done", jobs # <<>>, ~W.cancel, plan.prefix # 0
                 PROVE  next = Len(jobs) + 1 /\ Hosts(jobs) = Target
      BY Zenon DEF Covered, Hosts, Target
    <3> QED
      BY <2>1 DEF CoverInv
  <2>5. StopsAtHost
    BY <2>1, Zenon DEF StopInv, StopsAtHost, SameHost
  <2> QED
    BY <2>1, <2>2, <2>3, <2>4, <2>5, Zenon DEF ScansTrue
<1> QED
  BY InitScan, NextScan, <1>1, PTL DEF Spec

=============================================================================
