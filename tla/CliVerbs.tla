------------------------------ MODULE CliVerbs ------------------------------
(***************************************************************************)
(* The verbs of the command line that run threads.                         *)
(*                                                                         *)
(* First, what they make of their arguments (cli/util/targets.c): a target *)
(* is an address with an optional prefix length, a port list is a sequence *)
(* of ranges <<first, last>>.  Addresses have Bits bits instead of 32.     *)
(***************************************************************************)
EXTENDS WorkPool, PtrCache

CONSTANTS
  Bits,      \* bits of an address
  MaxPort    \* the highest port

ASSUME TargetsAssumption == Bits \in Nat \ {0} /\ MaxPort \in Nat

\* 1u << i.
Shift[i \in 0 .. Bits] == IF i = 0 THEN 1 ELSE 2 * Shift[i - 1]

Malformed == -1   \* an address inet_pton refuses
NoPrefix == -1

\* The base address left unmasked: a mutant.
CidrUnmasked(addr, prefix) ==
  IF addr = Malformed \/ prefix > Bits THEN {}
  ELSE IF prefix = NoPrefix THEN {[base |-> addr, count |-> 1]}
  ELSE {[base |-> addr, count |-> n] :
          n \in IF prefix = 0 THEN {0, 1} ELSE {Shift[Bits - prefix]}}

\* The outcomes of ps_cidr_parse; none when it fails.  With a prefix of 0 the
\* count is a shift by the width of the type, which C leaves undefined: the
\* builds give 0 or 1.
ps_cidr_parse(addr, prefix) ==
  IF addr = Malformed \/ prefix > Bits THEN {}
  ELSE IF prefix = NoPrefix THEN {[base |-> addr, count |-> 1]}
  ELSE {[base |-> addr - (addr % Shift[Bits - prefix]), count |-> n] :
          n \in IF prefix = 0 THEN {0, 1} ELSE {Shift[Bits - prefix]}}

ps_cidr_addr(cidr, i) == cidr.base + i

\* port_add refuses a port outside 1 .. MaxPort.
port_add(v) == v > 0 /\ v <= MaxPort

\* ps_ports_parse: the ports in the order of the list, duplicates included, or
\* <<>> when it fails; read[i] is what it has after i ranges.
ps_ports_parse(spec) ==
  LET range(r) == [j \in 1 .. r[2] - r[1] + 1 |-> r[1] + j - 1]
      read[i \in 0 .. Len(spec)] ==
        IF i = 0 THEN <<>> ELSE read[i - 1] \o range(spec[i])
  IN IF \A i \in DOMAIN spec :
          spec[i][1] <= spec[i][2] /\ \A v \in spec[i][1] .. spec[i][2] : port_add(v)
       THEN read[Len(spec)]
       ELSE <<>>
-----------------------------------------------------------------------------
(***************************************************************************)
(* The CLI verbs that run threads: "scan ports", "scan udp" and "discover  *)
(* hosts" submit one item per endpoint or host to the worker pool, "probe  *)
(* traceroute --ptr" asks the name cache for every hop.  A process runs    *)
(* one verb; plan is its command line together with what the network       *)
(* answers.                                                                *)
(*                                                                         *)
(* The labels of the main thread: "start"; in a scan "next" (the loop over *)
(* the targets), "submit" and "full" (in ps_workers_submit), "finish",     *)
(* "join"; in a traceroute "hop" and "free", "ptrjoin"; then "done".       *)
(***************************************************************************)

CONSTANTS
  Plans,          \* the command lines, each with what the network answers
  DEFAULT_PORTS,  \* ports of a scan without -p
  SWEEP_PORTS,    \* ports "discover hosts" tries
  PROBES,         \* UDP ports with a payload of their protocol
  NoSpec          \* no -p

\* An address fits its bits, a port list is made of ranges, a service answers
\* anything or only its own protocol; a hop has an address or, for "*", none.
ASSUME PlansAssumption ==
  \A p \in Plans :
    /\ p.addr \in {Malformed} \cup (0 .. Shift[Bits] - 1)
    /\ p.prefix \in {NoPrefix} \cup Nat
    /\ p.spec # NoSpec => p.spec \in Seq(Nat \X Nat)
    /\ \A s \in p.services : s.wants \in {"byte", "own"}
    /\ p.route \in Seq(Addrs \cup {NoName})

\* Both tables of ports have entries.
ASSUME PortsAssumption ==
  DEFAULT_PORTS \in Seq(Nat) \ {<<>>} /\ SWEEP_PORTS \in Seq(Nat) \ {<<>>}

VARIABLES
  plan,     \* [verb, addr, prefix, spec, services, route, ptr]
  mpc,      \* where the main thread is
  jobs,     \* the items of the scan, in the order of submission
  pcnt,     \* items per host
  next,     \* the item to submit next
  freed,    \* how often each item was freed
  tries,    \* how many ports check_host has tried for a worker's item
  found,    \* the ports each item was reported with
  n_info,   \* findings counted by ps_output_emit
  counts,   \* g_last_run_counts
  late      \* history: the item submitted next when the scan was cancelled

scanVars == <<jobs, pcnt, next, freed, tries, found, n_info, counts, late>>
vars == <<plan, mpc, poolVars, ptrVars, scanVars>>

Init ==
  /\ plan \in Plans
  /\ mpc = "start"
  /\ PoolInit
  /\ PtrInit
  /\ jobs = <<>>
  /\ pcnt = 1
  /\ next = 1
  /\ freed = <<>>
  /\ tries = [t \in Threads |-> 0]
  /\ found = <<>>
  /\ n_info = 0
  /\ counts = 0
  /\ late = 0
-----------------------------------------------------------------------------
(* Setting up *)

Scanning == plan.verb \in {"ports", "udp", "hosts"}

\* What -p asks for; <<>> if it is malformed.
PortList == IF plan.spec = NoSpec THEN DEFAULT_PORTS ELSE ps_ports_parse(plan.spec)

Jobs(cidr, ports) ==
  [k \in 1 .. cidr.count * Len(ports) |->
     [host |-> ps_cidr_addr(cidr, (k - 1) \div Len(ports)),
      port |-> ports[((k - 1) % Len(ports)) + 1]]]

\* What the scans do before their loops: the limiter, the pool and the signal
\* handler are set up for one item per host and port.
Begin(ports) ==
  /\ mpc = "start"
  /\ ports # <<>>
  /\ \E cidr \in ps_cidr_parse(plan.addr, plan.prefix) :
       /\ jobs' = Jobs(cidr, ports)
       /\ freed' = [k \in DOMAIN Jobs(cidr, ports) |-> 0]
       /\ found' = [k \in DOMAIN Jobs(cidr, ports) |-> <<>>]
  /\ pcnt' = Len(ports)
  /\ ps_workers_init
  /\ mpc' = "next"
  /\ UNCHANGED <<plan, next, tries, n_info, counts, late, ptrVars>>

ps_scan_ports_run == plan.verb = "ports" /\ Begin(PortList)

ps_scan_udp_run == plan.verb = "udp" /\ Begin(PortList)

\* One item per host; check_host tries the ports.
ps_discover_hosts_run == plan.verb = "hosts" /\ Begin(<<0>>)

\* A bad target or a bad port list: the verb returns 2.
RefuseScan ==
  /\ mpc = "start"
  /\ Scanning
  /\ \/ ps_cidr_parse(plan.addr, plan.prefix) = {}
     \/ plan.verb # "hosts" /\ PortList = <<>>
  /\ mpc' = "done"
  /\ UNCHANGED <<plan, poolVars, ptrVars, scanVars>>
-----------------------------------------------------------------------------
(* The main thread of a scan *)

\* The loop that looks at cancel once only, before the first host: a mutant.
NextJobUnstopped ==
  /\ mpc = "next"
  /\ mpc' = IF next > Len(jobs) THEN "finish" ELSE "submit"
  /\ UNCHANGED <<plan, poolVars, ptrVars, scanVars>>

\* The loops over hosts and ports: cancel is looked at before each host.
NextJob ==
  /\ mpc = "next"
  /\ mpc' = IF next > Len(jobs) \/ ((next - 1) % pcnt = 0 /\ W.cancel)
              THEN "finish" ELSE "submit"
  /\ UNCHANGED <<plan, poolVars, ptrVars, scanVars>>

\* ps_workers_submit: waits on not_full, or puts the item into the ring.
Submit ==
  /\ mpc = "submit"
  /\ \/ /\ Full
        /\ mpc' = "full"
        /\ UNCHANGED <<next, poolVars>>
     \/ /\ ps_workers_submit(next)
        /\ next' = next + 1
        /\ mpc' = "next"
  /\ UNCHANGED <<plan, jobs, pcnt, freed, tries, found, n_info, counts, late,
                 ptrVars>>

\* pthread_cond_wait on not_full returning for no reason.
SpuriousMain ==
  /\ mpc = "full"
  /\ mpc' = "submit"
  /\ UNCHANGED <<plan, poolVars, ptrVars, scanVars>>

\* A finish that does not wait for the workers: a mutant.
FinishUnjoined ==
  /\ mpc = "finish"
  /\ Close
  /\ mpc' = "done"
  /\ counts' = n_info
  /\ UNCHANGED <<plan, jobs, pcnt, next, freed, tries, found, n_info, late,
                 ptrVars>>

\* ps_workers_finish up to its joins.
Finish ==
  /\ mpc = "finish"
  /\ Close
  /\ mpc' = "join"
  /\ UNCHANGED <<plan, scanVars, ptrVars>>

\* The workers are joined, the pool destroyed and the counts copied.
Return ==
  /\ mpc = "join"
  /\ Joined
  /\ mpc' = "done"
  /\ counts' = n_info
  /\ UNCHANGED <<plan, poolVars, jobs, pcnt, next, freed, tries, found, n_info,
                 late, ptrVars>>

\* A signal while the verb runs.
Interrupt ==
  /\ Scanning
  /\ mpc \notin {"start", "done"}
  /\ ps_workers_cancel
  /\ late' = next
  /\ UNCHANGED <<plan, mpc, jobs, pcnt, next, freed, tries, found, n_info,
                 counts, ptrVars>>
-----------------------------------------------------------------------------
(* The items *)

\* ps_tcp_open_check: connect() succeeds where a service listens.
ps_tcp_open_check(host, port) ==
  \E s \in plan.services : s.host = host /\ s.port = port

find_probe(port) == IF port \in PROBES THEN "own" ELSE "byte"

\* udp_probe = 1: something answers the payload sent.  A service that wants
\* its own protocol does not answer a single zero byte.
udp_probe(host, port) ==
  \E s \in plan.services :
    s.host = host /\ s.port = port /\ s.wants \in {"byte", find_probe(port)}

\* free(it), and back to worker_main's loop.
FreeItem(t) ==
  /\ freed' = [freed EXCEPT ![held[t]] = @ + 1]
  /\ pc' = [pc EXCEPT ![t] = "loop"]
  /\ tries' = [tries EXCEPT ![t] = 0]

\* scan_one, udp_scan_one and check_host look at cancel first.
RunItem(t) ==
  /\ pc[t] = "run"
  /\ IF W.cancel
       THEN FreeItem(t)
       ELSE pc' = [pc EXCEPT ![t] = "probe"] /\ UNCHANGED <<freed, tries>>
  /\ UNCHANGED <<plan, mpc, W, held, limiter, nap, level, jobs, pcnt, next,
                 found, n_info, counts, late, ptrVars>>

\* ps_output_emit: the finding is counted and written under the lock.
ps_output_emit(t, port) ==
  /\ found' = [found EXCEPT ![held[t]] = Append(@, port)]
  /\ n_info' = n_info + 1

itemVars == <<plan, mpc, W, held, limiter, nap, level, jobs, pcnt, next, counts,
              late, ptrVars>>

\* The rest of scan_one and udp_scan_one: one probe, one finding if it is
\* answered.  A signal may end the thread's system call early, which counts as
\* no answer.
ProbeOnce(t, answered) ==
  /\ pc[t] = "probe"
  /\ \/ answered /\ ps_output_emit(t, jobs[held[t]].port)
     \/ (~answered \/ W.cancel) /\ UNCHANGED <<found, n_info>>
  /\ FreeItem(t)
  /\ UNCHANGED itemVars

scan_one(t) ==
  /\ plan.verb = "ports"
  /\ ProbeOnce(t, ps_tcp_open_check(jobs[held[t]].host, jobs[held[t]].port))

udp_scan_one(t) ==
  /\ plan.verb = "udp"
  /\ ProbeOnce(t, udp_probe(jobs[held[t]].host, jobs[held[t]].port))

\* check_host going on after an open port: a mutant.
CheckEveryPort(t) ==
  LET port == SWEEP_PORTS[tries[t] + 1]
  IN /\ plan.verb = "hosts"
     /\ pc[t] = "probe"
     /\ IF ps_tcp_open_check(jobs[held[t]].host, port)
          THEN ps_output_emit(t, port) ELSE UNCHANGED <<found, n_info>>
     /\ IF tries[t] + 1 = Len(SWEEP_PORTS)
          THEN FreeItem(t)
          ELSE tries' = [tries EXCEPT ![t] = @ + 1] /\ UNCHANGED <<freed, pc>>
     /\ UNCHANGED itemVars

\* The rest of check_host, one port at a time: the first open one is reported.
check_host(t) ==
  LET port == SWEEP_PORTS[tries[t] + 1]
      open == ps_tcp_open_check(jobs[held[t]].host, port)
  IN /\ plan.verb = "hosts"
     /\ pc[t] = "probe"
     /\ \/ /\ open
           /\ ps_output_emit(t, port)
           /\ FreeItem(t)
        \/ /\ ~open \/ W.cancel
           /\ IF tries[t] + 1 = Len(SWEEP_PORTS)
                THEN FreeItem(t)
                ELSE tries' = [tries EXCEPT ![t] = @ + 1] /\ UNCHANGED <<freed, pc>>
           /\ UNCHANGED <<found, n_info>>
     /\ UNCHANGED itemVars

\* A worker that takes an item signals not_full.
TakeItem(t) ==
  /\ Take(t)
  /\ mpc' = IF mpc = "full" /\ W'.q_count < W.q_count THEN "submit" ELSE mpc
  /\ UNCHANGED <<plan, scanVars, ptrVars>>
-----------------------------------------------------------------------------
(* The main thread of a traceroute *)

\* ps_probe_traceroute_run up to the trace; plan.ptr is "off" without --ptr or
\* when the cache cannot be made, "ask" with a timeout that is not positive,
\* "wait" otherwise.
StartTrace ==
  /\ mpc = "start"
  /\ ~Scanning
  /\ mpc' = "hop"
  /\ IF plan.ptr = "off" THEN UNCHANGED ptrVars ELSE ps_ptr_cache_new
  /\ UNCHANGED <<plan, poolVars, scanVars>>

Hop == Len(names) + 1

\* tr_emit_cb: a hop without an address, or without a cache, has no name; the
\* others ask the cache.
tr_emit_cb ==
  /\ mpc = "hop"
  /\ ptrCaller = "out"
  /\ Hop <= Len(plan.route)
  /\ IF plan.ptr = "off" \/ plan.route[Hop] = NoName
       THEN /\ names' = Append(names, NoName)
            /\ UNCHANGED <<cache, resolver, idx, ptrCaller, asked>>
       ELSE ps_ptr_cache_wait(plan.route[Hop], plan.ptr = "wait")
  /\ UNCHANGED <<plan, mpc, poolVars, scanVars>>

\* ps_traceroute_run_cb is back: the cache, if any, is freed.
EndTrace ==
  /\ mpc = "hop"
  /\ ptrCaller = "out"
  /\ Hop > Len(plan.route)
  /\ IF plan.ptr = "off"
       THEN mpc' = "done" /\ UNCHANGED ptrVars
       ELSE mpc' = "ptrjoin" /\ ps_ptr_cache_free
  /\ UNCHANGED <<plan, poolVars, scanVars>>

\* pthread_join(c->worker) returns.
PtrJoin ==
  /\ mpc = "ptrjoin"
  /\ resolver = "exit"
  /\ mpc' = "done"
  /\ UNCHANGED <<plan, poolVars, ptrVars, scanVars>>
-----------------------------------------------------------------------------
Main ==
  \/ ps_scan_ports_run \/ ps_scan_udp_run \/ ps_discover_hosts_run
  \/ RefuseScan \/ NextJob \/ Submit \/ Finish \/ Return
  \/ StartTrace \/ tr_emit_cb \/ EndTrace \/ PtrJoin
  \/ Recheck /\ UNCHANGED <<plan, mpc, poolVars, scanVars>>

Worker(t) ==
  \/ TakeItem(t)
  \/ (Admit(t) \/ ps_limiter_acquire(t))
       /\ UNCHANGED <<plan, mpc, ptrVars, scanVars>>
  \/ RunItem(t) \/ scan_one(t) \/ udp_scan_one(t) \/ check_host(t)

Resolver ==
  /\ PickEntry \/ StoreName
  /\ UNCHANGED <<plan, mpc, poolVars, scanVars>>

\* Time matters only while a scan runs.
Tick ==
  /\ Scanning
  /\ mpc \notin {"start", "done"}
  /\ PoolTick
  /\ UNCHANGED <<plan, mpc, ptrVars, scanVars>>

Spurious ==
  \/ SpuriousMain
  \/ \E t \in Threads :
       SpuriousWorker(t) /\ UNCHANGED <<plan, mpc, ptrVars, scanVars>>
  \/ SpuriousPtr /\ UNCHANGED <<plan, mpc, poolVars, scanVars>>

Timeout == TimedOut /\ UNCHANGED <<plan, mpc, poolVars, scanVars>>

\* The process has exited.
Exited == mpc = "done" /\ UNCHANGED vars

Next ==
  \/ Main
  \/ \E t \in Threads : Worker(t)
  \/ Resolver
  \/ Interrupt
  \/ Tick
  \/ Spurious
  \/ Timeout
  \/ Exited

Spec == Init /\ [][Next]_vars

\* Every thread that can run does, a name lookup ends, and time passes.  No
\* signal, spurious wake-up or deadline is owed.
FairSpec ==
  /\ Spec
  /\ WF_vars(Main)
  /\ \A t \in Threads : WF_vars(Worker(t))
  /\ WF_vars(Resolver)
  /\ WF_vars(Tick)
-----------------------------------------------------------------------------
TypeOK ==
  /\ plan \in Plans
  /\ mpc \in {"start", "next", "submit", "full", "finish", "join", "hop",
              "ptrjoin", "done"}
  /\ W.q_count \in 0 .. QCap
  /\ W.q_head \in 0 .. QCap - 1
  /\ W.q_tail \in 0 .. QCap - 1
  /\ pc \in [Threads -> {"none", "loop", "wait", "admit", "limit", "run",
                         "probe", "exit"}]
  /\ held \in [Threads -> 0 .. Len(jobs)]
  /\ limiter.tokens \in 0 .. Capacity
  /\ resolver \in {"none", "loop", "wait", "resolve", "exit"}
  /\ ptrCaller \in {"out", "cond", "woken"}
  /\ Len(cache.e) <= PTR_MAX
  /\ next \in 1 .. Len(jobs) + 1

InHand(k) ==
  {t \in Threads : held[t] = k /\ pc[t] \in {"admit", "limit", "run", "probe"}}

InRing(k) ==
  {i \in 0 .. W.q_count - 1 : W.queue[(W.q_head + i) % QCap] = k}

\* The ring, the workers and the freed items together hold every submitted
\* item exactly once, however the indices have wrapped: none is lost, none is
\* run or freed twice, also when the scan is cancelled or the pool closes with
\* items left (worker_main, ps_workers_submit).
EachItemOnce ==
  \A k \in DOMAIN jobs :
    Cardinality(InRing(k)) + Cardinality(InHand(k)) + freed[k]
      = IF k < next THEN 1 ELSE 0

\* Once the verb has returned no worker runs, every submitted item has been
\* freed, and the counts handed to the exit code are those of the findings
\* printed: nothing is emitted after they were copied.
CountsFinal ==
  (mpc = "done" /\ jobs # <<>>) =>
    /\ Joined
    /\ \A k \in 1 .. next - 1 : freed[k] = 1
    /\ counts = n_info
    /\ n_info = Cardinality({k \in DOMAIN jobs : found[k] # <<>>})

\* The ports of a host that answer what the verb sends.
Answering(h) ==
  LET services == {s \in plan.services : s.host = h}
      own == {s \in services : s.wants = "own" /\ s.port \notin PROBES}
  IN {s.port : s \in IF plan.verb = "udp" THEN services \ own ELSE services}

\* What an item is to be reported with: its port if that answers; for a host, the
\* first port of the sweep that does.
Expected(k) ==
  LET open == Answering(jobs[k].host)
      up == {j \in DOMAIN SWEEP_PORTS : SWEEP_PORTS[j] \in open}
      first == CHOOSE j \in up : \A i \in up : j <= i
  IN IF plan.verb = "hosts" THEN IF up = {} THEN <<>> ELSE <<SWEEP_PORTS[first]>>
     ELSE IF jobs[k].port \in open THEN <<jobs[k].port>> ELSE <<>>

\* An item is reported only where something answers and at most once; unless
\* the scan is cancelled it is reported if something answers.  A host is
\* reported with the first of its open ports.
Reported ==
  \A k \in DOMAIN jobs :
    /\ found[k] # <<>> => found[k] = Expected(k) \/ (W.cancel /\ plan.verb = "hosts")
    /\ freed[k] = 1 /\ ~W.cancel => found[k] = Expected(k)

\* A scan that was not cancelled has tried every address that agrees with the
\* target in its first bits, and no other (ps_cidr_parse, ps_cidr_addr, the
\* loops of the verbs); the whole address space, /0, is the exception.
Covered ==
  (mpc = "done" /\ jobs # <<>> /\ ~W.cancel /\ plan.prefix # 0) =>
    /\ next = Len(jobs) + 1
    /\ {jobs[k].host : k \in DOMAIN jobs} =
         {a \in 0 .. Shift[Bits] - 1 :
            IF plan.prefix = NoPrefix THEN a = plan.addr
            ELSE a \div Shift[Bits - plan.prefix] =
                   plan.addr \div Shift[Bits - plan.prefix]}

\* After a signal the main thread submits at most the rest of the ports of the
\* host it was at, even if it was blocked on a full ring.
StopsAtHost ==
  W.cancel => \A k \in late .. next - 1 :
                k = late \/ (k - 1) \div pcnt = (late - 1) \div pcnt

\* Once a hop has been given the name of its address, every later hop with
\* the same address is given it, deadline or not; and no hop gets the name of
\* another (ps_ptr_cache_wait).
HopNames ==
  \A h \in DOMAIN names :
    names[h] # NoName =>
      /\ names[h] = NameOf[plan.route[h]]
      /\ \A g \in h .. Len(names) :
           plan.route[g] = plan.route[h] => names[g] = names[h]

\* Every verb returns: workers asleep on an empty ring, a main thread asleep
\* on a full one, threads in the limiter and the resolver thread are all
\* woken, signal or not.
Returns == <>(mpc = "done")

\* A scan tries each address of its target once, reports each truly, stops
\* where it is told to, and counts what it reported (ps_scan_ports_run,
\* ps_scan_udp_run, ps_discover_hosts_run, worker_main).
ScansTrue ==
  /\ TypeOK
  /\ EachItemOnce /\ CountsFinal /\ Reported /\ Covered /\ StopsAtHost

\* The cache knows what is still to be looked up, and no name is stored for, or
\* given to, another address (ensure, worker_main, ps_ptr_cache_wait).
NamesTrue == PendingCounts /\ NamesBelong /\ HopNames

\* No thread waits for ever: every verb returns and every address that was
\* asked for is looked up (the condition variables of pool and cache).
VerbsEnd == Returns /\ AllLookedUp
=============================================================================
