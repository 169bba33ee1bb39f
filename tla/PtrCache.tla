------------------------------ MODULE PtrCache ------------------------------
(***************************************************************************)
(* The reverse-name cache of "probe traceroute --ptr" (lib/ptr_cache.c):   *)
(* a table of addresses, one resolver thread, and callers that wait for a  *)
(* name until a deadline.  The thread and the callers share one condition  *)
(* variable and are woken by broadcast only; a woken thread looks at its   *)
(* condition again.  ptrCaller is the caller's place in                    *)
(* ps_ptr_cache_wait: "out", "cond" (in pthread_cond_timedwait) or         *)
(* "woken".                                                                *)
(***************************************************************************)
EXTENDS Integers, Sequences, FiniteSets

CONSTANTS
  Addrs,     \* addresses of hops
  PTR_MAX,   \* entries of the table
  NameOf,    \* the name each address resolves to, NoName if it has none
  NoName     \* "": no name, or no address

ASSUME PtrAssumption == PTR_MAX \in Nat /\ NoName \notin Addrs

VARIABLES
  cache,      \* struct ps_ptr_cache: e, shutdown and pending
  resolver,   \* worker_main: "none", "loop", "wait", "resolve", "exit"
  idx,        \* the entry worker_main resolves
  ptrCaller,  \* where the caller is
  asked,      \* the entry the caller waits for
  names       \* the name of each hop printed so far

ptrVars == <<cache, resolver, idx, ptrCaller, asked, names>>

PtrInit ==
  /\ cache = [e |-> <<>>, shutdown |-> FALSE, pending |-> 0]
  /\ resolver = "none"
  /\ idx = 0
  /\ ptrCaller = "out"
  /\ asked = 0
  /\ names = <<>>

\* ps_ptr_cache_new starts the thread.
ps_ptr_cache_new ==
  /\ resolver' = "loop"
  /\ UNCHANGED <<cache, idx, ptrCaller, asked, names>>

\* find: the entry of ip, or 0.
find(ip) ==
  IF \E i \in DOMAIN cache.e : cache.e[i].ip = ip
    THEN CHOOSE i \in DOMAIN cache.e : cache.e[i].ip = ip
    ELSE 0

Pending == {i \in DOMAIN cache.e : cache.e[i].state = 1}

\* A broadcast left out: a mutant.
Silent(r) == r

\* What pthread_cond_broadcast does to the resolver thread.
Broadcast(r) == IF r = "wait" THEN "loop" ELSE r

\* ensure, when the address has no entry: a new one is queued and the thread
\* woken.
Scheduled(ip) ==
  [cache EXCEPT !.e = Append(@, [ip |-> ip, name |-> NoName, state |-> 1]),
                !.pending = @ + 1]

Answer(name) ==
  /\ names' = Append(names, name)
  /\ ptrCaller' = "out"
  /\ UNCHANGED asked

\* An address queued again for every hop it answers on: a mutant.
AskWithoutFind(ip, waits) ==
  /\ ptrCaller = "out"
  /\ IF Len(cache.e) < PTR_MAX
       THEN /\ cache' = Scheduled(ip)
            /\ resolver' = Broadcast(resolver)
            /\ IF waits
                 THEN /\ asked' = Len(cache.e) + 1
                      /\ ptrCaller' = "cond"
                      /\ UNCHANGED names
                 ELSE Answer(NoName)
       ELSE Answer(NoName) /\ UNCHANGED <<cache, resolver>>
  /\ UNCHANGED idx

\* ps_ptr_cache_wait up to its first wait, or ps_ptr_cache_lookup when the
\* timeout is not positive (waits is FALSE).
ps_ptr_cache_wait(ip, waits) ==
  LET i == find(ip)
  IN /\ ptrCaller = "out"
     /\ \/ /\ i # 0
           /\ cache.e[i].state = 2
           /\ Answer(cache.e[i].name)
           /\ UNCHANGED <<cache, resolver>>
        \/ /\ i # 0
           /\ cache.e[i].state # 2
           /\ IF waits THEN /\ asked' = i
                            /\ ptrCaller' = "cond"
                            /\ UNCHANGED names
                       ELSE Answer(NoName)
           /\ UNCHANGED <<cache, resolver>>
        \/ /\ i = 0
           /\ Len(cache.e) < PTR_MAX
           /\ cache' = Scheduled(ip)
           /\ resolver' = Broadcast(resolver)
           /\ IF waits THEN /\ asked' = Len(cache.e) + 1
                            /\ ptrCaller' = "cond"
                            /\ UNCHANGED names
                       ELSE Answer(NoName)
        \/ /\ i = 0
           /\ Len(cache.e) >= PTR_MAX
           /\ Answer(NoName)
           /\ UNCHANGED <<cache, resolver>>
     /\ UNCHANGED idx

\* The first entry's name for whoever is woken: a mutant.
RecheckFirst ==
  /\ ptrCaller = "woken"
  /\ IF cache.e[1].state = 2
       THEN Answer(cache.e[1].name)
       ELSE ptrCaller' = "cond" /\ UNCHANGED <<asked, names>>
  /\ UNCHANGED <<cache, resolver, idx>>

\* The caller, woken, looks at its entry again.
Recheck ==
  /\ ptrCaller = "woken"
  /\ IF cache.e[asked].state = 2
       THEN Answer(cache.e[asked].name)
       ELSE ptrCaller' = "cond" /\ UNCHANGED <<asked, names>>
  /\ UNCHANGED <<cache, resolver, idx>>

\* The deadline passes with the entry still unresolved.
TimedOut ==
  /\ ptrCaller = "cond"
  /\ cache.e[asked].state # 2
  /\ Answer(NoName)
  /\ UNCHANGED <<cache, resolver, idx>>

\* pthread_cond_timedwait or pthread_cond_wait returning for no reason.
SpuriousPtr ==
  \/ /\ ptrCaller = "cond"
     /\ ptrCaller' = "woken"
     /\ UNCHANGED <<cache, resolver, idx, asked, names>>
  \/ /\ resolver = "wait"
     /\ resolver' = "loop"
     /\ UNCHANGED <<cache, idx, ptrCaller, asked, names>>
-----------------------------------------------------------------------------
(* worker_main *)

\* Exits, sleeps, or picks the first unresolved entry and lets go of the lock.
\* The defensive branch for a pending count without such an entry has no
\* disjunct: PendingCounts shows that it is never taken.
PickEntry ==
  /\ resolver = "loop"
  /\ \/ /\ cache.shutdown
        /\ resolver' = "exit"
        /\ UNCHANGED <<cache, idx>>
     \/ /\ ~cache.shutdown
        /\ cache.pending = 0
        /\ resolver' = "wait"
        /\ UNCHANGED <<cache, idx>>
     \/ /\ ~cache.shutdown
        /\ cache.pending > 0
        /\ \E i \in Pending : idx' = i /\ \A j \in Pending : i <= j
        /\ resolver' = "resolve"
        /\ UNCHANGED cache
  /\ UNCHANGED <<ptrCaller, asked, names>>

\* A pending count that is left alone: a mutant.
StoresUncounted ==
  /\ resolver = "resolve"
  /\ \E name \in {NameOf[cache.e[idx].ip], NoName} :
       cache' = [cache EXCEPT !.e[idx].name = name, !.e[idx].state = 2]
  /\ resolver' = "loop"
  /\ ptrCaller' = IF ptrCaller = "cond" THEN "woken" ELSE ptrCaller
  /\ UNCHANGED <<idx, asked, names>>

\* The resolver returns, with a name or without; the entry is resolved either
\* way and everyone is woken.
StoreName ==
  /\ resolver = "resolve"
  /\ \E name \in {NameOf[cache.e[idx].ip], NoName} :
       cache' = [cache EXCEPT !.e[idx] = [@ EXCEPT !.name = name, !.state = 2],
                              !.pending = IF @ > 0 THEN @ - 1 ELSE @]
  /\ resolver' = "loop"
  /\ ptrCaller' = IF ptrCaller = "cond" THEN "woken" ELSE ptrCaller
  /\ UNCHANGED <<idx, asked, names>>

\* ps_ptr_cache_free, up to its join.
ps_ptr_cache_free ==
  /\ cache' = [cache EXCEPT !.shutdown = TRUE]
  /\ resolver' = Broadcast(resolver)
  /\ UNCHANGED <<idx, ptrCaller, asked, names>>
-----------------------------------------------------------------------------
\* pending is the number of entries still unresolved: the thread never sleeps
\* on work and never looks for an entry that is not there ("pending>0 implies
\* a state==1 entry", worker_main's defensive branch is never taken).
PendingCounts == cache.pending = Cardinality(Pending)

\* No address has two entries (ensure finds the first), and the name in an
\* entry belongs to its address, though the entry is filled in after the lock
\* was let go and others have been added since.
NamesBelong ==
  /\ \A i, j \in DOMAIN cache.e : cache.e[i].ip = cache.e[j].ip => i = j
  /\ \A i \in DOMAIN cache.e :
       cache.e[i].name \in {NoName, NameOf[cache.e[i].ip]}

\* Every scheduled address is looked up, unless the cache is being freed: no
\* broadcast is lost between ensure and the resolver thread.
AllLookedUp == (cache.pending > 0) ~> (cache.pending = 0 \/ cache.shutdown)
=============================================================================
