----------------------------- MODULE MCHoneypot -----------------------------
(* Small instances of Honeypot. *)
EXTENDS Honeypot

MCPlans == {"sessions", "bursts", "config"}

Item(kind, key, val) == [kind |-> kind, key |-> key, val |-> val, rest |-> << >>]
Header(name) == Item("section", name, 0)
Trap(port, len, escapes) == Item("trap", port, [len |-> len, escapes |-> escapes])

MCFiles ==
  [p \in MCPlans |->
     CASE p = "sessions" ->
            <<Header("honeypot"), Item("entry", "enabled", TRUE), Item("entry", "timeout", 1),
              Item("entry", "max_payload", 3), Trap(22, 20, 2), Trap(80, 0, 0)>>
       [] p = "bursts" -> <<Header("honeypot"), Trap(22, 8, 0), Item("entry", "timeout", 2)>>
       [] p = "config" ->
            <<Header("agent"), Trap(99, 4, 0), Header("honeypot"), Item("entry", "max_payload", 99),
              Item("entry", "timeout", 1), Item("entry", "redis_key", 0), Trap(25, 4, 1),
              Trap(22, 4, 0), [Trap(22, 90, 0) EXCEPT !.rest = <<Item("other", "", 0)>>],
              Trap(0, 4, 0), Trap(81, 4, 0), Item("broken", "", 0), Trap(80, 4, 0)>>]

MCPeers ==
  [c \in {"c1", "c2", "c3"} |->
     CASE c = "c1" -> [src |-> "a", sport |-> 1001, port |-> 22]
       [] c = "c2" -> [src |-> "a", sport |-> 1002, port |-> 80]
       [] c = "c3" -> [src |-> "b", sport |-> 1001, port |-> 22]]
MCVisits ==
  [p \in MCPlans |-> CASE p = "sessions" -> {"c1", "c2", "c3"} [] p = "bursts" -> {"c1"}
                       [] p = "config" -> {"c1", "c2"}]
MCChunks == [p \in MCPlans |-> IF p = "bursts" THEN {} ELSE {2}]

Frame(src, sport, port, flags) ==
  [len |-> 74, ethertype |-> "ip4", ihl |-> 20, proto |-> "tcp", src |-> src, sport |-> sport,
   port |-> port, off |-> 28, flags |-> flags, options |-> <<2, 4, 1460, 0, 1, 3, 3, 7>>]
MCCaptured ==
  [p \in MCPlans |->
     IF p = "bursts"
     THEN {Frame("a", 1001, 22, {"syn"}), Frame("a", 7, 80, {}), Frame("b", 7, 22, {"fin"}),
           Frame("a", 7, 22, {"ack"}), [Frame("a", 7, 22, {"syn"}) EXCEPT !.len = 50]}
     ELSE {}]
=============================================================================
