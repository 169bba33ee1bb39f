--------------------------- MODULE PrivLinkProofs ---------------------------
(***************************************************************************)
(* Proofs about the privileged worker and the brain, for every size of the *)
(* socket buffer, the slot tables and the queue of data set aside, and for *)
(* every traffic and set of commands.                                      *)
(***************************************************************************)
EXTENDS PrivLink, SequenceTheorems, TLAPS

Responses == [op : Opcode, ok : BOOLEAN, h : Nat]
Packets == [op : DataOp, h : Nat, n : Nat, size : UNION {l.sizes : l \in Loads}]
Messages == Responses \cup Packets
Unit == Messages \X {1, 2}
Answer(u) == u[1].op \in Opcode

LinkTypes ==
  /\ load \in Loads
  /\ ends \subseteq {"brain", "worker"}
  /\ toWorker \in Commands \cup {NoCmd}
  /\ toBrain \in Seq(Unit)
  /\ Len(toBrain) <= SockCap

WorkerTypes ==
  /\ pcap \in [PcapSlot -> Ifaces \cup {NoIface}]
  /\ raw \in [RawSlot -> BOOLEAN]
  /\ pcapIn \subseteq ActivePcap
  /\ rawIn \subseteq ActiveRaw
  /\ wpc \in {"poll", "cmd", "pcap", "raw", "recv", "dead"}
  /\ wpc = "dead" <=> "worker" \notin ends
  /\ cmdIn \in BOOLEAN
  /\ cmdIn => toWorker # NoCmd
  /\ read \in Nat

BrainTypes ==
  /\ brain \in {"free", "wait", "stopped", "killed", "desync"}
  /\ brain \in {"free", "wait", "desync"} <=> "brain" \in ends
  /\ todo \in Seq(Commands)
  /\ half \in Seq(Unit)
  /\ Len(half) <= 1
  /\ \A i \in DOMAIN half : half[i][1] \in Packets
  /\ async \in Seq(Packets)
  /\ Len(async) <= AsyncCap
  /\ handles \in [PcapSlot -> Ifaces \cup {NoIface}]
  /\ sockets \subseteq RawSlot
  /\ got \in Nat

\* What the caller of the command makes of its outcome.
HandlesAfter(ok, h) ==
  CASE cmd.op = "OPEN_PCAP" /\ ok -> [handles EXCEPT ![h] = cmd.iface]
    [] cmd.op = "CLOSE_PCAP" -> [handles EXCEPT ![cmd.h] = NoIface]
    [] OTHER -> handles
SocketsAfter(ok, h) ==
  CASE cmd.op = "CREATE_RAW" /\ ok -> sockets \cup {h}
    [] cmd.op = "CLOSE_RAW" -> sockets \ {cmd.h}
    [] OTHER -> sockets

NoAnswer == \A i \in DOMAIN toBrain : ~Answer(toBrain[i])

\* The k-th unit in the socket is the one answer there.
OnlyAnswer(k) ==
  /\ Answer(toBrain[k])
  /\ \A i \in DOMAIN toBrain : i # k => ~Answer(toBrain[i])

\* The answer says what the worker has done for the command.
Tells(r) ==
  /\ cmd.op = "OPEN_PCAP" /\ r.ok => r.h \in PcapSlot
  /\ cmd.op = "CREATE_RAW" /\ r.ok => r.h \in RawSlot
  /\ "worker" \in ends => /\ toWorker = NoCmd
                          /\ pcap = HandlesAfter(r.ok, r.h)
                          /\ ActiveRaw = SocketsAfter(r.ok, r.h)

Agree == handles = pcap /\ sockets = ActiveRaw

\* A command is in the socket to the worker, or answered, or there is none.
CallInv ==
  /\ brain = "free" =>
       NoAnswer /\ ("worker" \in ends => toWorker = NoCmd /\ Agree)
  /\ brain = "wait" =>
       /\ cmd \in Commands
       /\ \/ NoAnswer /\ ("worker" \in ends => toWorker = cmd /\ Agree)
          \/ \E k \in DOMAIN toBrain : OnlyAnswer(k) /\ Tells(toBrain[k][1])

\* In a row of units a payload unit follows its header.
FramedIn(s) ==
  \A j \in DOMAIN s : s[j][2] = 2 =>
    /\ Len(Units(s[j][1])) = 2
    /\ j > 1
    /\ s[j - 1] = <<s[j][1], 1>>

Framed == brain \in {"free", "wait"} => FramedIn(InSocket)

\* A header is kept only for its payload.
HalfRead ==
  \A i \in DOMAIN half : half[i][2] = 1 /\ Len(Units(half[i][1])) = 2

\* Packet g was given out last, those in a are set aside, those in s on their
\* way, and r is the last one the worker has read: each is newer than those
\* before it.
Ordered(g, a, s, r) ==
  /\ g <= r
  /\ \A i \in DOMAIN a : g < a[i].n /\ a[i].n <= r
  /\ \A i, j \in DOMAIN a : i < j => a[i].n < a[j].n
  /\ \A j \in DOMAIN s : Begins(s[j]) =>
       /\ g < s[j][1].n /\ s[j][1].n <= r
       /\ \A i \in DOMAIN a : a[i].n < s[j][1].n
       /\ \A i \in 1 .. j - 1 : Begins(s[i]) => s[i][1].n < s[j][1].n

LinkInv == LinkTypes /\ WorkerTypes /\ BrainTypes /\ CallInv
OrderInv == Ordered(got, async, InSocket, read) /\ Framed /\ HalfRead
-----------------------------------------------------------------------------
\* Of the free slots of a table the lowest is one: every nonempty set of
\* naturals has a least member, which is proved at the end.
SlotFound == \A S \in SUBSET Nat : S # {} => Lowest(S) \in S

\* A message is an answer or a packet.
LEMMA MessageKinds ==
  ASSUME NEW m \in Messages
  PROVE  \/ /\ m \in Responses /\ m \notin Packets /\ m.op \in Opcode /\ m.op \notin DataOp
            /\ m.ok \in BOOLEAN /\ m.h \in Nat
         \/ /\ m \in Packets /\ m \notin Responses /\ m.op \in DataOp /\ m.op \notin Opcode
            /\ m.n \in Nat /\ m.h \in Nat
<1>1. Opcode \cap DataOp = {}
  BY DEF Opcode, DataOp
<1>2. CASE m \in Responses
  <2>1. m.op \in Opcode /\ m.ok \in BOOLEAN /\ m.h \in Nat
    BY <1>2 DEF Responses
  <2>2. m \notin Packets
    BY <1>1, <2>1 DEF Packets
  <2> QED
    BY <1>1, <1>2, <2>1, <2>2
<1>3. CASE m \in Packets
  <2>1. m.op \in DataOp /\ m.n \in Nat /\ m.h \in Nat
    BY <1>3 DEF Packets
  <2>2. m \notin Responses
    BY <1>1, <2>1 DEF Responses
  <2> QED
    BY <1>1, <1>3, <2>1, <2>2
<1> QED
  BY <1>2, <1>3 DEF Messages

\* A message is one unit or two.
LEMMA UnitCount ==
  ASSUME NEW m \in Messages
  PROVE  /\ Units(m) \in Seq(Unit)
         /\ Len(Units(m)) \in {1, 2}
         /\ \A i \in 1 .. Len(Units(m)) : Units(m)[i] = <<m, i>>
         /\ m \in Responses => Len(Units(m)) = 1
<1>1. <<m, 1>> \in Unit /\ <<m, 2>> \in Unit
  BY DEF Unit
<1>2. CASE m.op \in DataOp /\ m.size # "small"
  <2>1. Units(m) = <<<<m, 1>>, <<m, 2>>>>
    BY <1>2 DEF Units
  <2>2. m \notin Responses
    BY <1>2, MessageKinds
  <2> QED
    BY <1>1, <2>1, <2>2
<1>3. CASE ~(m.op \in DataOp /\ m.size # "small")
  <2>1. Units(m) = <<<<m, 1>>>>
    BY <1>3 DEF Units
  <2> QED
    BY <1>1, <2>1
<1> QED
  BY <1>2, <1>3
-----------------------------------------------------------------------------
(* Rows of units and the packets in them. *)

\* Where the units of a row extended by another are.
LEMMA Extended ==
  ASSUME NEW s \in Seq(Unit), NEW w \in Seq(Unit)
  PROVE  /\ s \o w \in Seq(Unit)
         /\ Len(s) \in Nat /\ Len(w) \in Nat /\ Len(s \o w) = Len(s) + Len(w)
         /\ \A i \in 1 .. Len(s) : (s \o w)[i] = s[i]
         /\ \A i \in 1 .. Len(w) : (s \o w)[Len(s) + i] = w[i]
BY ConcatProperties

\* A row of at most one unit, if not empty, is that unit.
LEMMA Single ==
  ASSUME NEW h \in Seq(Unit), h # <<>>, Len(h) <= 1
  PROVE  1 \in DOMAIN h /\ h[1] \in Unit /\ h = <<h[1]>>
<1>1. Len(h) = 1
  <2>1. Len(h) \in Nat
    OBVIOUS
  <2>2. Len(h) # 0
    OBVIOUS
  <2> QED
    BY <2>1, <2>2
<1>2. <<h[1]>> \in Seq(Unit) /\ Len(<<h[1]>>) = 1
  BY <1>1
<1> QED
  BY <1>1, <1>2, SeqEqual

\* A row with its first unit set apart.
LEMMA Apart ==
  ASSUME NEW u \in Unit, NEW t \in Seq(Unit)
  PROVE  LET s == <<u>> \o t IN
         /\ s \in Seq(Unit) /\ s # <<>> /\ Len(s) = Len(t) + 1
         /\ s[1] = u /\ Tail(s) = t
         /\ \A i \in 1 .. Len(t) : s[i + 1] = t[i]
<1>1. PICK o \in Seq(Unit) : o = <<u>>
  <2>1. <<u>> \in Seq(Unit)
    OBVIOUS
  <2> QED
    BY <2>1, Zenon
<1>2. Len(o) = 1 /\ o[1] = u
  BY <1>1
<1>3. PICK s \in Seq(Unit) : s = o \o t
  BY ConcatProperties, Zenon
<1>4. /\ Len(s) = 1 + Len(t) /\ Len(t) \in Nat
      /\ \A i \in 1 .. 1 + Len(t) : s[i] = IF i <= 1 THEN o[i] ELSE t[i - 1]
  <2>1. /\ Len(o \o t) = Len(o) + Len(t)
        /\ \A i \in 1 .. Len(o) + Len(t) :
             (o \o t)[i] = IF i <= Len(o) THEN o[i] ELSE t[i - Len(o)]
    BY ConcatProperties, Zenon
  <2> QED
    BY <1>2, <1>3, <2>1
<1>5. s[1] = u /\ \A i \in 1 .. Len(t) : s[i + 1] = t[i]
  <2>1. 1 \in 1 .. 1 + Len(t) /\ 1 <= 1
    BY <1>4
  <2>2. s[1] = u
    BY <1>2, <1>4, <2>1
  <2>3. \A i \in 1 .. Len(t) : i + 1 \in 1 .. 1 + Len(t) /\ ~(i + 1 <= 1) /\ (i + 1) - 1 = i
    BY <1>4
  <2>4. \A i \in 1 .. Len(t) : s[i + 1] = t[i]
    BY <1>4, <2>3
  <2> QED
    BY <2>2, <2>4
<1>6. s # <<>> /\ Len(s) = Len(t) + 1
  BY <1>4
<1>7. Tail(s) = t
  <2>1. Tail(s) \in Seq(Unit) /\ Len(Tail(s)) = Len(t)
    BY <1>4, <1>6, HeadTailProperties
  <2>2. \A i \in 1 .. Len(t) : Tail(s)[i] = t[i]
    BY <1>5, <1>6, HeadTailProperties
  <2> QED
    BY <2>1, <2>2, SeqEqual
<1> QED
  BY <1>1, <1>3, <1>5, <1>6, <1>7

\* A unit that begins a packet carries the packet's number.
LEMMA Numbered ==
  ASSUME NEW u \in Unit, Begins(u)
  PROVE  u[1] \in Packets /\ u[1].n \in Nat
<1>1. u[1] \in Messages /\ u[1].op \in DataOp
  BY DEF Unit, Begins
<1> QED
  BY <1>1, MessageKinds

\* What is taken from the front of the socket leaves the rest in order.
LEMMA OrderedTail ==
  ASSUME NEW g, NEW a, NEW s \in Seq(Unit), NEW r, s # <<>>, Ordered(g, a, s, r)
  PROVE  Ordered(g, a, Tail(s), r)
<1>1. PICK t \in Seq(Unit) : t = Tail(s)
  BY HeadTailProperties, Zenon
<1>2. Len(t) = Len(s) - 1 /\ \A i \in 1 .. Len(t) : t[i] = s[i + 1]
  BY <1>1, HeadTailProperties
<1>3. ASSUME NEW j \in DOMAIN t, Begins(t[j])
      PROVE  /\ g < t[j][1].n /\ t[j][1].n <= r
             /\ \A i \in DOMAIN a : a[i].n < t[j][1].n
             /\ \A i \in 1 .. j - 1 : Begins(t[i]) => t[i][1].n < t[j][1].n
  <2>1. j \in 1 .. Len(t) /\ j + 1 \in DOMAIN s /\ t[j] = s[j + 1]
    BY <1>2
  <2>2. /\ g < s[j + 1][1].n /\ s[j + 1][1].n <= r
        /\ \A i \in DOMAIN a : a[i].n < s[j + 1][1].n
        /\ \A i \in 1 .. (j + 1) - 1 : Begins(s[i]) => s[i][1].n < s[j + 1][1].n
    BY <1>3, <2>1 DEF Ordered
  <2>3. ASSUME NEW i \in 1 .. j - 1, Begins(t[i])
        PROVE  t[i][1].n < t[j][1].n
    <3>1. Len(t) \in Nat /\ j \in 1 .. Len(t)
      BY <2>1
    <3>2. i \in 1 .. Len(t) /\ i + 1 \in 1 .. (j + 1) - 1
      BY <3>1
    <3>3. t[i] = s[i + 1] /\ i + 1 \in 1 .. (j + 1) - 1
      BY <1>2, <3>2
    <3>4. Begins(s[i + 1])
      BY <2>3, <3>3
    <3>5. s[i + 1][1].n < s[j + 1][1].n
      BY <2>2, <3>3, <3>4, Zenon
    <3> QED
      BY <2>1, <3>3, <3>5
  <2> QED
    BY <2>1, <2>2, <2>3
<1> QED
  BY <1>1, <1>3, Zenon DEF Ordered

\* The packet at the front of the socket joins the queue.
LEMMA OrderedQueue ==
  ASSUME NEW g \in Nat, NEW a \in Seq(Packets), NEW s \in Seq(Unit), NEW r \in Nat, s # <<>>,
         Ordered(g, a, s, r), Begins(s[1])
  PROVE  Ordered(g, Append(a, s[1][1]), Tail(s), r)
<1>1. PICK t \in Seq(Unit) : t = Tail(s)
  BY HeadTailProperties, Zenon
<1>2. Len(t) = Len(s) - 1 /\ (\A i \in 1 .. Len(t) : t[i] = s[i + 1]) /\ 1 \in DOMAIN s
  BY <1>1, HeadTailProperties, EmptySeq
<1>3. PICK m \in Packets : m = s[1][1]
  BY <1>2, Numbered
<1>4. PICK b \in Seq(Packets) : b = Append(a, m)
  BY AppendProperties, Zenon
<1>5. /\ Len(b) = Len(a) + 1 /\ b[Len(a) + 1] = m
      /\ \A i \in 1 .. Len(a) : b[i] = a[i]
  BY <1>4, AppendProperties
<1>6. /\ g < m.n /\ m.n <= r /\ \A i \in DOMAIN a : a[i].n < m.n
  BY <1>2, <1>3 DEF Ordered
<1>7. Ordered(g, a, t, r)
  BY <1>1, OrderedTail
<1>8. \A i \in DOMAIN b : (i \in DOMAIN a /\ b[i] = a[i]) \/ (i = Len(a) + 1 /\ b[i] = m)
  BY <1>5
<1>9. \A i \in DOMAIN b : g < b[i].n /\ b[i].n <= r
  BY <1>6, <1>7, <1>8, Zenon DEF Ordered
<1>10. ASSUME NEW i \in DOMAIN b, NEW j \in DOMAIN b, i < j
       PROVE  b[i].n < b[j].n
  <2>1. i \in DOMAIN a /\ b[i] = a[i]
    <3>1. i \in 1 .. Len(a) + 1 /\ j \in 1 .. Len(a) + 1 /\ Len(a) \in Nat
      BY <1>5
    <3>2. i # Len(a) + 1
      BY <1>10, <3>1
    <3> QED
      BY <1>8, <3>2
  <2>2. CASE j \in DOMAIN a /\ b[j] = a[j]
    <3>1. a[i].n < a[j].n
      BY <1>7, <1>10, <2>1, <2>2, Zenon DEF Ordered
    <3> QED
      BY <2>1, <2>2, <3>1
  <2>3. CASE b[j] = m
    BY <1>6, <2>1, <2>3
  <2> QED
    BY <1>8, <2>2, <2>3
<1>11. ASSUME NEW j \in DOMAIN t, Begins(t[j])
       PROVE  /\ g < t[j][1].n /\ t[j][1].n <= r
              /\ \A i \in DOMAIN b : b[i].n < t[j][1].n
              /\ \A i \in 1 .. j - 1 : Begins(t[i]) => t[i][1].n < t[j][1].n
  <2>1. m.n < t[j][1].n
    <3>1. j + 1 \in DOMAIN s /\ t[j] = s[j + 1] /\ 1 \in 1 .. (j + 1) - 1
      BY <1>2
    <3> QED
      BY <1>3, <1>11, <3>1 DEF Ordered
  <2> QED
    BY <1>7, <1>8, <1>11, <2>1 DEF Ordered
<1>12. Ordered(g, b, t, r)
  BY <1>7, <1>9, <1>10, <1>11, Zenon DEF Ordered
<1> QED
  BY <1>1, <1>3, <1>4, <1>12

\* The packet at the front of the socket is given out: nothing is queued.
LEMMA OrderedDeliver ==
  ASSUME NEW g \in Nat, NEW s \in Seq(Unit), NEW r \in Nat, s # <<>>,
         Ordered(g, <<>>, s, r), Begins(s[1])
  PROVE  Ordered(s[1][1].n, <<>>, Tail(s), r)
<1>1. PICK t \in Seq(Unit) : t = Tail(s)
  BY HeadTailProperties, Zenon
<1>2. Len(t) = Len(s) - 1 /\ (\A i \in 1 .. Len(t) : t[i] = s[i + 1]) /\ 1 \in DOMAIN s
  BY <1>1, HeadTailProperties, EmptySeq
<1>3. PICK m \in Packets : m = s[1][1]
  BY <1>2, Numbered
<1>4. m.n <= r
  BY <1>2, <1>3 DEF Ordered
<1>5. Ordered(g, <<>>, t, r)
  BY <1>1, OrderedTail
<1>6. ASSUME NEW j \in DOMAIN t, Begins(t[j])
      PROVE  /\ m.n < t[j][1].n /\ t[j][1].n <= r
             /\ \A i \in 1 .. j - 1 : Begins(t[i]) => t[i][1].n < t[j][1].n
  <2>1. j + 1 \in DOMAIN s /\ t[j] = s[j + 1] /\ 1 \in 1 .. (j + 1) - 1
    BY <1>2
  <2>2. m.n < t[j][1].n
    BY <1>3, <1>6, <2>1 DEF Ordered
  <2> QED
    BY <1>5, <1>6, <2>2, Zenon DEF Ordered
<1>7. Ordered(m.n, <<>>, t, r)
  <2>1. DOMAIN <<>> = {}
    OBVIOUS
  <2> QED
    BY <1>4, <1>6, <2>1, Zenon DEF Ordered
<1> QED
  BY <1>1, <1>3, <1>7

\* The oldest packet of the queue is given out.
LEMMA OrderedRecv ==
  ASSUME NEW g \in Nat, NEW a \in Seq(Packets), NEW s \in Seq(Unit), NEW r \in Nat, a # <<>>,
         Ordered(g, a, s, r)
  PROVE  Ordered(Head(a).n, Tail(a), s, r)
<1>1. PICK b \in Seq(Packets) : b = Tail(a)
  BY HeadTailProperties, Zenon
<1>2. /\ Len(b) = Len(a) - 1 /\ (\A i \in 1 .. Len(b) : b[i] = a[i + 1])
      /\ 1 \in DOMAIN a /\ Head(a) = a[1]
  BY <1>1, HeadTailProperties, EmptySeq
<1>3. \A i \in DOMAIN b : i + 1 \in DOMAIN a /\ 1 < i + 1 /\ b[i] = a[i + 1]
  BY <1>2
<1>4. a[1].n <= r
  BY <1>2 DEF Ordered
<1>5. ASSUME NEW i \in DOMAIN b
      PROVE  a[1].n < b[i].n /\ b[i].n <= r
  BY <1>2, <1>3, <1>5, Zenon DEF Ordered
<1>6. ASSUME NEW i \in DOMAIN b, NEW j \in DOMAIN b, i < j
      PROVE  b[i].n < b[j].n
  <2>1. i + 1 < j + 1
    BY <1>6
  <2>2. a[i + 1].n < a[j + 1].n
    BY <1>3, <2>1, Zenon DEF Ordered
  <2> QED
    BY <1>3, <2>2
<1>7. ASSUME NEW j \in DOMAIN s, Begins(s[j])
      PROVE  /\ a[1].n < s[j][1].n /\ s[j][1].n <= r
             /\ \A i \in DOMAIN b : b[i].n < s[j][1].n
             /\ \A i \in 1 .. j - 1 : Begins(s[i]) => s[i][1].n < s[j][1].n
  <2>1. /\ \A i \in DOMAIN a : a[i].n < s[j][1].n
        /\ s[j][1].n <= r
        /\ \A i \in 1 .. j - 1 : Begins(s[i]) => s[i][1].n < s[j][1].n
    BY <1>7, Zenon DEF Ordered
  <2> QED
    BY <1>2, <1>3, <2>1, Zenon
<1>8. Ordered(a[1].n, b, s, r)
  BY <1>4, <1>5, <1>6, <1>7, Zenon DEF Ordered
<1> QED
  BY <1>1, <1>2, <1>8

\* The worker writes an answer, or a beginning of the packet it has just read.
LEMMA OrderedWrite ==
  ASSUME NEW g \in Nat, NEW a \in Seq(Packets), NEW s \in Seq(Unit), NEW r \in Nat,
         Ordered(g, a, s, r),
         NEW m \in Messages, NEW w \in Seq(Unit), \A i \in 1 .. Len(w) : w[i] = <<m, i>>,
         NEW q \in Nat, r <= q, m.op \in DataOp => m.n = q /\ r < q
  PROVE  Ordered(g, a, s \o w, q)
<1>1. PICK v \in Seq(Unit) : v = s \o w
  BY Extended, Zenon
<1>2. /\ Len(v) = Len(s) + Len(w)
      /\ \A i \in 1 .. Len(s) : v[i] = s[i]
      /\ \A i \in 1 .. Len(w) : v[Len(s) + i] = w[i]
  BY <1>1, Extended
<1>3. \A i \in DOMAIN a : a[i].n \in Nat
  <2>1. \A i \in DOMAIN a : a[i] \in Packets
    OBVIOUS
  <2>2. \A p \in Packets : p.n \in Nat
    BY DEF Packets
  <2> QED
    BY <2>1, <2>2
<1>4. \A j \in DOMAIN v :
        \/ j \in DOMAIN s /\ v[j] = s[j]
        \/ j > Len(s) /\ v[j] = <<m, j - Len(s)>>
  <2>1. \A j \in DOMAIN v : j > Len(s) => j - Len(s) \in 1 .. Len(w) /\ j = Len(s) + (j - Len(s))
    BY <1>2
  <2>2. \A j \in DOMAIN v : j > Len(s) => v[j] = <<m, j - Len(s)>>
    BY <1>2, <2>1, Zenon
  <2>3. \A j \in DOMAIN v : ~(j > Len(s)) => j \in DOMAIN s /\ v[j] = s[j]
    <3>1. \A j \in DOMAIN v : ~(j > Len(s)) => j \in 1 .. Len(s)
      OBVIOUS
    <3> QED
      BY <1>2, <3>1
  <2> QED
    BY <2>2, <2>3
<1>5. /\ g <= q
      /\ \A i \in DOMAIN a : g < a[i].n /\ a[i].n <= q
  BY <1>3 DEF Ordered
<1>6. \A i \in DOMAIN s : Begins(s[i]) => s[i][1].n \in Nat /\ s[i][1].n <= r
  BY Numbered DEF Ordered
<1>7. ASSUME NEW j \in DOMAIN v, Begins(v[j])
      PROVE  /\ g < v[j][1].n /\ v[j][1].n <= q
             /\ \A i \in DOMAIN a : a[i].n < v[j][1].n
             /\ \A i \in 1 .. j - 1 : Begins(v[i]) => v[i][1].n < v[j][1].n
  <2>1. CASE j \in DOMAIN s /\ v[j] = s[j]
    <3>1. /\ g < s[j][1].n /\ s[j][1].n <= r
          /\ \A i \in DOMAIN a : a[i].n < s[j][1].n
          /\ \A i \in 1 .. j - 1 : Begins(s[i]) => s[i][1].n < s[j][1].n
      BY <1>7, <2>1 DEF Ordered
    <3>2. \A i \in 1 .. j - 1 : i \in 1 .. Len(s)
      BY <2>1
    <3>3. \A i \in 1 .. j - 1 : v[i] = s[i]
      BY <1>2, <3>2
    <3>4. s[j][1].n <= q
      BY <1>6, <1>7, <2>1, <3>1
    <3> QED
      BY <2>1, <3>1, <3>3, <3>4, Zenon
  <2>2. CASE j > Len(s) /\ v[j] = <<m, j - Len(s)>>
    <3>1. j - Len(s) = 1 /\ m.op \in DataOp
      BY <1>7, <2>2 DEF Begins
    <3>2. v[j][1] = m /\ m.n = q /\ r < q /\ j = Len(s) + 1
      BY <2>2, <3>1
    <3>3. \A i \in 1 .. j - 1 : i \in DOMAIN s /\ v[i] = s[i]
      BY <1>2, <3>2
    <3>4. \A i \in 1 .. j - 1 : Begins(v[i]) => v[i][1].n < q
      <4>1. ASSUME NEW i \in 1 .. j - 1, Begins(v[i])
            PROVE  v[i][1].n < q
        <5>1. i \in DOMAIN s /\ v[i] = s[i]
          BY <3>3
        <5>2. s[i][1].n \in Nat /\ s[i][1].n <= r
          BY <1>6, <4>1, <5>1, Zenon
        <5> QED
          BY <3>2, <5>1, <5>2
      <4> QED
        BY <4>1
    <3>5. g < q /\ \A i \in DOMAIN a : a[i].n < q
      BY <1>3, <3>2 DEF Ordered
    <3> QED
      BY <3>2, <3>4, <3>5
  <2> QED
    BY <1>4, <2>1, <2>2, Zenon
<1>8. Ordered(g, a, v, q)
  BY <1>5, <1>7, Zenon DEF Ordered
<1> QED
  BY <1>1, <1>8, Zenon

\* A message of one unit taken from the front leaves the rest framed.
LEMMA FramedOne ==
  ASSUME NEW s \in Seq(Unit), s # <<>>, FramedIn(s), Len(Units(s[1][1])) = 1
  PROVE  FramedIn(Tail(s)) /\ s[1][2] = 1
<1>1. PICK t \in Seq(Unit) : t = Tail(s)
  BY HeadTailProperties, Zenon
<1>2. Len(t) = Len(s) - 1 /\ (\A i \in 1 .. Len(t) : t[i] = s[i + 1]) /\ 1 \in DOMAIN s
  BY <1>1, HeadTailProperties, EmptySeq
<1>3. s[1][2] = 1
  <2>1. s[1][2] \in {1, 2}
    BY <1>2 DEF Unit
  <2>2. s[1][2] # 2
    BY <1>2 DEF FramedIn
  <2> QED
    BY <2>1, <2>2
<1>4. ASSUME NEW j \in DOMAIN t, t[j][2] = 2
      PROVE  Len(Units(t[j][1])) = 2 /\ j > 1 /\ t[j - 1] = <<t[j][1], 1>>
  <2>1. j + 1 \in DOMAIN s /\ t[j] = s[j + 1] /\ (j + 1) - 1 = j /\ j \in 1 .. Len(t)
    BY <1>2
  <2>2. Len(Units(s[j + 1][1])) = 2 /\ s[j] = <<s[j + 1][1], 1>>
    BY <1>4, <2>1 DEF FramedIn
  <2>3. j # 1
    <3>1. s[j][1] = s[j + 1][1]
      BY <2>2
    <3>2. Len(Units(s[j][1])) = 2
      BY <2>2, <3>1
    <3>3. 1 # 2
      OBVIOUS
    <3> QED
      BY <3>2, <3>3, Zenon
  <2>4. j > 1 /\ j - 1 \in 1 .. Len(t) /\ (j - 1) + 1 = j
    BY <2>1, <2>3
  <2>5. t[j - 1] = s[j]
    BY <1>2, <2>4
  <2> QED
    BY <2>1, <2>2, <2>4, <2>5
<1> QED
  BY <1>1, <1>3, <1>4 DEF FramedIn

\* A header and its payload taken from the front leave the rest framed.
LEMMA FramedTwo ==
  ASSUME NEW s \in Seq(Unit), Len(s) >= 2, FramedIn(s), s[2][2] = 2
  PROVE  FramedIn(Tail(Tail(s)))
<1>1. PICK t \in Seq(Unit) : t = Tail(Tail(s))
  <2>1. s # <<>> /\ Tail(s) \in Seq(Unit) /\ Len(Tail(s)) = Len(s) - 1
    BY HeadTailProperties
  <2>2. Tail(s) # <<>>
    <3>1. Len(Tail(s)) >= 1
      BY <2>1
    <3>2. Len(Tail(s)) # 0 /\ Len(<<>>) = 0
      BY <3>1
    <3> QED
      BY <3>2, Zenon
  <2> QED
    BY <2>1, <2>2, HeadTailProperties, Zenon
<1>2. Len(t) = Len(s) - 2 /\ (\A i \in 1 .. Len(t) : t[i] = s[i + 2]) /\ Len(s) \in Nat
  <2>1. /\ Tail(s) \in Seq(Unit) /\ Len(Tail(s)) = Len(s) - 1 /\ s # <<>>
        /\ \A i \in 1 .. Len(Tail(s)) : Tail(s)[i] = s[i + 1]
    BY HeadTailProperties
  <2>2. /\ Tail(s) # <<>> /\ Len(t) = Len(Tail(s)) - 1
        /\ \A i \in 1 .. Len(t) : t[i] = Tail(s)[i + 1]
    BY <1>1, <2>1, HeadTailProperties
  <2>3. \A i \in 1 .. Len(t) : i + 1 \in 1 .. Len(Tail(s)) /\ (i + 1) + 1 = i + 2
    BY <2>1, <2>2
  <2> QED
    BY <2>1, <2>2, <2>3
<1>3. ASSUME NEW j \in DOMAIN t, t[j][2] = 2
      PROVE  Len(Units(t[j][1])) = 2 /\ j > 1 /\ t[j - 1] = <<t[j][1], 1>>
  <2>1. j + 2 \in DOMAIN s /\ t[j] = s[j + 2] /\ (j + 2) - 1 = j + 1 /\ j \in 1 .. Len(t)
    BY <1>2
  <2>2. Len(Units(s[j + 2][1])) = 2 /\ s[j + 1] = <<s[j + 2][1], 1>>
    BY <1>3, <2>1 DEF FramedIn
  <2>3. j # 1
    BY <2>2
  <2>4. j > 1 /\ j - 1 \in 1 .. Len(t) /\ (j - 1) + 2 = j + 1
    BY <2>1, <2>3
  <2>5. t[j - 1] = s[j + 1]
    BY <1>2, <2>4
  <2> QED
    BY <2>1, <2>2, <2>4, <2>5
<1> QED
  BY <1>1, <1>3, Zenon DEF FramedIn

\* The units of a message, or the first of them, extend a framed row.
LEMMA FramedWrite ==
  ASSUME NEW s \in Seq(Unit), FramedIn(s), NEW m \in Messages, NEW w \in Seq(Unit),
         Len(w) <= Len(Units(m)), \A i \in 1 .. Len(w) : w[i] = <<m, i>>
  PROVE  FramedIn(s \o w)
<1>1. PICK v \in Seq(Unit) : v = s \o w
  BY Extended, Zenon
<1>2. /\ Len(v) = Len(s) + Len(w)
      /\ \A i \in 1 .. Len(s) : v[i] = s[i]
      /\ \A i \in 1 .. Len(w) : v[Len(s) + i] = w[i]
      /\ Len(s) \in Nat /\ Len(w) \in Nat
  BY <1>1, Extended
<1>3. Len(Units(m)) \in {1, 2}
  BY UnitCount
<1>4. ASSUME NEW j \in DOMAIN v, v[j][2] = 2
      PROVE  Len(Units(v[j][1])) = 2 /\ j > 1 /\ v[j - 1] = <<v[j][1], 1>>
  <2>1. j \in 1 .. Len(s) + Len(w)
    BY <1>2
  <2>2. CASE j <= Len(s)
    <3>1. j \in 1 .. Len(s) /\ v[j] = s[j]
      BY <1>2, <2>1, <2>2
    <3>2. Len(Units(s[j][1])) = 2 /\ j > 1 /\ s[j - 1] = <<s[j][1], 1>>
      BY <1>4, <3>1 DEF FramedIn
    <3>3. j - 1 \in 1 .. Len(s)
      BY <3>1, <3>2
    <3>4. v[j - 1] = s[j - 1]
      BY <1>2, <3>3
    <3> QED
      BY <3>1, <3>2, <3>4
  <2>3. CASE ~(j <= Len(s))
    <3>1. j - Len(s) \in 1 .. Len(w) /\ Len(s) + (j - Len(s)) = j
      BY <1>2, <2>1, <2>3
    <3>2. v[j] = <<m, j - Len(s)>>
      BY <1>2, <3>1, Zenon
    <3>3. j - Len(s) = 2
      BY <1>4, <3>2
    <3>4. Len(w) = 2 /\ Len(Units(m)) = 2 /\ j - 1 = Len(s) + 1 /\ j > 1 /\ 1 \in 1 .. Len(w)
      <4>1. PICK k \in {1, 2} : k = Len(Units(m))
        BY <1>3
      <4>2. Len(w) <= k
        BY <4>1, Zenon
      <4>3. Len(w) = 2 /\ k = 2 /\ j - 1 = Len(s) + 1 /\ j > 1
        <5>1. PICK l \in Nat : l = Len(w)
          BY <1>2
        <5>2. PICK n \in Nat : n = Len(s)
          BY <1>2
        <5>3. l <= k /\ j - n = 2 /\ j - n \in 1 .. l
          BY <3>1, <3>3, <4>2, <5>1, <5>2, Zenon
        <5>4. j \in Nat
          BY <2>1, <1>2
        <5>5. l = 2 /\ k = 2 /\ j - 1 = n + 1 /\ j > 1
          BY <5>3, <5>4
        <5> QED
          BY <5>1, <5>2, <5>5, Zenon
      <4>4. Len(Units(m)) = 2
        BY <4>1, <4>3, Zenon
      <4>5. 1 \in 1 .. Len(w)
        BY <4>3
      <4> QED
        BY <4>3, <4>4, <4>5, Zenon
    <3>5. v[j - 1] = <<m, 1>>
      BY <1>2, <3>4
    <3> QED
      BY <3>2, <3>4, <3>5
  <2> QED
    BY <2>2, <2>3
<1> QED
  BY <1>1, <1>4, Zenon DEF FramedIn
-----------------------------------------------------------------------------
(* Commands and their answers. *)

\* What a write of a packet leaves in the socket is a beginning of its units.
LEMMA WrittenUnits ==
  ASSUME LinkTypes, NEW m \in Messages
  PROVE  \E w \in Seq(Unit) :
           /\ Written(m) = toBrain \o w
           /\ Len(toBrain) + Len(w) <= SockCap
           /\ Len(w) <= Len(Units(m))
           /\ \A i \in 1 .. Len(w) : w[i] = <<m, i>>
<1> DEFINE u == Units(m)
<1>1. /\ u \in Seq(Unit) /\ Len(u) \in {1, 2}
      /\ \A i \in 1 .. Len(u) : u[i] = <<m, i>>
  BY UnitCount
<1>2. Room \in Nat /\ Len(toBrain) \in Nat /\ Len(toBrain) + Room = SockCap
  BY ChannelAssumption DEF LinkTypes, Room
<1>3. CASE Len(u) <= Room
  <2>1. Written(m) = toBrain \o u
    BY <1>3 DEF Written
  <2>2. Len(toBrain) + Len(u) <= SockCap
    BY <1>1, <1>2, <1>3
  <2> HIDE DEF u
  <2>3. Len(u) <= Len(u)
    BY <1>1
  <2> QED
    BY <2>1, <2>2, <2>3, <1>1 DEF u
<1>4. CASE ~(Len(u) <= Room)
  <2> DEFINE w == SubSeq(u, 1, Room)
  <2>1. Written(m) = toBrain \o w
    BY <1>4, Zenon DEF Written
  <2> HIDE DEF u
  <2>2. Room \in 0 .. Len(u) /\ Room <= Len(u)
    BY <1>1, <1>2, <1>4
  <2>3. /\ w \in Seq(Unit) /\ Len(w) = Room
        /\ \A i \in 1 .. Room : w[i] = u[i]
    <3>1. \A i \in 1 .. Room : u[i] \in Unit
      BY <1>1, <2>2
    <3> QED
      BY <1>1, <1>2, <2>2, <3>1
  <2> HIDE DEF w
  <2>4. \A i \in 1 .. Len(w) : w[i] = <<m, i>>
    BY <1>1, <2>2, <2>3
  <2>5. Len(toBrain) + Len(w) <= SockCap
    BY <1>2, <2>3, ChannelAssumption
  <2> QED
    BY <2>1, <2>2, <2>3, <2>4, <2>5, Zenon DEF u
<1> QED
  BY <1>3, <1>4, Zenon

\* The answer on its way, if there is one, is on its way after the step too.
SameAnswers ==
  /\ NoAnswer => NoAnswer'
  /\ \A k \in DOMAIN toBrain : OnlyAnswer(k) =>
       \E l \in DOMAIN toBrain' : OnlyAnswer(l)' /\ toBrain'[l] = toBrain[k]

\* A write of data adds no answer.
LEMMA DataWritten ==
  ASSUME LinkTypes, NEW w \in Seq(Unit), toBrain' = toBrain \o w,
         \A i \in 1 .. Len(w) : ~Answer(w[i])
  PROVE  SameAnswers
<1> DEFINE c == toBrain \o w
<1>1. /\ toBrain \in Seq(Unit) /\ Len(toBrain) \in Nat /\ Len(w) \in Nat
      /\ DOMAIN toBrain = 1 .. Len(toBrain)
      /\ DOMAIN c = 1 .. Len(toBrain) + Len(w)
      /\ \A i \in DOMAIN c :
           c[i] = IF i <= Len(toBrain) THEN toBrain[i] ELSE w[i - Len(toBrain)]
  BY ConcatProperties DEF LinkTypes
<1>2. toBrain' = c
  OBVIOUS
<1> HIDE DEF c
<1>3. ASSUME NEW i \in DOMAIN c
      PROVE  \/ i \in DOMAIN toBrain /\ c[i] = toBrain[i]
             \/ ~Answer(c[i])
  <2>1. CASE i <= Len(toBrain)
    BY <1>1, <2>1
  <2>2. CASE ~(i <= Len(toBrain))
    <3>1. i - Len(toBrain) \in 1 .. Len(w) /\ c[i] = w[i - Len(toBrain)]
      BY <1>1, <2>2
    <3> QED
      BY <3>1, Zenon
  <2> QED
    BY <2>1, <2>2
<1>4. \A i \in DOMAIN toBrain : i \in DOMAIN c /\ c[i] = toBrain[i]
  BY <1>1
<1>5. NoAnswer => NoAnswer'
  BY <1>2, <1>3, Zenon DEF NoAnswer
<1>6. ASSUME NEW k \in DOMAIN toBrain, OnlyAnswer(k)
      PROVE  k \in DOMAIN toBrain' /\ OnlyAnswer(k)' /\ toBrain'[k] = toBrain[k]
  <2>1. k \in DOMAIN c /\ c[k] = toBrain[k]
    BY <1>4
  <2>2. Answer(c[k])
    BY <2>1, <1>6, Zenon DEF OnlyAnswer
  <2>3. \A i \in DOMAIN c : i # k => ~Answer(c[i])
    BY <1>3, <1>6, Zenon DEF OnlyAnswer
  <2> QED
    BY <1>2, <2>1, <2>2, <2>3, Zenon DEF OnlyAnswer
<1> QED
  BY <1>5, <1>6, Zenon DEF SameAnswers

\* A read of data takes no answer.
LEMMA DataTaken ==
  ASSUME LinkTypes, toBrain # <<>>, toBrain' = Tail(toBrain), ~Answer(Head(toBrain))
  PROVE  SameAnswers
<1> DEFINE t == Tail(toBrain)
<1>1. /\ toBrain \in Seq(Unit) /\ Len(toBrain) \in Nat
      /\ DOMAIN toBrain = 1 .. Len(toBrain)
      /\ Head(toBrain) = toBrain[1]
      /\ DOMAIN t = 1 .. Len(toBrain) - 1
      /\ \A i \in DOMAIN t : t[i] = toBrain[i + 1]
  BY HeadTailProperties DEF LinkTypes
<1>2. toBrain' = t
  OBVIOUS
<1> HIDE DEF t
<1>3. \A i \in DOMAIN t : i + 1 \in DOMAIN toBrain /\ t[i] = toBrain[i + 1]
  BY <1>1
<1>4. NoAnswer => NoAnswer'
  BY <1>2, <1>3, Zenon DEF NoAnswer
<1>5. ASSUME NEW k \in DOMAIN toBrain, OnlyAnswer(k)
      PROVE  \E l \in DOMAIN toBrain' : OnlyAnswer(l)' /\ toBrain'[l] = toBrain[k]
  <2>1. k # 1
    BY <1>1, <1>5, Zenon DEF OnlyAnswer
  <2>2. k - 1 \in DOMAIN t /\ (k - 1) + 1 = k
    BY <2>1, <1>1
  <2>3. t[k - 1] = toBrain[k]
    BY <2>2, <1>3
  <2>4. ASSUME NEW i \in DOMAIN t, i # k - 1
        PROVE  ~Answer(t[i])
    <3>1. i + 1 \in DOMAIN toBrain /\ i + 1 # k /\ t[i] = toBrain[i + 1]
      BY <2>2, <2>4, <1>1, <1>3
    <3> QED
      BY <3>1, <1>5, Zenon DEF OnlyAnswer
  <2>5. OnlyAnswer(k - 1)'
    BY <2>3, <2>4, <1>2, <1>5, Zenon DEF OnlyAnswer
  <2> QED
    BY <2>2, <2>3, <2>5, <1>2, Zenon
<1> QED
  BY <1>4, <1>5, Zenon DEF SameAnswers

\* A step that leaves the tables, the command and its answer alone.
LEMMA CallFrame ==
  ASSUME CallInv, SameAnswers,
         UNCHANGED <<handles, sockets, cmd, toWorker, pcap, raw>>,
         brain' \in {brain, "stopped", "killed", "desync"},
         "worker" \in ends' => "worker" \in ends
  PROVE  CallInv'
<1>1. ActiveRaw' = ActiveRaw
  BY DEF ActiveRaw
<1>2. Agree => Agree'
  BY <1>1 DEF Agree
<1>3. ASSUME NEW r, Tells(r)
      PROVE  Tells(r)'
  <2>1. HandlesAfter(r.ok, r.h)' = HandlesAfter(r.ok, r.h)
    BY DEF HandlesAfter
  <2>2. SocketsAfter(r.ok, r.h)' = SocketsAfter(r.ok, r.h)
    BY DEF SocketsAfter
  <2> QED
    BY <1>1, <1>3, <2>1, <2>2, Zenon DEF Tells
<1>4. CASE brain' = "free" /\ brain = "free"
  BY <1>2, <1>4 DEF CallInv, SameAnswers
<1>5. CASE brain' = "wait" /\ brain = "wait"
  <2>1. CASE NoAnswer /\ ("worker" \in ends => toWorker = cmd /\ Agree)
    <3>1. NoAnswer' /\ ("worker" \in ends' => toWorker' = cmd' /\ Agree')
      BY <1>2, <2>1 DEF SameAnswers
    <3> QED
      BY <1>5, <3>1 DEF CallInv
  <2>2. CASE \E k \in DOMAIN toBrain : OnlyAnswer(k) /\ Tells(toBrain[k][1])
    <3>1. PICK k \in DOMAIN toBrain : OnlyAnswer(k) /\ Tells(toBrain[k][1])
      BY <2>2
    <3>2. PICK l \in DOMAIN toBrain' : OnlyAnswer(l)' /\ toBrain'[l] = toBrain[k]
      BY <3>1, Zenon DEF SameAnswers
    <3>3. PICK r : r = toBrain[k][1]
      OBVIOUS
    <3>4. Tells(r)' /\ toBrain'[l][1] = r
      BY <3>1, <3>2, <3>3, <1>3
    <3>5. Tells(toBrain[l][1])'
      BY <3>4, Zenon DEF Tells, HandlesAfter, SocketsAfter
    <3>6. \E j \in DOMAIN toBrain' : OnlyAnswer(j)' /\ Tells(toBrain[j][1])'
      BY <3>2, <3>5, Zenon
    <3> QED
      BY <1>5, <3>6 DEF CallInv
  <2> QED
    BY <1>5, <2>1, <2>2 DEF CallInv
<1> QED
  BY <1>4, <1>5 DEF CallInv
-----------------------------------------------------------------------------
(* The worker's steps. *)

\* One write of a captured packet leaves a beginning of its units.
LEMMA PacketWritten ==
  ASSUME LinkTypes, read \in Nat, cur \in Nat, NEW op \in DataOp, NEW size \in load.sizes,
         WriteData(Data(op, cur, read + 1, size))
  PROVE  LET m == Data(op, cur, read + 1, size) IN
         /\ m \in Packets
         /\ \E w \in Seq(Unit) :
              /\ toBrain' = toBrain \o w
              /\ Len(toBrain) + Len(w) <= SockCap
              /\ Len(w) <= Len(Units(m))
              /\ \A i \in 1 .. Len(w) : w[i] = <<m, i>>
<1> DEFINE m == Data(op, cur, read + 1, size)
<1>1. m \in Packets
  <2>1. size \in UNION {l.sizes : l \in Loads} /\ read + 1 \in Nat
    BY DEF LinkTypes
  <2> QED
    BY <2>1 DEF Data, Packets
<1>2. m \in Messages
  BY <1>1 DEF Messages
<1> HIDE DEF m
<1>3. CASE "brain" \in ends
  <2>1. toBrain' = Written(m)
    BY <1>3 DEF WriteData, m
  <2> QED
    BY <1>1, <1>2, <2>1, WrittenUnits, Zenon DEF m
<1>4. CASE "brain" \notin ends
  <2>1. toBrain' = toBrain
    BY <1>4 DEF WriteData
  <2>2. /\ <<>> \in Seq(Unit) /\ Len(<<>>) = 0 /\ toBrain \o <<>> = toBrain
        /\ Len(toBrain) + 0 <= SockCap
    BY DEF LinkTypes
  <2>3. 0 <= Len(Units(m))
    BY <1>2, UnitCount
  <2>4. \E w \in Seq(Unit) :
              /\ toBrain' = toBrain \o w
              /\ Len(toBrain) + Len(w) <= SockCap
              /\ Len(w) <= Len(Units(m))
              /\ \A i \in 1 .. Len(w) : w[i] = <<m, i>>
    <3> WITNESS <<>> \in Seq(Unit)
    <3> QED
      BY <2>1, <2>2, <2>3
  <2> QED
    BY <1>1, <2>4, Zenon DEF m
<1> QED
  BY <1>3, <1>4, Zenon

\* Units of one packet are data.
LEMMA UnitsOfPacket ==
  ASSUME LinkTypes, NEW m \in Packets, NEW w \in Seq(Unit),
         \A i \in 1 .. Len(w) : w[i] = <<m, i>>,
         toBrain' = toBrain \o w, Len(toBrain) + Len(w) <= SockCap,
         UNCHANGED <<load, ends, toWorker>>
  PROVE  LinkTypes' /\ SameAnswers
<1>1. m.op \notin Opcode
  <2>1. m \in Messages
    BY DEF Messages
  <2> QED
    BY <2>1, MessageKinds
<1>2. \A i \in 1 .. Len(w) : ~Answer(w[i])
  BY <1>1 DEF Answer
<1>3. SameAnswers
  BY <1>2, DataWritten, Zenon
<1>4. toBrain' \in Seq(Unit) /\ Len(toBrain') = Len(toBrain) + Len(w)
  BY ConcatProperties DEF LinkTypes
<1>5. LinkTypes'
  BY <1>4 DEF LinkTypes
<1> QED
  BY <1>3, <1>5

\* A step of the worker that serves no command keeps the invariant.
LEMMA WorkerMoves ==
  ASSUME LinkInv, LinkTypes', SameAnswers,
         UNCHANGED <<clientVars, pcap, raw, toWorker, ends>>,
         pcapIn' \subseteq ActivePcap, rawIn' \subseteq ActiveRaw,
         wpc # "dead", wpc' \in {"poll", "cmd", "pcap", "raw", "recv"},
         cmdIn' \in {cmdIn, FALSE, toWorker # NoCmd}, read' \in Nat
  PROVE  LinkInv'
<1> USE DEF LinkInv
<1>1. ActivePcap' = ActivePcap /\ ActiveRaw' = ActiveRaw
  BY DEF ActivePcap, ActiveRaw
<1>2. cmdIn' \in BOOLEAN /\ (cmdIn' => toWorker' # NoCmd)
  BY Zenon DEF WorkerTypes
<1>3. WorkerTypes'
  BY <1>1, <1>2 DEF WorkerTypes
<1>4. BrainTypes'
  BY DEF BrainTypes, clientVars
<1>5. CallInv'
  BY CallFrame DEF clientVars
<1> QED
  BY <1>3, <1>4, <1>5

\* Nothing written, nothing answered.
LEMMA Silent ==
  ASSUME LinkTypes, UNCHANGED toBrain
  PROVE  SameAnswers
BY DEF SameAnswers, NoAnswer, OnlyAnswer

\* The slots a command leaves active, and its answer.
LEMMA Handled ==
  ASSUME SlotFound, LinkTypes, WorkerTypes, BrainTypes, toWorker \in Commands,
         HandleCommand(toWorker)
  PROVE  \E ok \in BOOLEAN, h \in Nat :
           /\ SendResponse(toWorker.op, ok, h)
           /\ pcap' \in [PcapSlot -> Ifaces \cup {NoIface}]
           /\ raw' \in [RawSlot -> BOOLEAN]
           /\ pcapIn' \subseteq ActivePcap' /\ rawIn' \subseteq ActiveRaw'
           /\ Agree /\ cmd = toWorker =>
                /\ cmd.op = "OPEN_PCAP" /\ ok => h \in PcapSlot
                /\ cmd.op = "CREATE_RAW" /\ ok => h \in RawSlot
                /\ pcap' = HandlesAfter(ok, h)
                /\ ActiveRaw' = SocketsAfter(ok, h)
<1> DEFINE c == toWorker
           Good(ok, h) ==
             /\ SendResponse(c.op, ok, h)
             /\ pcap' \in [PcapSlot -> Ifaces \cup {NoIface}]
             /\ raw' \in [RawSlot -> BOOLEAN]
             /\ pcapIn' \subseteq ActivePcap' /\ rawIn' \subseteq ActiveRaw'
             /\ Agree /\ cmd = c =>
                  /\ cmd.op = "OPEN_PCAP" /\ ok => h \in PcapSlot
                  /\ cmd.op = "CREATE_RAW" /\ ok => h \in RawSlot
                  /\ pcap' = HandlesAfter(ok, h)
                  /\ ActiveRaw' = SocketsAfter(ok, h)
<1>0. /\ c.op \in Opcode /\ c.h \in Nat /\ c.iface \in Ifaces \cup {NoIface}
      /\ pcap \in [PcapSlot -> Ifaces \cup {NoIface}] /\ raw \in [RawSlot -> BOOLEAN]
      /\ pcapIn \subseteq ActivePcap /\ rawIn \subseteq ActiveRaw
  BY DEF Commands, WorkerTypes
<1>1. ASSUME UNCHANGED slotVars, NEW ok \in BOOLEAN, NEW h \in Nat,
             SendResponse(c.op, ok, h),
             \/ c.op \in {"OPEN_PCAP", "CREATE_RAW"} /\ ok = FALSE
             \/ c.op = "CLOSE_PCAP" /\ c.h \notin ActivePcap
             \/ c.op = "CLOSE_RAW" /\ c.h \notin ActiveRaw
             \/ c.op = "SEND_RAW"
      PROVE  Good(ok, h)
  <2>1. ActivePcap' = ActivePcap /\ ActiveRaw' = ActiveRaw /\ pcap' = pcap
    BY <1>1 DEF ActivePcap, ActiveRaw, slotVars
  <2>2. ASSUME Agree, cmd = c
        PROVE  pcap' = HandlesAfter(ok, h) /\ ActiveRaw' = SocketsAfter(ok, h)
    <3>1. c.op = "CLOSE_PCAP" => [handles EXCEPT ![c.h] = NoIface] = handles
      BY <1>0, <1>1, <2>2 DEF Agree, ActivePcap
    <3>2. c.op = "CLOSE_RAW" => sockets \ {c.h} = sockets
      BY <1>1, <2>2 DEF Agree
    <3>3. HandlesAfter(ok, h) = handles
      BY <1>1, <2>2, <3>1 DEF HandlesAfter
    <3>4. SocketsAfter(ok, h) = sockets
      BY <1>1, <2>2, <3>2 DEF SocketsAfter
    <3> QED
      BY <2>1, <2>2, <3>3, <3>4 DEF Agree
  <2> QED
    BY <1>0, <1>1, <2>1, <2>2 DEF slotVars
<1>2. CASE c.op = "OPEN_PCAP" /\ HandleOpenPcap(c)
  <2>1. CASE SendResponse("OPEN_PCAP", FALSE, 0) /\ UNCHANGED slotVars
    <3>1. Good(FALSE, 0)
      BY <1>1, <1>2, <2>1, Zenon
    <3> QED
      BY <3>1, Zenon
  <2>2. CASE /\ ActivePcap # PcapSlot
             /\ LET s == Lowest(PcapSlot \ ActivePcap) IN
                  /\ pcap' = [pcap EXCEPT ![s] = c.iface]
                  /\ SendResponse("OPEN_PCAP", TRUE, s)
             /\ UNCHANGED <<raw, pcapIn, rawIn>>
    <3> DEFINE s == Lowest(PcapSlot \ ActivePcap)
    <3>1. s \in PcapSlot \ ActivePcap
      <4>1. PcapSlot \ ActivePcap # {} /\ PcapSlot \ ActivePcap \subseteq Nat
        BY <2>2 DEF ActivePcap, PcapSlot
      <4> QED
        BY <4>1, Zenon DEF SlotFound
    <3>2. pcap' = [pcap EXCEPT ![s] = c.iface] /\ SendResponse(c.op, TRUE, s)
      BY <1>2, <2>2, Zenon
    <3> HIDE DEF s
    <3>3. s \in PcapSlot /\ s \in Nat
      BY <3>1 DEF PcapSlot
    <3>4. pcap' \in [PcapSlot -> Ifaces \cup {NoIface}]
      BY <1>0, <3>2, <3>3
    <3>5. pcapIn' \subseteq ActivePcap' /\ ActiveRaw' = ActiveRaw
      BY <1>0, <2>2, <3>1, <3>2 DEF ActivePcap, ActiveRaw
    <3>6. ASSUME Agree, cmd = c
          PROVE  pcap' = HandlesAfter(TRUE, s) /\ ActiveRaw' = SocketsAfter(TRUE, s)
      <4>1. HandlesAfter(TRUE, s) = [handles EXCEPT ![s] = c.iface]
        BY <1>2, <3>6 DEF HandlesAfter
      <4>2. SocketsAfter(TRUE, s) = sockets
        BY <1>2, <3>6 DEF SocketsAfter
      <4> QED
        BY <3>2, <3>5, <3>6, <4>1, <4>2, Zenon DEF Agree
    <3>7. Good(TRUE, s)
      BY <1>0, <1>2, <2>2, <3>2, <3>3, <3>4, <3>5, <3>6, Zenon
    <3> QED
      BY <3>3, <3>7, Zenon
  <2> QED
    BY <1>2, <2>1, <2>2, Zenon DEF HandleOpenPcap
<1>3. CASE c.op = "CLOSE_PCAP" /\ HandleClosePcap(c)
  <2>1. CASE c.h \notin ActivePcap
    <3>1. Good(FALSE, c.h)
      BY <1>0, <1>1, <1>3, <2>1, Zenon DEF HandleClosePcap
    <3> QED
      BY <1>0, <3>1, Zenon
  <2>2. CASE c.h \in ActivePcap
    <3>1. /\ pcap' = [pcap EXCEPT ![c.h] = NoIface]
          /\ pcapIn' = pcapIn \ {c.h}
          /\ SendResponse(c.op, TRUE, c.h)
          /\ UNCHANGED <<raw, rawIn>>
      BY <1>3, <2>2, Zenon DEF HandleClosePcap
    <3>2. pcap' \in [PcapSlot -> Ifaces \cup {NoIface}]
      BY <1>0, <3>1, Zenon
    <3>3. pcapIn' \subseteq ActivePcap' /\ ActiveRaw' = ActiveRaw
      BY <1>0, <3>1 DEF ActivePcap, ActiveRaw
    <3>4. ASSUME Agree, cmd = c
          PROVE  pcap' = HandlesAfter(TRUE, c.h) /\ ActiveRaw' = SocketsAfter(TRUE, c.h)
      <4>1. HandlesAfter(TRUE, c.h) = [handles EXCEPT ![c.h] = NoIface]
        BY <1>3, <3>4 DEF HandlesAfter
      <4>2. SocketsAfter(TRUE, c.h) = sockets
        BY <1>3, <3>4 DEF SocketsAfter
      <4> QED
        BY <3>1, <3>3, <3>4, <4>1, <4>2, Zenon DEF Agree
    <3>5. Good(TRUE, c.h)
      BY <1>0, <1>3, <3>1, <3>2, <3>3, <3>4, Zenon
    <3> QED
      BY <1>0, <3>5, Zenon
  <2> QED
    BY <2>1, <2>2
<1>4. CASE c.op = "CREATE_RAW" /\ HandleCreateRaw(c)
  <2>1. CASE SendResponse("CREATE_RAW", FALSE, 0) /\ UNCHANGED slotVars
    <3>1. Good(FALSE, 0)
      BY <1>1, <1>4, <2>1, Zenon
    <3> QED
      BY <3>1, Zenon
  <2>2. CASE /\ ActiveRaw # RawSlot
             /\ LET s == Lowest(RawSlot \ ActiveRaw) IN
                  /\ raw' = [raw EXCEPT ![s] = TRUE]
                  /\ SendResponse("CREATE_RAW", TRUE, s)
             /\ UNCHANGED <<pcap, pcapIn, rawIn>>
    <3> DEFINE s == Lowest(RawSlot \ ActiveRaw)
    <3>1. s \in RawSlot \ ActiveRaw
      <4>1. RawSlot \ ActiveRaw # {} /\ RawSlot \ ActiveRaw \subseteq Nat
        BY <2>2 DEF ActiveRaw, RawSlot
      <4> QED
        BY <4>1, Zenon DEF SlotFound
    <3>2. raw' = [raw EXCEPT ![s] = TRUE] /\ SendResponse(c.op, TRUE, s)
      BY <1>4, <2>2, Zenon
    <3> HIDE DEF s
    <3>3. s \in RawSlot /\ s \in Nat
      BY <3>1 DEF RawSlot
    <3>4. raw' \in [RawSlot -> BOOLEAN]
      BY <1>0, <3>2, <3>3
    <3>5. ActiveRaw' = ActiveRaw \cup {s} /\ ActivePcap' = ActivePcap
      <4>1. \A x \in RawSlot : raw'[x] <=> raw[x] \/ x = s
        BY <1>0, <3>2, <3>3
      <4>2. ActiveRaw' = ActiveRaw \cup {s}
        BY <3>3, <4>1, Zenon DEF ActiveRaw
      <4>3. ActivePcap' = ActivePcap
        BY <2>2, Zenon DEF ActivePcap
      <4> QED
        BY <4>2, <4>3
    <3>6. ASSUME Agree, cmd = c
          PROVE  pcap' = HandlesAfter(TRUE, s) /\ ActiveRaw' = SocketsAfter(TRUE, s)
      <4>1. HandlesAfter(TRUE, s) = handles
        BY <1>4, <3>6 DEF HandlesAfter
      <4>2. SocketsAfter(TRUE, s) = sockets \cup {s}
        BY <1>4, <3>6 DEF SocketsAfter
      <4> QED
        BY <2>2, <3>5, <3>6, <4>1, <4>2, Zenon DEF Agree
    <3>7. Good(TRUE, s)
      BY <1>0, <1>4, <2>2, <3>2, <3>3, <3>4, <3>5, <3>6, Zenon
    <3> QED
      BY <3>3, <3>7, Zenon
  <2> QED
    BY <1>4, <2>1, <2>2, Zenon DEF HandleCreateRaw
<1>5. CASE c.op = "CLOSE_RAW" /\ HandleCloseRaw(c)
  <2>1. CASE c.h \notin ActiveRaw
    <3>1. Good(FALSE, c.h)
      BY <1>0, <1>1, <1>5, <2>1, Zenon DEF HandleCloseRaw
    <3> QED
      BY <1>0, <3>1, Zenon
  <2>2. CASE c.h \in ActiveRaw
    <3>1. /\ raw' = [raw EXCEPT ![c.h] = FALSE]
          /\ rawIn' = rawIn \ {c.h}
          /\ SendResponse(c.op, TRUE, c.h)
          /\ UNCHANGED <<pcap, pcapIn>>
      BY <1>5, <2>2, Zenon DEF HandleCloseRaw
    <3>2. raw' \in [RawSlot -> BOOLEAN]
      BY <1>0, <3>1, Zenon
    <3>3. ActivePcap' = ActivePcap /\ ActiveRaw' = ActiveRaw \ {c.h}
      BY <1>0, <3>1 DEF ActivePcap, ActiveRaw
    <3>4. ASSUME Agree, cmd = c
          PROVE  pcap' = HandlesAfter(TRUE, c.h) /\ ActiveRaw' = SocketsAfter(TRUE, c.h)
      <4>1. HandlesAfter(TRUE, c.h) = handles
        BY <1>5, <3>4 DEF HandlesAfter
      <4>2. SocketsAfter(TRUE, c.h) = sockets \ {c.h}
        BY <1>5, <3>4 DEF SocketsAfter
      <4> QED
        BY <3>1, <3>3, <3>4, <4>1, <4>2, Zenon DEF Agree
    <3>5. Good(TRUE, c.h)
      BY <1>0, <1>5, <3>1, <3>2, <3>3, <3>4, Zenon
    <3> QED
      BY <1>0, <3>5, Zenon
  <2> QED
    BY <2>1, <2>2
<1>6. CASE c.op = "SEND_RAW" /\ HandleSendRaw(c)
  <2>1. PICK ok \in {FALSE, c.h \in ActiveRaw} : SendResponse("SEND_RAW", ok, c.h)
    BY <1>6, Zenon DEF HandleSendRaw
  <2>2. ok \in BOOLEAN
    <3>1. CASE c.h \in ActiveRaw
      <4>1. (c.h \in ActiveRaw) = TRUE
        BY <3>1
      <4> QED
        BY <4>1, Zenon
    <3>2. CASE c.h \notin ActiveRaw
      <4>1. (c.h \in ActiveRaw) = FALSE
        BY <3>2
      <4> QED
        BY <4>1, Zenon
    <3> QED
      BY <3>1, <3>2
  <2>3. Good(ok, c.h)
    BY <1>0, <1>1, <1>6, <2>1, <2>2 DEF HandleSendRaw
  <2> QED
    BY <1>0, <2>2, <2>3
<1> QED
  BY <1>2, <1>3, <1>4, <1>5, <1>6 DEF HandleCommand

\* A command that is served is answered, and the answer tells what was done.
LEMMA CommandServed ==
  ASSUME SlotFound, LinkInv, WorkerCommand, UNCHANGED <<clientVars, load>>
  PROVE  LinkInv'
<1> USE DEF LinkInv
<1>0. /\ wpc = "cmd" /\ wpc' = "pcap" /\ cmdIn' = FALSE
      /\ UNCHANGED <<brain, todo, cmd, half, async, handles, sockets, got, load, read, ends>>
      /\ "worker" \in ends
  BY DEF WorkerCommand, clientVars, WorkerTypes
<1>1. CASE ~cmdIn
  <2>1. UNCHANGED <<slotVars, toWorker, toBrain>>
    BY <1>1 DEF WorkerCommand
  <2>2. LinkTypes' /\ SameAnswers
    BY <1>0, <2>1, Silent DEF LinkTypes
  <2>3. /\ UNCHANGED <<pcap, raw, toWorker, ends>>
        /\ pcapIn' \subseteq ActivePcap /\ rawIn' \subseteq ActiveRaw /\ read' \in Nat
    BY <1>0, <2>1 DEF slotVars, WorkerTypes
  <2> QED
    BY <1>0, <2>2, <2>3, WorkerMoves, Zenon
<1>2. CASE cmdIn
  <2>1. HandleCommand(toWorker) /\ toWorker' = NoCmd /\ toWorker \in Commands
    BY <1>2 DEF WorkerCommand, WorkerTypes, LinkTypes
  <2>2. PICK ok \in BOOLEAN, h \in Nat :
           /\ SendResponse(toWorker.op, ok, h)
           /\ pcap' \in [PcapSlot -> Ifaces \cup {NoIface}]
           /\ raw' \in [RawSlot -> BOOLEAN]
           /\ pcapIn' \subseteq ActivePcap' /\ rawIn' \subseteq ActiveRaw'
           /\ Agree /\ cmd = toWorker =>
                /\ cmd.op = "OPEN_PCAP" /\ ok => h \in PcapSlot
                /\ cmd.op = "CREATE_RAW" /\ ok => h \in RawSlot
                /\ pcap' = HandlesAfter(ok, h)
                /\ ActiveRaw' = SocketsAfter(ok, h)
    BY <2>1, Handled
  <2> DEFINE op == toWorker.op
             r == Response(op, ok, h)
             u == <<r, 1>>
  <2>3. r \in Responses /\ u \in Unit /\ r.ok = ok /\ r.h = h /\ Answer(u) /\ u[1] = r
    BY <2>1 DEF Response, Responses, Unit, Messages, Answer, Commands
  <2>4. toBrain \in Seq(Unit) /\ Len(toBrain) \in Nat /\ Len(toBrain) <= SockCap
    BY DEF LinkTypes
  <2>5. "brain" \in ends => toBrain' = Append(toBrain, u) /\ Room > 0
    BY <2>2 DEF SendResponse
  <2>6. "brain" \notin ends => toBrain' = toBrain
    BY <2>2 DEF SendResponse
  <2> HIDE DEF u, r
  <2>n. PICK n \in Nat : n = Len(toBrain) + 1
    BY <2>4
  <2>7. ASSUME "brain" \in ends
        PROVE  /\ toBrain' \in Seq(Unit) /\ Len(toBrain') = n /\ n <= SockCap
               /\ DOMAIN toBrain' = 1 .. n /\ toBrain'[n] = u
               /\ \A i \in 1 .. Len(toBrain) : toBrain'[i] = toBrain[i]
    <3>1. toBrain' = Append(toBrain, u)
      BY <2>5, <2>7
    <3>2. /\ toBrain' \in Seq(Unit) /\ Len(toBrain') = Len(toBrain) + 1
          /\ toBrain'[Len(toBrain) + 1] = u
          /\ \A i \in 1 .. Len(toBrain) : toBrain'[i] = toBrain[i]
      BY <3>1, <2>3, <2>4, AppendProperties
    <3>3. DOMAIN toBrain' = 1 .. Len(toBrain')
      BY <3>2
    <3>4. n <= SockCap
      BY <2>4, <2>5, <2>7, <2>n, ChannelAssumption DEF Room
    <3> QED
      BY <3>2, <3>3, <3>4, <2>n
  <2>8. LinkTypes'
    <3>1. toBrain' \in Seq(Unit) /\ Len(toBrain') <= SockCap
      BY <2>4, <2>6, <2>7
    <3> QED
      BY <1>0, <2>1, <3>1 DEF LinkTypes
  <2>9. WorkerTypes'
    BY <1>0, <2>1, <2>2, Zenon DEF WorkerTypes
  <2>10. BrainTypes'
    BY <1>0 DEF BrainTypes
  <2>11. CallInv'
    <3>1. brain # "free"
      BY <1>0, <2>1, ChannelAssumption DEF CallInv
    <3> SUFFICES ASSUME brain = "wait"
                 PROVE  CallInv'
      BY <1>0, <3>1, Zenon DEF CallInv
    <3>2. "brain" \in ends
      BY DEF BrainTypes
    <3>3. NoAnswer /\ toWorker = cmd /\ Agree /\ cmd \in Commands
      BY <1>0, <2>1, ChannelAssumption, Zenon DEF CallInv, Tells
    <3>4. OnlyAnswer(n)' /\ n \in DOMAIN toBrain'
      <4>1. ASSUME NEW i \in 1 .. n, i # n
            PROVE  ~Answer(toBrain'[i])
        <5>1. i \in 1 .. Len(toBrain) /\ i \in DOMAIN toBrain
          BY <2>4, <2>n, <4>1
        <5>2. toBrain'[i] = toBrain[i]
          BY <5>1, <3>2, <2>7, Zenon
        <5> QED
          BY <5>1, <5>2, <3>3, Zenon DEF NoAnswer
      <4>2. n \in 1 .. n
        BY <2>4, <2>n
      <4> QED
        BY <4>1, <4>2, <3>2, <2>3, <2>7, Zenon DEF OnlyAnswer
    <3>5. toBrain'[n][1].ok = ok /\ toBrain'[n][1].h = h
      BY <3>2, <2>3, <2>7
    <3>6. /\ cmd.op = "OPEN_PCAP" /\ ok => h \in PcapSlot
          /\ cmd.op = "CREATE_RAW" /\ ok => h \in RawSlot
          /\ pcap' = HandlesAfter(ok, h)
          /\ ActiveRaw' = SocketsAfter(ok, h)
      BY <3>3, <2>2
    <3>7. HandlesAfter(ok, h)' = HandlesAfter(ok, h)
      BY <1>0 DEF HandlesAfter
    <3>8. SocketsAfter(ok, h)' = SocketsAfter(ok, h)
      BY <1>0 DEF SocketsAfter
    <3>9. Tells(toBrain[n][1])'
      <4>1. /\ HandlesAfter(toBrain[n][1].ok, toBrain[n][1].h)' = HandlesAfter(ok, h)'
            /\ SocketsAfter(toBrain[n][1].ok, toBrain[n][1].h)' = SocketsAfter(ok, h)'
        BY <3>5, Zenon DEF HandlesAfter, SocketsAfter
      <4> QED
        BY <1>0, <2>1, <3>5, <3>6, <3>7, <3>8, <4>1, Zenon DEF Tells
    <3>10. \E k \in DOMAIN toBrain' : OnlyAnswer(k)' /\ Tells(toBrain[k][1])'
      BY <3>4, <3>9, Zenon
    <3> QED
      BY <1>0, <3>3, <3>10 DEF CallInv
  <2> QED
    BY <2>8, <2>9, <2>10, <2>11
<1> QED
  BY <1>1, <1>2

\* A captured packet is written, or what the brain left room for.
LEMMA PacketRead ==
  ASSUME LinkInv, NEW op \in DataOp, NEW size \in load.sizes, cur \in Nat,
         WriteData(Data(op, cur, read + 1, size)), read' = read + 1,
         UNCHANGED <<clientVars, load, pcap, raw, toWorker, ends, cmdIn>>,
         pcapIn' \subseteq pcapIn, rawIn' \subseteq rawIn,
         wpc # "dead", wpc' \in {"poll", "cmd", "pcap", "raw", "recv"}
  PROVE  LinkInv'
<1> USE DEF LinkInv
<1> DEFINE m == Data(op, cur, read + 1, size)
<1>1. read \in Nat /\ read' \in Nat /\ pcapIn' \subseteq ActivePcap /\ rawIn' \subseteq ActiveRaw
  BY DEF WorkerTypes
<1>2. m \in Packets
  BY <1>1, PacketWritten, Zenon
<1>3. PICK w \in Seq(Unit) :
        /\ toBrain' = toBrain \o w
        /\ Len(toBrain) + Len(w) <= SockCap
        /\ \A i \in 1 .. Len(w) : w[i] = <<m, i>>
  BY <1>1, PacketWritten, Zenon
<1> HIDE DEF m
<1>4. LinkTypes' /\ SameAnswers
  BY <1>2, <1>3, UnitsOfPacket, Zenon
<1> QED
  BY <1>1, <1>4, WorkerMoves

\* Every step of the worker and of the network keeps the invariant.
LEMMA WorkerSteps ==
  ASSUME SlotFound, LinkInv, RunLoop \/ Arrive \/ WorkerDies, UNCHANGED <<clientVars, load>>
  PROVE  LinkInv'
<1> USE DEF LinkInv
<1>1. ASSUME UNCHANGED <<toBrain, toWorker, pcap, raw, ends, read>>,
             pcapIn' \subseteq ActivePcap, rawIn' \subseteq ActiveRaw,
             wpc # "dead", wpc' \in {"poll", "cmd", "pcap", "raw", "recv"},
             cmdIn' \in {cmdIn, FALSE, toWorker # NoCmd}
      PROVE  LinkInv'
  <2>1. LinkTypes' /\ SameAnswers
    BY <1>1, Silent DEF LinkTypes
  <2>2. read' \in Nat
    BY <1>1 DEF WorkerTypes
  <2> QED
    BY <1>1, <2>1, <2>2, WorkerMoves, Zenon
<1>2. ASSUME wpc' = "dead", ends' = ends \ {"worker"},
             UNCHANGED <<slotVars, cmdIn, read, toWorker, toBrain>>
      PROVE  LinkInv'
  <2>1. LinkTypes' /\ SameAnswers
    BY <1>2, Silent DEF LinkTypes
  <2>2. WorkerTypes'
    BY <1>2 DEF WorkerTypes, ActivePcap, ActiveRaw, slotVars
  <2>3. BrainTypes'
    BY <1>2 DEF BrainTypes, clientVars
  <2>4. CallInv'
    BY <1>2, <2>1, CallFrame DEF clientVars, slotVars
  <2> QED
    BY <2>1, <2>2, <2>3, <2>4
<1>3. pcapIn \subseteq ActivePcap /\ rawIn \subseteq ActiveRaw
  BY DEF WorkerTypes
<1>4. /\ cur \in ActivePcap => cur \in Nat
      /\ cur \in ActiveRaw => cur \in Nat
  BY DEF ActivePcap, ActiveRaw, PcapSlot, RawSlot
<1>5. CASE Arrive
  <2>1. UNCHANGED <<toBrain, toWorker, pcap, raw, ends, read, wpc, cmdIn>>
    BY <1>5 DEF Arrive, walkVars, channelVars
  <2>2. pcapIn' \subseteq ActivePcap /\ rawIn' \subseteq ActiveRaw
    BY <1>3, <1>5 DEF Arrive
  <2>3. wpc # "dead"
    BY <1>5 DEF Arrive
  <2> QED
    BY <1>1, <2>1, <2>2, <2>3 DEF WorkerTypes
<1>6. CASE WorkerDies
  BY <1>2, <1>6 DEF WorkerDies
<1>7. CASE WorkerPoll
  BY <1>1, <1>2, <1>3, <1>7, Zenon DEF WorkerPoll, slotVars
<1>8. CASE WorkerCommand
  BY <1>8, CommandServed
<1>9. CASE WalkPcap
  <2>1. /\ wpc # "dead" /\ wpc' \in {"pcap", "raw"}
        /\ UNCHANGED <<pcap, raw, rawIn, cmdIn, ends, toWorker>>
    BY <1>9, Zenon DEF WalkPcap
  <2>2. CASE UNCHANGED <<toBrain, pcapIn, read>>
    BY <1>1, <1>3, <2>1, <2>2
  <2>3. CASE /\ cur \in ActivePcap /\ pcapIn' = pcapIn \ {cur} /\ read' = read + 1
             /\ \E size \in load.sizes : WriteData(Data("PACKET_DATA", cur, read + 1, size))
    <3>1. "PACKET_DATA" \in DataOp
      BY DEF DataOp
    <3> QED
      BY <1>3, <1>4, <2>1, <2>3, <3>1, PacketRead
  <2> QED
    BY <1>9, <2>2, <2>3, Zenon DEF WalkPcap
<1>10. ASSUME RecvRaw, cur \in ActiveRaw, wpc # "dead",
              UNCHANGED <<pcap, raw, pcapIn, cmdIn, ends, toWorker>>
       PROVE  LinkInv'
  <2>1. "RAW_RESPONSE" \in DataOp
    BY DEF DataOp
  <2>2. wpc' \in {"raw", "poll"} /\ rawIn' \subseteq rawIn /\ read' = read + 1
    BY <1>10 DEF RecvRaw, NextRaw
  <2>3. PICK size \in load.sizes : WriteData(Data("RAW_RESPONSE", cur, read + 1, size))
    BY <1>10 DEF RecvRaw
  <2> QED
    BY <1>3, <1>4, <1>10, <2>1, <2>2, <2>3, PacketRead
<1>11. CASE WalkRaw
  <2>1. wpc # "dead" /\ UNCHANGED <<pcap, raw, pcapIn, cmdIn, ends, toWorker>>
    BY <1>11 DEF WalkRaw
  <2>2. CASE cur \in ActiveRaw /\ RecvRaw
    BY <1>10, <2>1, <2>2
  <2>3. CASE wpc' = "recv" /\ UNCHANGED <<rawIn, read, toBrain>>
    BY <1>1, <1>3, <2>1, <2>3
  <2>4. CASE NextRaw /\ UNCHANGED <<rawIn, read, toBrain>>
    <3>1. wpc' \in {"raw", "poll"}
      BY <2>4 DEF NextRaw
    <3> QED
      BY <1>1, <1>3, <2>1, <2>4, <3>1
  <2> QED
    BY <1>11, <2>2, <2>3, <2>4 DEF WalkRaw
<1>12. CASE RecvReturns
  BY <1>3, <1>10, <1>12 DEF RecvReturns
<1> QED
  BY <1>5, <1>6, <1>7, <1>8, <1>9, <1>11, <1>12 DEF RunLoop
-----------------------------------------------------------------------------
(* The brain's steps. *)

\* What leaves the worker alone keeps its types.
LEMMA WorkerSame ==
  ASSUME WorkerTypes, UNCHANGED workerVars, "worker" \in ends' <=> "worker" \in ends,
         toWorker # NoCmd => toWorker' # NoCmd
  PROVE  WorkerTypes'
<1>1. UNCHANGED <<pcap, raw, pcapIn, rawIn, wpc, cmdIn, read>>
  BY DEF workerVars, slotVars, walkVars
<1>2. ActivePcap' = ActivePcap /\ ActiveRaw' = ActiveRaw
  BY <1>1, Zenon DEF ActivePcap, ActiveRaw
<1> QED
  BY <1>1, <1>2, Zenon DEF WorkerTypes

\* A step of the brain that takes data from the socket keeps the invariant.
LEMMA BrainReads ==
  ASSUME LinkInv, brain \in {"free", "wait"}, toBrain # <<>>, toBrain' = Tail(toBrain),
         ~Answer(Head(toBrain)) \/ brain' \notin {"free", "wait"},
         brain' \in {brain, "stopped", "desync"},
         ends' = IF brain' = "stopped" THEN ends \ {"brain"} ELSE ends,
         half' \in Seq(Unit), Len(half') <= 1, \A i \in DOMAIN half' : half'[i][1] \in Packets,
         async' \in Seq(Packets), Len(async') <= AsyncCap, got' \in Nat,
         UNCHANGED <<handles, sockets, cmd, todo, toWorker, workerVars, load>>
  PROVE  LinkInv'
<1> USE DEF LinkInv
<1>0. /\ toBrain \in Seq(Unit) /\ Len(toBrain) <= SockCap
      /\ Tail(toBrain) \in Seq(Unit) /\ Len(Tail(toBrain)) <= SockCap
  <2>1. toBrain \in Seq(Unit) /\ Len(toBrain) <= SockCap
    BY DEF LinkTypes
  <2>2. Tail(toBrain) \in Seq(Unit) /\ Len(Tail(toBrain)) = Len(toBrain) - 1
    BY <2>1, HeadTailProperties
  <2> QED
    BY <2>1, <2>2, ChannelAssumption
<1>1. ends' \subseteq {"brain", "worker"} /\ ("worker" \in ends' <=> "worker" \in ends)
  BY DEF LinkTypes
<1>2. LinkTypes'
  BY <1>0, <1>1 DEF LinkTypes
<1>3. WorkerTypes'
  BY <1>1, WorkerSame
<1>4. "brain" \in ends' <=> brain' \in {"free", "wait", "desync"}
  BY DEF BrainTypes
<1>5. BrainTypes'
  BY <1>4 DEF BrainTypes
<1>6. CASE brain' \notin {"free", "wait"}
  <2>1. CallInv'
    BY <1>6, Zenon DEF CallInv
  <2> QED
    BY <2>1, <1>2, <1>3, <1>5
<1>7. CASE ~Answer(Head(toBrain))
  <2>1. SameAnswers
    BY <1>7, DataTaken, Zenon
  <2>2. CallInv'
    BY <2>1, <1>1, CallFrame, Zenon DEF workerVars, slotVars
  <2> QED
    BY <2>2, <1>2, <1>3, <1>5
<1> QED
  BY <1>6, <1>7

\* What the brain does with a packet.
LEMMA PacketTaken ==
  ASSUME LinkInv, brain \in {"free", "wait"}, NEW m \in Packets, Take(m)
  PROVE  /\ UNCHANGED <<handles, sockets, cmd>>
         /\ brain' \in {brain, "stopped"}
         /\ async' \in Seq(Packets) /\ Len(async') <= AsyncCap
         /\ got' \in Nat
<1> USE DEF LinkInv
<1>1. m.op \in DataOp /\ m.n \in Nat
  BY DEF Packets
<1>2. async \in Seq(Packets) /\ Len(async) <= AsyncCap /\ got \in Nat /\ AsyncCap \in Nat
  BY ClientAssumption DEF BrainTypes
<1>3. CASE brain = "wait"
  <2>1. /\ async' = IF Len(async) < AsyncCap THEN Append(async, m) ELSE async
        /\ UNCHANGED <<handles, sockets, cmd, brain, got>>
    BY <1>1, <1>3 DEF Take, ReadWhileWaiting, SetAside
  <2>2. CASE Len(async) < AsyncCap
    <3>1. Append(async, m) \in Seq(Packets) /\ Len(Append(async, m)) = Len(async) + 1
      BY <1>2, AppendProperties
    <3>2. Len(async) + 1 <= AsyncCap
      BY <1>2, <2>2
    <3> QED
      BY <1>2, <2>1, <2>2, <3>1, <3>2
  <2>3. CASE ~(Len(async) < AsyncCap)
    BY <1>2, <2>1, <2>3
  <2> QED
    BY <2>2, <2>3
<1>4. CASE brain = "free"
  <2>1. /\ brain' \in {brain, "stopped"} /\ got' \in {got, m.n}
        /\ UNCHANGED <<handles, sockets, cmd, async>>
    BY <1>1, <1>4 DEF Take, ReadInLoop, Dispatch
  <2> QED
    BY <1>1, <1>2, <2>1
<1> QED
  BY <1>3, <1>4

\* The answer to the command in hand brings the tables together again.
LEMMA AnswerTaken ==
  ASSUME LinkInv, brain = "wait", toBrain # <<>>, toBrain' = Tail(toBrain),
         Answer(Head(toBrain)), Take(Head(toBrain)[1]), UNCHANGED <<half, todo, toWorker>>,
         ends' = IF brain' = "stopped" THEN ends \ {"brain"} ELSE ends,
         UNCHANGED <<workerVars, load>>
  PROVE  LinkInv'
<1> USE DEF LinkInv
<1>1. PICK m : m = Head(toBrain)[1]
  OBVIOUS
<1>2. /\ toBrain \in Seq(Unit) /\ Len(toBrain) \in Nat /\ Len(toBrain) >= 1
      /\ Head(toBrain) = toBrain[1] /\ toBrain[1] \in Unit
      /\ DOMAIN toBrain = 1 .. Len(toBrain) /\ Len(toBrain) <= SockCap
      /\ Tail(toBrain) \in Seq(Unit) /\ Len(Tail(toBrain)) = Len(toBrain) - 1
      /\ \A i \in 1 .. Len(toBrain) - 1 : Tail(toBrain)[i] = toBrain[i + 1]
  BY HeadTailProperties, EmptySeq DEF LinkTypes
<1>3. /\ m \in Messages /\ m.op \in Opcode /\ m.op \notin DataOp
      /\ m.ok \in BOOLEAN /\ m.h \in Nat
  <2>1. m \in Messages /\ m.op \in Opcode
    BY <1>1, <1>2 DEF Unit, Answer
  <2> QED
    BY <2>1, MessageKinds
<1>4. 1 \in DOMAIN toBrain /\ Answer(toBrain[1])
  BY <1>2
<1>5. OnlyAnswer(1) /\ Tells(toBrain[1][1]) /\ cmd \in Commands
  <2>1. ~NoAnswer
    BY <1>4, Zenon DEF NoAnswer
  <2>2. PICK k \in DOMAIN toBrain : OnlyAnswer(k) /\ Tells(toBrain[k][1])
    BY <2>1 DEF CallInv
  <2>3. k = 1
    BY <2>2, <1>4, Zenon DEF OnlyAnswer
  <2> QED
    BY <2>2, <2>3 DEF CallInv
<1>6. Tells(m)
  BY <1>1, <1>2, <1>5
<1>7. ReadWhileWaiting(m)
  <2>1. ReadWhileWaiting(Head(toBrain)[1])
    BY DEF Take
  <2> QED
    BY <1>1, <2>1
<1>8. /\ handles' = HandlesAfter(m.ok, m.h) /\ sockets' = SocketsAfter(m.ok, m.h)
      /\ cmd' = NoCmd /\ brain' = "free"
      /\ UNCHANGED <<async, got>>
  BY <1>3, <1>7 DEF ReadWhileWaiting, SetAside, Completed, HandlesAfter, SocketsAfter
<1>9. ends' = ends
  BY <1>8
<1>10. LinkTypes'
  <2>1. load' = load /\ toWorker' = toWorker
    OBVIOUS
  <2>2. load \in Loads /\ ends \subseteq {"brain", "worker"} /\ toWorker \in Commands \cup {NoCmd}
    BY DEF LinkTypes
  <2>3. toBrain' \in Seq(Unit) /\ Len(toBrain') =< SockCap
    BY <1>2, ChannelAssumption
  <2> QED
    BY <1>9, <2>1, <2>2, <2>3 DEF LinkTypes
<1>11. WorkerTypes'
  BY <1>9, WorkerSame
<1>12. handles' \in [PcapSlot -> Ifaces \cup {NoIface}]
  <2>1. handles \in [PcapSlot -> Ifaces \cup {NoIface}] /\ cmd.iface \in Ifaces \cup {NoIface}
    BY <1>5 DEF BrainTypes, Commands
  <2> QED
    BY <2>1, <1>8, Zenon DEF HandlesAfter
<1>13. sockets' \subseteq RawSlot
  BY <1>6, <1>8 DEF SocketsAfter, Tells, BrainTypes
<1>14. BrainTypes'
  BY <1>8, <1>9, <1>12, <1>13, Zenon DEF BrainTypes
<1>15. NoAnswer'
  <2>1. ASSUME NEW i \in DOMAIN toBrain'
        PROVE  ~Answer(toBrain'[i])
    <3>1. i \in 1 .. Len(toBrain) - 1
      BY <1>2
    <3>2. i + 1 \in DOMAIN toBrain /\ i + 1 # 1 /\ toBrain'[i] = toBrain[i + 1]
      BY <1>2, <3>1
    <3> QED
      BY <3>2, <1>5, Zenon DEF OnlyAnswer
  <2> QED
    BY <2>1, Zenon DEF NoAnswer
<1>16. "worker" \in ends' => toWorker' = NoCmd /\ Agree'
  <2>1. ActiveRaw' = ActiveRaw /\ pcap' = pcap
    BY DEF ActiveRaw, workerVars, slotVars
  <2> QED
    BY <2>1, <1>6, <1>8, <1>9 DEF Tells, Agree
<1>17. CallInv'
  BY <1>8, <1>15, <1>16, Zenon DEF CallInv
<1> QED
  BY <1>10, <1>11, <1>14, <1>17

\* The brain writes a command.
LEMMA Issued ==
  ASSUME LinkInv, brain = "free", "worker" \in ends, NEW c \in Commands,
         toWorker' = c, cmd' = c, brain' = "wait", todo' \in Seq(Commands),
         UNCHANGED <<half, async, handles, sockets, got, ends, toBrain, workerVars, load>>
  PROVE  LinkInv'
<1> USE DEF LinkInv
<1>1. LinkTypes'
  BY DEF LinkTypes
<1>2. WorkerTypes'
  BY ChannelAssumption, WorkerSame
<1>3. BrainTypes'
  BY Zenon DEF BrainTypes
<1>4. CallInv'
  <2>1. NoAnswer /\ Agree
    BY DEF CallInv
  <2>2. NoAnswer'
    BY <2>1, Zenon DEF NoAnswer
  <2>3. Agree'
    BY <2>1 DEF Agree, ActiveRaw, workerVars, slotVars
  <2> QED
    BY <2>2, <2>3, Zenon DEF CallInv
<1> QED
  BY <1>1, <1>2, <1>3, <1>4

\* What main() and the modules ask for are commands.
LEMMA WantedCommands ==
  ASSUME LinkInv
  PROVE  Wanted \subseteq Commands
<1>1. sockets \subseteq Nat /\ PcapSlot \subseteq Nat
  BY ChannelAssumption DEF LinkInv, BrainTypes, RawSlot, PcapSlot
<1>2. \A i \in Ifaces : Command("OPEN_PCAP", 0, i) \in Commands
  BY DEF Command, Commands, Opcode
<1>3. \A h \in Nat : /\ Command("CLOSE_PCAP", h, NoIface) \in Commands
                     /\ Command("CREATE_RAW", h, NoIface) \in Commands
                     /\ Command("CLOSE_RAW", h, NoIface) \in Commands
                     /\ Command("SEND_RAW", h, NoIface) \in Commands
  BY DEF Command, Commands, Opcode
<1>4. \A op \in {"CLOSE_RAW", "SEND_RAW"}, h \in sockets : Command(op, h, NoIface) \in Commands
  BY <1>1, <1>3
<1>5. \A h \in {s \in PcapSlot : handles[s] # NoIface} : Command("CLOSE_PCAP", h, NoIface) \in Commands
  BY <1>1, <1>3
<1>6. Command("CREATE_RAW", 0, NoIface) \in Commands
  BY <1>3
<1> QED
  <2>1. ASSUME NEW c \in Wanted
        PROVE  c \in Commands
    <3>1. \/ c \in {Command("OPEN_PCAP", 0, i) : i \in Ifaces}
          \/ c \in {Command("CLOSE_PCAP", h, NoIface) : h \in {s \in PcapSlot : handles[s] # NoIface}}
          \/ c = Command("CREATE_RAW", 0, NoIface)
          \/ c \in {Command(op, h, NoIface) : op \in {"CLOSE_RAW", "SEND_RAW"}, h \in sockets}
      BY DEF Wanted
    <3> QED
      BY <1>2, <1>4, <1>5, <1>6, <3>1
  <2> QED
    BY <2>1

\* BootCommand and IssueCommand keep the invariant.
LEMMA CommandSteps ==
  ASSUME LinkInv, BootCommand \/ IssueCommand, UNCHANGED <<workerVars, load>>
  PROVE  LinkInv'
<1>1. CASE BootCommand /\ "worker" \in ends
  <2>1. todo \in Seq(Commands) /\ todo # <<>>
    BY <1>1, Zenon DEF BootCommand, LinkInv, BrainTypes
  <2>2. Head(todo) \in Commands /\ Tail(todo) \in Seq(Commands)
    BY <2>1, HeadTailProperties
  <2>3. PICK c \in Commands : c = Head(todo)
    BY <2>2
  <2> QED
    BY <1>1, <2>2, <2>3, Issued DEF BootCommand
<1>2. CASE BootCommand /\ "worker" \notin ends
  <2>1. todo \in Seq(Commands) /\ todo # <<>>
    BY <1>2, Zenon DEF BootCommand, LinkInv, BrainTypes
  <2>2. todo' \in Seq(Commands)
    BY <1>2, <2>1, HeadTailProperties DEF BootCommand
  <2>3. UNCHANGED <<brain, cmd, half, async, handles, sockets, got, ends, toWorker, toBrain>>
    BY <1>2 DEF BootCommand
  <2>4. LinkTypes' /\ WorkerTypes' /\ BrainTypes'
    <3>1. LinkTypes'
      BY <2>3, Zenon DEF LinkInv, LinkTypes
    <3>2. WorkerTypes'
      BY <2>3, WorkerSame DEF LinkInv
    <3>3. BrainTypes'
      BY <2>2, <2>3, Zenon DEF LinkInv, BrainTypes
    <3> QED
      BY <3>1, <3>2, <3>3, Zenon
  <2>5. CallInv'
    <3>1. brain = "free" /\ brain' = "free" /\ "worker" \notin ends'
      BY <1>2, <2>3 DEF BootCommand
    <3>2. NoAnswer
      BY <3>1 DEF LinkInv, CallInv
    <3>3. NoAnswer'
      BY <2>3, <3>2, Zenon DEF NoAnswer
    <3> QED
      BY <3>1, <3>3, Zenon DEF CallInv
  <2> QED
    BY <2>4, <2>5 DEF LinkInv
<1>3. CASE IssueCommand
  <2>1. PICK c \in Commands : toWorker' = c /\ cmd' = c
    BY <1>3, WantedCommands DEF IssueCommand
  <2>2. todo' \in Seq(Commands)
    BY <1>3 DEF IssueCommand, LinkInv, BrainTypes
  <2> QED
    BY <1>3, <2>1, <2>2, Issued DEF IssueCommand
<1> QED
  BY <1>1, <1>2, <1>3

\* ReadHeader keeps the invariant.
LEMMA HeaderRead ==
  ASSUME LinkInv, ReadHeader, UNCHANGED <<workerVars, load>>
  PROVE  LinkInv'
<1>1. brain \in {"free", "wait"} /\ toBrain # <<>> /\ toBrain' = Tail(toBrain) /\ half = <<>>
  BY DEF ReadHeader
<1>2. PICK u \in Unit : u = Head(toBrain)
  BY <1>1, HeadTailProperties DEF LinkInv, LinkTypes
<1>3. u[1] \in Messages
  BY DEF Unit
<1>4. /\ Len(Units(u[1])) \in {1, 2}
      /\ u[1] \in Responses => Len(Units(u[1])) = 1
  BY <1>3, UnitCount
<1>8. \/ /\ Len(Units(u[1])) = 1
         /\ Take(u[1]) /\ Take(Head(toBrain)[1])
         /\ UNCHANGED half
      \/ /\ Len(Units(u[1])) = 2
         /\ half' = <<u>>
         /\ UNCHANGED <<brain, cmd, async, handles, sockets, got>>
  BY <1>2, Zenon DEF ReadHeader
<1>5. CASE Len(Units(u[1])) = 1 /\ u[1] \in Packets
  <2>1. Take(u[1]) /\ half' = half
    BY <1>8, <1>5
  <2>2. /\ UNCHANGED <<handles, sockets, cmd>>
        /\ brain' \in {brain, "stopped"}
        /\ async' \in Seq(Packets) /\ Len(async') <= AsyncCap
        /\ got' \in Nat
    BY <1>1, <1>5, <2>1, PacketTaken
  <2>3. ~Answer(Head(toBrain))
    BY <1>2, <1>3, <1>5, MessageKinds DEF Answer
  <2>4. half' \in Seq(Unit) /\ Len(half') <= 1 /\ \A i \in DOMAIN half' : half'[i][1] \in Packets
    BY <2>1 DEF LinkInv, BrainTypes
  <2>5. ends' = (IF brain' = "stopped" THEN ends \ {"brain"} ELSE ends) /\ UNCHANGED <<todo, toWorker>>
    BY DEF ReadHeader
  <2> QED
    BY <1>1, <2>2, <2>3, <2>4, <2>5, BrainReads
<1>6. CASE Len(Units(u[1])) = 1 /\ u[1] \notin Packets
  <2>1. Answer(Head(toBrain))
    BY <1>2, <1>3, <1>6, MessageKinds DEF Answer
  <2>2. brain = "wait"
    <3>1. 1 \in DOMAIN toBrain /\ Head(toBrain) = toBrain[1]
      BY <1>1, HeadTailProperties DEF LinkInv, LinkTypes
    <3>2. ~NoAnswer
      BY <2>1, <3>1, Zenon DEF NoAnswer
    <3> QED
      BY <1>1, <3>2, Zenon DEF LinkInv, CallInv
  <2>3. Take(Head(toBrain)[1]) /\ UNCHANGED <<half, todo, toWorker>>
    <3>1. UNCHANGED <<todo, toWorker>>
      BY DEF ReadHeader
    <3> QED
      BY <1>8, <1>6, <3>1
  <2>4. ends' = IF brain' = "stopped" THEN ends \ {"brain"} ELSE ends
    BY DEF ReadHeader
  <2> QED
    BY <1>1, <2>1, <2>2, <2>3, <2>4, AnswerTaken, Zenon
<1>7. CASE Len(Units(u[1])) = 2
  <2>1. half' = <<u>> /\ UNCHANGED <<brain, cmd, async, handles, sockets, got, todo, toWorker>>
    <3>1. UNCHANGED <<todo, toWorker>>
      BY DEF ReadHeader
    <3> QED
      BY <1>8, <1>7, <3>1
  <2>2. u[1] \in Packets
    BY <1>3, <1>4, <1>7 DEF Messages
  <2>3. ~Answer(Head(toBrain))
    BY <1>2, <1>3, <2>2, MessageKinds DEF Answer
  <2>4. half' \in Seq(Unit) /\ Len(half') <= 1 /\ \A i \in DOMAIN half' : half'[i][1] \in Packets
    BY <2>1, <2>2
  <2>5. async' \in Seq(Packets) /\ Len(async') <= AsyncCap /\ got' \in Nat
    BY <2>1 DEF LinkInv, BrainTypes
  <2>6. ends' = IF brain' = "stopped" THEN ends \ {"brain"} ELSE ends
    BY DEF ReadHeader
  <2> QED
    BY <1>1, <2>1, <2>3, <2>4, <2>5, <2>6, BrainReads
<1> QED
  BY <1>4, <1>5, <1>6, <1>7

\* ReadPayload keeps the invariant.
LEMMA PayloadRead ==
  ASSUME LinkInv, ReadPayload, UNCHANGED <<workerVars, load>>
  PROVE  LinkInv'
<1>1. brain \in {"free", "wait"} /\ toBrain # <<>> /\ toBrain' = Tail(toBrain) /\ half # <<>>
  BY DEF ReadPayload
<1>2. half' \in Seq(Unit) /\ Len(half') <= 1 /\ \A i \in DOMAIN half' : half'[i][1] \in Packets
  BY DEF ReadPayload
<1>3. PICK m \in Packets : m = half[1][1]
  <2>1. half \in Seq(Unit) /\ \A i \in DOMAIN half : half[i][1] \in Packets
    BY DEF LinkInv, BrainTypes
  <2>2. 1 \in DOMAIN half
    BY <1>1, <2>1, EmptySeq
  <2> QED
    BY <2>1, <2>2
<1>4. ends' = (IF brain' = "stopped" THEN ends \ {"brain"} ELSE ends) /\ UNCHANGED <<todo, toWorker>>
  BY DEF ReadPayload
<1>5. CASE Head(toBrain) = <<half[1][1], 2>>
  <2>1. Take(half[1][1])
    BY <1>5 DEF ReadPayload
  <2>2. Take(m)
    BY <1>3, <2>1
  <2>3. /\ UNCHANGED <<handles, sockets, cmd>>
        /\ brain' \in {brain, "stopped"}
        /\ async' \in Seq(Packets) /\ Len(async') <= AsyncCap
        /\ got' \in Nat
    BY <1>1, <2>2, PacketTaken
  <2>4. ~Answer(Head(toBrain))
    BY <1>3, <1>5, MessageKinds DEF Answer, Messages
  <2> QED
    BY <1>1, <1>2, <1>4, <2>3, <2>4, BrainReads
<1>6. CASE Head(toBrain) # <<half[1][1], 2>>
  <2>1. brain' = "desync" /\ UNCHANGED <<cmd, async, handles, sockets, got>>
    BY <1>6 DEF ReadPayload
  <2>2. async' \in Seq(Packets) /\ Len(async') <= AsyncCap /\ got' \in Nat
    BY <2>1 DEF LinkInv, BrainTypes
  <2> QED
    BY <1>1, <1>2, <1>4, <2>1, <2>2, BrainReads, Zenon
<1> QED
  BY <1>5, <1>6

\* RecvQueued keeps the invariant.
LEMMA QueuedTaken ==
  ASSUME LinkInv, RecvQueued, UNCHANGED <<workerVars, load>>
  PROVE  LinkInv'
<1>1. UNCHANGED <<brain, todo, cmd, half, handles, sockets, ends, toWorker, toBrain>>
  BY DEF RecvQueued, channelVars
<1>2. async \in Seq(Packets) /\ async # <<>> /\ Len(async) <= AsyncCap /\ got \in Nat
  BY DEF RecvQueued, LinkInv, BrainTypes
<1>3. Head(async) \in Packets /\ Tail(async) \in Seq(Packets) /\ Len(Tail(async)) = Len(async) - 1
  BY <1>2, HeadTailProperties
<1>4. async' \in Seq(Packets) /\ Len(async') <= AsyncCap
  BY <1>2, <1>3, ClientAssumption DEF RecvQueued
<1>5. got' \in Nat
  <2>1. Head(async).n \in Nat
    BY <1>3 DEF Packets
  <2> QED
    BY <1>2, <2>1 DEF RecvQueued, Dispatch
<1>6. LinkTypes' /\ WorkerTypes' /\ BrainTypes'
  <2>1. LinkTypes'
    BY <1>1, Zenon DEF LinkInv, LinkTypes
  <2>2. WorkerTypes'
    BY <1>1, WorkerSame DEF LinkInv
  <2>3. BrainTypes'
    BY <1>1, <1>4, <1>5, Zenon DEF LinkInv, BrainTypes
  <2> QED
    BY <2>1, <2>2, <2>3, Zenon
<1>7. CallInv'
  <2>1. brain = "free" /\ brain' = "free"
    BY <1>1 DEF RecvQueued
  <2>2. NoAnswer /\ ("worker" \in ends => toWorker = NoCmd /\ Agree)
    BY <2>1 DEF LinkInv, CallInv
  <2>3. NoAnswer'
    BY <1>1, <2>2, Zenon DEF NoAnswer
  <2>4. "worker" \in ends' => toWorker' = NoCmd /\ Agree'
    BY <1>1, <2>2 DEF Agree, ActiveRaw, workerVars, slotVars
  <2> QED
    BY <2>1, <2>3, <2>4, Zenon DEF CallInv
<1> QED
  BY <1>6, <1>7 DEF LinkInv

\* ReadEof keeps the invariant.
LEMMA EofRead ==
  ASSUME LinkInv, ReadEof, UNCHANGED <<workerVars, load>>
  PROVE  LinkInv'
<1> USE DEF LinkInv
<1>1. /\ "worker" \notin ends /\ toBrain = <<>> /\ half' = <<>>
      /\ UNCHANGED <<todo, async, got, toWorker, toBrain>>
  BY Zenon DEF ReadEof
<1>2. NoAnswer'
  BY <1>1 DEF NoAnswer
<1>3. CASE brain = "wait"
  <2>1. Completed(FALSE, 0) /\ UNCHANGED ends
    BY <1>3, Zenon DEF ReadEof
  <2>2. brain' = "free"
    BY <2>1 DEF Completed
  <2>3. handles' \in [PcapSlot -> Ifaces \cup {NoIface}] /\ sockets' \subseteq RawSlot
    BY <2>1, Zenon DEF Completed, BrainTypes
  <2>4. LinkTypes' /\ WorkerTypes' /\ BrainTypes'
    <3>1. LinkTypes'
      BY <1>1, <2>1 DEF LinkTypes
    <3>2. WorkerTypes'
      BY <1>1, <2>1, WorkerSame
    <3>3. BrainTypes'
      <4>1. /\ brain' \in {"free", "wait", "stopped", "killed", "desync"}
            /\ brain' \in {"free", "wait", "desync"} /\ "brain" \in ends'
        BY <1>3, <2>1, <2>2 DEF BrainTypes
      <4>2. /\ half' \in Seq(Unit) /\ Len(half') <= 1
            /\ \A i \in DOMAIN half' : half'[i][1] \in Packets
        BY <1>1
      <4> QED
        BY <1>1, <2>3, <4>1, <4>2, Zenon DEF BrainTypes
    <3> QED
      BY <3>1, <3>2, <3>3
  <2>5. CallInv'
    BY <1>1, <1>2, <2>1, <2>2 DEF CallInv
  <2> QED
    BY <2>4, <2>5
<1>4. CASE brain # "wait"
  <2>1. /\ brain = "free" /\ brain' = "stopped" /\ ends' = ends \ {"brain"}
        /\ UNCHANGED <<cmd, handles, sockets>>
    BY <1>4, Zenon DEF ReadEof
  <2>2. LinkTypes'
    BY <1>1, <2>1 DEF LinkTypes
  <2>3. WorkerTypes'
    BY <1>1, <2>1, WorkerSame
  <2>4. BrainTypes'
    <3>1. /\ brain' \in {"free", "wait", "stopped", "killed", "desync"}
          /\ brain' \notin {"free", "wait", "desync"} /\ "brain" \notin ends'
      BY <2>1
    <3>2. /\ half' \in Seq(Unit) /\ Len(half') <= 1
          /\ \A i \in DOMAIN half' : half'[i][1] \in Packets
      BY <1>1
    <3> QED
      BY <1>1, <2>1, <3>1, <3>2, Zenon DEF BrainTypes
  <2>5. CallInv'
    BY <2>1 DEF CallInv
  <2> QED
    BY <2>2, <2>3, <2>4, <2>5
<1> QED
  BY <1>3, <1>4

\* BrainGone keeps the invariant.
LEMMA BrainLeaves ==
  ASSUME LinkInv, BrainGone, UNCHANGED <<workerVars, load>>
  PROVE  LinkInv'
<1> USE DEF LinkInv
<1>1. /\ brain' = "killed" /\ ends' = ends \ {"brain"}
      /\ UNCHANGED <<todo, cmd, half, async, handles, sockets, got, toWorker, toBrain>>
  BY DEF BrainGone
<1>2. LinkTypes' /\ WorkerTypes' /\ BrainTypes'
  BY <1>1, Zenon DEF LinkTypes, WorkerTypes, BrainTypes, ActivePcap, ActiveRaw,
              workerVars, slotVars, walkVars
<1>3. CallInv'
  BY <1>1, Zenon DEF CallInv
<1> QED
  BY <1>2, <1>3

\* The invariant holds when the agent has forked its worker.
LEMMA LinkInit ==
  ASSUME Init
  PROVE  LinkInv
<1>1. LinkTypes
  BY ChannelAssumption DEF Init, LinkTypes
<1>2. ActivePcap = {} /\ ActiveRaw = {}
  BY DEF Init, WorkerInit, ActivePcap, ActiveRaw
<1>3. WorkerTypes
  BY <1>2, Zenon DEF Init, WorkerTypes, WorkerInit
<1>4. BrainTypes
  BY ClientAssumption DEF Init, BrainTypes, ClientInit
<1>5. CallInv
  BY <1>2 DEF Init, CallInv, WorkerInit, ClientInit, Agree, NoAnswer
<1> QED
  BY <1>1, <1>3, <1>4, <1>5 DEF LinkInv

\* Every step of either process, and of the network, keeps the invariant.
LEMMA LinkStep ==
  ASSUME SlotFound, LinkInv, [Next]_vars
  PROVE  LinkInv'
<1>1. CASE Worker \/ ((Arrive \/ WorkerDies) /\ UNCHANGED <<clientVars, load>>)
  BY <1>1, WorkerSteps DEF Worker
<1>2. CASE Brain \/ ((IssueCommand \/ BrainGone) /\ UNCHANGED <<workerVars, load>>)
  BY <1>2, CommandSteps, HeaderRead, PayloadRead, QueuedTaken, EofRead, BrainLeaves DEF Brain, Reads
<1>3. CASE Exited \/ UNCHANGED vars
  <2>1. UNCHANGED vars
    BY <1>3 DEF Exited
  <2>2. LinkTypes' /\ WorkerTypes' /\ BrainTypes'
    <3>1. UNCHANGED <<load, ends, toWorker, toBrain, workerVars, brain, todo, half, async,
                      handles, sockets, got>>
      BY <2>1 DEF vars, channelVars, clientVars
    <3>2. LinkTypes'
      BY <3>1, Zenon DEF LinkInv, LinkTypes
    <3>3. WorkerTypes'
      BY <3>1, WorkerSame DEF LinkInv
    <3>4. BrainTypes'
      BY <3>1, Zenon DEF LinkInv, BrainTypes
    <3> QED
      BY <3>2, <3>3, <3>4, Zenon
  <2>3. SameAnswers
    <3>1. toBrain' = toBrain
      BY <2>1 DEF vars, channelVars
    <3>2. NoAnswer => NoAnswer'
      BY <3>1, Zenon DEF NoAnswer
    <3>3. \A k : OnlyAnswer(k) => OnlyAnswer(k)'
      BY <3>1, Zenon DEF OnlyAnswer
    <3> QED
      BY <3>1, <3>2, <3>3, Zenon DEF SameAnswers
  <2>4. CallInv'
    BY <2>1, <2>3, CallFrame DEF LinkInv, vars, channelVars, clientVars, workerVars, slotVars
  <2> QED
    BY <2>2, <2>4 DEF LinkInv
<1> QED
  BY <1>1, <1>2, <1>3 DEF Next
-----------------------------------------------------------------------------
(* The order of the packets. *)

\* What a step of the worker puts into the socket: nothing, or its answer to a
\* command, or a beginning of the packet it has read.
LEMMA WorkerWrites ==
  ASSUME SlotFound, LinkInv, RunLoop \/ Arrive \/ WorkerDies, UNCHANGED <<clientVars, load>>
  PROVE  \/ UNCHANGED <<toBrain, read>>
         \/ \E m \in Messages, w \in Seq(Unit) :
              /\ toBrain' = toBrain \o w
              /\ Len(w) <= Len(Units(m))
              /\ \A i \in 1 .. Len(w) : w[i] = <<m, i>>
              /\ read' \in Nat /\ read <= read'
              /\ m.op \in DataOp => m.n = read' /\ read < read'
<1> USE DEF LinkInv
<1>1. read \in Nat
  BY DEF WorkerTypes
<1>2. ASSUME NEW op \in DataOp, NEW size \in load.sizes, cur \in Nat,
             WriteData(Data(op, cur, read + 1, size)), read' = read + 1
      PROVE  \E m \in Messages, w \in Seq(Unit) :
               /\ toBrain' = toBrain \o w
               /\ Len(w) <= Len(Units(m))
               /\ \A i \in 1 .. Len(w) : w[i] = <<m, i>>
               /\ read' \in Nat /\ read <= read'
               /\ m.op \in DataOp => m.n = read' /\ read < read'
  <2>1. PICK m \in Packets : m = Data(op, cur, read + 1, size)
    BY <1>1, <1>2, PacketWritten, Zenon
  <2>2. PICK w \in Seq(Unit) : /\ toBrain' = toBrain \o w
                               /\ Len(w) <= Len(Units(m))
                               /\ \A i \in 1 .. Len(w) : w[i] = <<m, i>>
    BY <1>1, <1>2, <2>1, PacketWritten, Zenon
  <2>3. m \in Messages /\ m.n = read'
    BY <1>2, <2>1 DEF Messages, Data
  <2>4. read' \in Nat /\ read <= read' /\ read < read'
    BY <1>1, <1>2
  <2> QED
    BY <2>2, <2>3, <2>4, Zenon
<1>3. /\ cur \in ActivePcap => cur \in Nat
      /\ cur \in ActiveRaw => cur \in Nat
  BY DEF ActivePcap, ActiveRaw, PcapSlot, RawSlot
<1>4. "PACKET_DATA" \in DataOp /\ "RAW_RESPONSE" \in DataOp
  BY DEF DataOp
<1>5. CASE Arrive \/ WorkerDies \/ WorkerPoll
  BY <1>5, Zenon DEF Arrive, WorkerDies, WorkerPoll, channelVars
<1>6. CASE WorkerCommand
  <2>1. read' = read
    BY <1>6 DEF WorkerCommand
  <2>2. CASE ~cmdIn
    BY <1>6, <2>1, <2>2, Zenon DEF WorkerCommand
  <2>3. CASE cmdIn
    <3>1. toWorker \in Commands /\ HandleCommand(toWorker)
      BY <1>6, <2>3 DEF WorkerCommand, WorkerTypes, LinkTypes
    <3>2. PICK ok \in BOOLEAN, h \in Nat : SendResponse(toWorker.op, ok, h)
      BY <3>1, Handled
    <3>3. PICK m : m = Response(toWorker.op, ok, h)
      OBVIOUS
    <3>4. m \in Responses
      BY <3>1, <3>3 DEF Response, Responses, Commands
    <3>5. m \in Messages /\ m.op \notin DataOp /\ Len(Units(m)) = 1 /\ <<m, 1>> \in Unit
      <4>1. m \in Messages
        BY <3>4 DEF Messages
      <4> QED
        BY <3>4, <4>1, MessageKinds, UnitCount, Zenon DEF Unit
    <3>6. CASE "brain" \in ends
      <4>1. toBrain' = Append(toBrain, <<m, 1>>)
        BY <3>2, <3>3, <3>6 DEF SendResponse
      <4>2. PICK w \in Seq(Unit) : w = <<<<m, 1>>>>
        <5>1. PICK u \in Unit : u = <<m, 1>>
          BY <3>5, Zenon
        <5>2. <<u>> \in Seq(Unit)
          OBVIOUS
        <5> QED
          BY <5>1, <5>2, Zenon
      <4>3. Len(w) = 1 /\ w[1] = <<m, 1>>
        BY <4>2
      <4>4. toBrain' = toBrain \o w
        BY <3>5, <4>1, <4>2, AppendIsConcat, Zenon DEF LinkTypes
      <4>5. Len(w) <= Len(Units(m)) /\ \A i \in 1 .. Len(w) : w[i] = <<m, i>>
        <5>1. 1 <= 1
          OBVIOUS
        <5>2. Len(w) <= Len(Units(m))
          BY <3>5, <4>3, <5>1, Zenon
        <5>3. \A i \in 1 .. Len(w) : w[i] = <<m, i>>
          BY <4>3
        <5> QED
          BY <5>2, <5>3
      <4>6. read' \in Nat /\ read <= read'
        BY <1>1, <2>1
      <4> QED
        BY <3>5, <4>4, <4>5, <4>6, Zenon
    <3>7. CASE "brain" \notin ends
      BY <2>1, <3>2, <3>7 DEF SendResponse
    <3> QED
      BY <3>6, <3>7, Zenon
  <2> QED
    BY <2>2, <2>3, Zenon
<1>7. CASE WalkPcap
  <2>1. \/ UNCHANGED <<toBrain, read>>
        \/ /\ cur \in ActivePcap /\ read' = read + 1
           /\ \E size \in load.sizes : WriteData(Data("PACKET_DATA", cur, read + 1, size))
    BY <1>7, Zenon DEF WalkPcap
  <2> QED
    BY <1>2, <1>3, <1>4, <2>1, Zenon
<1>8. CASE WalkRaw \/ RecvReturns
  <2>1. \/ UNCHANGED <<toBrain, read>>
        \/ /\ cur \in ActiveRaw /\ read' = read + 1
           /\ \E size \in load.sizes : WriteData(Data("RAW_RESPONSE", cur, read + 1, size))
    BY <1>8, Zenon DEF WalkRaw, RecvReturns, RecvRaw, WorkerTypes
  <2> QED
    BY <1>2, <1>3, <1>4, <2>1, Zenon
<1> QED
  BY <1>5, <1>6, <1>7, <1>8, Zenon DEF RunLoop

\* The worker's steps keep the order.
LEMMA OrderWorker ==
  ASSUME SlotFound, LinkInv, OrderInv, RunLoop \/ Arrive \/ WorkerDies, UNCHANGED <<clientVars, load>>
  PROVE  OrderInv'
<1>1. UNCHANGED <<brain, half, async, got>>
  BY DEF clientVars
<1>2. /\ half \in Seq(Unit) /\ toBrain \in Seq(Unit) /\ async \in Seq(Packets)
      /\ got \in Nat /\ read \in Nat
  BY DEF LinkInv, LinkTypes, BrainTypes, WorkerTypes
<1>3. InSocket \in Seq(Unit)
  BY <1>2, ConcatProperties DEF InSocket
<1>4. HalfRead'
  BY <1>1 DEF OrderInv, HalfRead
<1>5. CASE UNCHANGED <<toBrain, read>>
  <2>1. InSocket' = InSocket
    BY <1>1, <1>5 DEF InSocket
  <2> QED
    BY <1>1, <1>4, <1>5, <2>1 DEF OrderInv, Framed
<1>6. ASSUME NEW m \in Messages, NEW w \in Seq(Unit),
             toBrain' = toBrain \o w, Len(w) <= Len(Units(m)),
             \A i \in 1 .. Len(w) : w[i] = <<m, i>>,
             read' \in Nat, read <= read', m.op \in DataOp => m.n = read' /\ read < read'
      PROVE  OrderInv'
  <2>1. InSocket' = InSocket \o w
    <3>1. InSocket' = half \o (toBrain \o w)
      BY <1>1, <1>6, Zenon DEF InSocket
    <3>2. half \o (toBrain \o w) = (half \o toBrain) \o w
      BY <1>2, ConcatAssociative
    <3> QED
      BY <3>1, <3>2 DEF InSocket
  <2>2. Ordered(got, async, InSocket \o w, read')
    <3>1. Ordered(got, async, InSocket, read)
      BY DEF OrderInv
    <3>2. PICK q \in Nat : q = read'
      BY <1>6
    <3>3. read <= q /\ (m.op \in DataOp => m.n = q /\ read < q)
      BY <1>6, <3>2
    <3>4. Ordered(got, async, InSocket \o w, q)
      BY <1>2, <1>3, <1>6, <3>1, <3>3, OrderedWrite, Zenon
    <3> QED
      BY <3>2, <3>4
  <2>3. Framed'
    <3>1. brain \in {"free", "wait"} => FramedIn(InSocket \o w)
      BY <1>3, <1>6, FramedWrite, Zenon DEF OrderInv, Framed
    <3> QED
      BY <1>1, <2>1, <3>1 DEF Framed
  <2> QED
    BY <1>1, <1>4, <2>1, <2>2, <2>3 DEF OrderInv
<1> QED
  BY <1>5, <1>6, WorkerWrites, Zenon

\* The packet at the front of a row goes to the queue, to the modules, or
\* nowhere, and stays in order.
LEMMA OrderTake ==
  ASSUME LinkInv, brain \in {"free", "wait"}, NEW m \in Packets, Take(m),
         NEW s \in Seq(Unit), s # <<>>, Begins(s[1]), s[1][1] = m,
         Ordered(got, async, s, read)
  PROVE  Ordered(got', async', Tail(s), read)
<1>1. m.op \in DataOp
  BY DEF Packets
<1>2. async \in Seq(Packets) /\ got \in Nat /\ read \in Nat
  BY Zenon DEF LinkInv, BrainTypes, WorkerTypes
<1>3. Ordered(got, async, Tail(s), read)
  BY OrderedTail
<1>4. CASE brain = "wait"
  <2>1. /\ async' = IF Len(async) < AsyncCap THEN Append(async, m) ELSE async
        /\ got' = got
    BY <1>1, <1>4, Zenon DEF Take, ReadWhileWaiting, SetAside
  <2>2. Ordered(got, Append(async, m), Tail(s), read)
    BY <1>2, OrderedQueue
  <2> QED
    BY <1>3, <2>1, <2>2
<1>5. CASE brain = "free"
  <2>1. async = <<>> /\ async' = <<>> /\ (got' = got \/ got' = m.n)
    BY <1>1, <1>5 DEF Take, ReadInLoop, Dispatch
  <2>2. Ordered(m.n, <<>>, Tail(s), read)
    BY <1>2, <2>1, OrderedDeliver
  <2> QED
    BY <1>3, <2>1, <2>2
<1> QED
  BY <1>4, <1>5

\* ReadHeader keeps the order.
LEMMA OrderHeader ==
  ASSUME LinkInv, OrderInv, ReadHeader, UNCHANGED <<workerVars, load>>
  PROVE  OrderInv'
<1>1. /\ brain \in {"free", "wait"} /\ toBrain # <<>> /\ toBrain' = Tail(toBrain)
      /\ half = <<>> /\ read' = read
  BY DEF ReadHeader, workerVars
<1>2. PICK s \in Seq(Unit) : s = toBrain
  BY DEF LinkInv, LinkTypes
<1>3. InSocket = s /\ s # <<>>
  BY <1>1, <1>2, ConcatEmptySeq DEF InSocket
<1>4. Ordered(got, async, s, read) /\ FramedIn(s)
  BY <1>1, <1>3 DEF OrderInv, Framed
<1>5. /\ Tail(s) \in Seq(Unit) /\ 1 \in DOMAIN s /\ s[1] \in Unit /\ Head(toBrain) = s[1]
      /\ Tail(toBrain) = Tail(s)
  BY <1>2, <1>3, HeadTailProperties, EmptySeq
<1>6. PICK u \in Unit : u = s[1]
  BY <1>5
<1>7. u[1] \in Messages /\ u[2] \in {1, 2}
  BY DEF Unit
<1>8. \/ /\ Len(Units(u[1])) = 1
         /\ Take(u[1])
         /\ UNCHANGED half
      \/ /\ Len(Units(u[1])) = 2
         /\ half' = <<u>>
         /\ UNCHANGED <<brain, cmd, async, handles, sockets, got>>
  BY <1>5, <1>6, Zenon DEF ReadHeader
<1>9. CASE Len(Units(u[1])) = 1 /\ Take(u[1]) /\ UNCHANGED half
  <2>1. FramedIn(Tail(s)) /\ u[2] = 1
    BY <1>3, <1>4, <1>6, <1>9, FramedOne
  <2>2. half' = <<>> /\ InSocket' = Tail(s)
    BY <1>1, <1>5, <1>9, ConcatEmptySeq DEF InSocket
  <2>3. Framed' /\ HalfRead'
    BY <2>1, <2>2 DEF Framed, HalfRead
  <2>4. CASE u[1] \in Packets
    <3>1. Begins(s[1]) /\ s[1][1] = u[1]
      BY <1>6, <2>1, <2>4 DEF Begins, Packets
    <3>2. PICK m \in Packets : m = u[1]
      BY <2>4
    <3>3. Take(m)
      BY <1>9, <3>2
    <3>4. Ordered(got', async', Tail(s), read)
      BY <1>1, <1>3, <1>4, <3>1, <3>2, <3>3, OrderTake
    <3> QED
      BY <1>1, <2>2, <2>3, <3>4 DEF OrderInv
  <2>5. CASE u[1] \notin Packets
    <3>1. PICK m : m = u[1]
      OBVIOUS
    <3>2. m.op \notin DataOp
      BY <1>7, <2>5, <3>1, MessageKinds
    <3>3. Take(m)
      BY <1>9, <3>1
    <3>4. UNCHANGED <<got, async>>
      BY <3>2, <3>3, Zenon
         DEF Take, ReadWhileWaiting, SetAside, ReadInLoop, Dispatch
    <3>5. Ordered(got, async, Tail(s), read)
      BY <1>3, <1>4, OrderedTail
    <3> QED
      BY <1>1, <2>2, <2>3, <3>4, <3>5 DEF OrderInv
  <2> QED
    BY <2>4, <2>5
<1>10. CASE /\ Len(Units(u[1])) = 2 /\ half' = <<u>>
            /\ UNCHANGED <<brain, cmd, async, handles, sockets, got>>
  <2>1. u[2] = 1
    <3>1. u[2] # 2
      <4>1. ~(1 > 1)
        OBVIOUS
      <4> QED
        BY <1>4, <1>5, <1>6, <4>1, Zenon DEF FramedIn
    <3> QED
      BY <1>7, <3>1
  <2>2. HalfRead'
    BY <1>10, <2>1 DEF HalfRead
  <2>3. InSocket' = s
    <3>1. InSocket' = <<u>> \o Tail(s)
      BY <1>1, <1>5, <1>10, Zenon DEF InSocket
    <3>2. PICK v \in Seq(Unit) : v = <<u>> \o Tail(s)
      BY <1>5, Apart, Zenon
    <3>3. /\ Len(v) = Len(Tail(s)) + 1 /\ v[1] = u
          /\ \A i \in 1 .. Len(Tail(s)) : v[i + 1] = Tail(s)[i]
      BY <1>5, <3>2, Apart
    <3>4. /\ Len(Tail(s)) = Len(s) - 1 /\ Len(s) \in Nat
          /\ \A i \in 1 .. Len(s) - 1 : Tail(s)[i] = s[i + 1]
      BY <1>3, HeadTailProperties
    <3>5. Len(v) = Len(s)
      BY <3>3, <3>4
    <3>6. ASSUME NEW i \in 1 .. Len(v)
          PROVE  v[i] = s[i]
      <4>1. CASE i = 1
        BY <1>6, <3>3, <4>1
      <4>2. CASE i # 1
        <5>1. i - 1 \in 1 .. Len(s) - 1 /\ (i - 1) + 1 = i
          BY <3>4, <3>5, <4>2
        <5> QED
          BY <3>3, <3>4, <5>1, Zenon
      <4> QED
        BY <4>1, <4>2
    <3>7. v = s
      BY <3>5, <3>6, SeqEqual
    <3> QED
      BY <3>1, <3>2, <3>7
  <2>4. Framed' /\ Ordered(got, async, s, read)'
    BY <1>1, <1>4, <1>10, <2>3 DEF Framed
  <2> QED
    BY <1>1, <1>4, <1>10, <2>2, <2>3, <2>4 DEF OrderInv
<1> QED
  BY <1>8, <1>9, <1>10

\* ReadPayload keeps the order.
LEMMA OrderPayload ==
  ASSUME LinkInv, OrderInv, ReadPayload, UNCHANGED <<workerVars, load>>
  PROVE  OrderInv'
<1>1. /\ brain \in {"free", "wait"} /\ half # <<>> /\ toBrain # <<>>
      /\ toBrain' = Tail(toBrain) /\ half' = <<>> /\ read' = read
  BY DEF ReadPayload, workerVars
<1>2. PICK t \in Seq(Unit) : t = toBrain
  BY DEF LinkInv, LinkTypes
<1>3. PICK u \in Unit : half = <<u>> /\ u = half[1]
  <2>1. half \in Seq(Unit) /\ Len(half) <= 1
    BY DEF LinkInv, BrainTypes
  <2> QED
    BY <1>1, <2>1, Single, Zenon
<1>4. u[1] \in Packets /\ u[2] = 1
  <2>1. \A i \in DOMAIN half : half[i][1] \in Packets /\ half[i][2] = 1
    BY Zenon DEF LinkInv, BrainTypes, OrderInv, HalfRead
  <2>2. 1 \in DOMAIN half
    BY <1>3
  <2> QED
    BY <1>3, <2>1, <2>2
<1>5. PICK s \in Seq(Unit) : s = <<u>> \o t
  BY Apart, Zenon
<1>6. /\ InSocket = s /\ s # <<>> /\ Tail(s) = t /\ s[1] = u /\ Len(s) = Len(t) + 1
      /\ \A i \in 1 .. Len(t) : s[i + 1] = t[i]
  BY <1>2, <1>3, <1>5, Apart DEF InSocket
<1>7. Ordered(got, async, s, read) /\ FramedIn(s)
  BY <1>1, <1>6 DEF OrderInv, Framed
<1>8. /\ t # <<>> /\ Len(t) >= 1 /\ Head(toBrain) = t[1] /\ Tail(t) \in Seq(Unit) /\ Len(t) \in Nat
  BY <1>1, <1>2, HeadTailProperties, EmptySeq
<1>9. InSocket' = Tail(t)
  BY <1>1, <1>2, <1>8, ConcatEmptySeq DEF InSocket
<1>10. HalfRead'
  BY <1>1 DEF HalfRead
<1>11. CASE Head(toBrain) = <<half[1][1], 2>>
  <2>1. PICK m \in Packets : m = u[1]
    BY <1>4
  <2>2. Take(half[1][1])
    BY <1>11, Zenon DEF ReadPayload
  <2>3. Take(m)
    BY <1>3, <2>1, <2>2
  <2>4. Begins(s[1]) /\ s[1][1] = m
    BY <1>4, <1>6, <2>1, Zenon DEF Begins, Packets
  <2>5. Ordered(got', async', t, read)
    BY <1>1, <1>6, <1>7, <2>3, <2>4, OrderTake, Zenon
  <2>6. Ordered(got', async', Tail(t), read)
    BY <1>8, <2>5, OrderedTail
  <2>7. Len(s) >= 2 /\ s[2] = t[1]
    BY <1>6, <1>8
  <2>8. s[2][2] = 2
    BY <1>8, <1>11, <2>7
  <2>9. FramedIn(Tail(t))
    BY <1>6, <1>7, <2>7, <2>8, FramedTwo, Zenon
  <2> QED
    BY <1>1, <1>9, <1>10, <2>6, <2>9 DEF OrderInv, Framed
<1>12. CASE Head(toBrain) # <<half[1][1], 2>>
  <2>1. brain' = "desync" /\ UNCHANGED <<async, got>>
    BY <1>12, Zenon DEF ReadPayload
  <2>2. Ordered(got, async, Tail(t), read)
    BY <1>6, <1>7, <1>8, OrderedTail, Zenon
  <2>3. Framed'
    BY <2>1 DEF Framed
  <2>4. Ordered(got, async, InSocket, read)'
    BY <1>1, <1>9, <1>10, <2>1, <2>2, Zenon
  <2> QED
    BY <1>1, <1>9, <1>10, <2>3, <2>4, Zenon DEF OrderInv
<1> QED
  BY <1>11, <1>12

\* A step that touches neither the packets nor the socket keeps the order.
LEMMA OrderSame ==
  ASSUME OrderInv, UNCHANGED <<half, toBrain, async, got, read>>,
         brain' \in {"free", "wait"} => brain \in {"free", "wait"}
  PROVE  OrderInv'
<1>1. InSocket' = InSocket
  BY DEF InSocket
<1> QED
  BY <1>1, Zenon DEF OrderInv, Framed, HalfRead

\* Every step keeps the order.
LEMMA OrderStep ==
  ASSUME SlotFound, LinkInv, OrderInv, [Next]_vars
  PROVE  OrderInv'
<1>1. CASE Worker \/ ((Arrive \/ WorkerDies) /\ UNCHANGED <<clientVars, load>>)
  BY <1>1, OrderWorker DEF Worker
<1>2. CASE (BootCommand \/ IssueCommand \/ BrainGone) /\ UNCHANGED <<workerVars, load>>
  BY <1>2, OrderSame, Zenon DEF BootCommand, IssueCommand, BrainGone, workerVars
<1>3. CASE (ReadHeader \/ ReadPayload) /\ UNCHANGED <<workerVars, load>>
  BY <1>3, OrderHeader, OrderPayload
<1>4. CASE RecvQueued /\ UNCHANGED <<workerVars, load>>
  <2>1. UNCHANGED <<brain, half, toBrain, read>>
    BY <1>4 DEF RecvQueued, channelVars, workerVars
  <2>2. async \in Seq(Packets) /\ async # <<>> /\ got \in Nat /\ read \in Nat
    BY <1>4, Zenon DEF RecvQueued, LinkInv, BrainTypes, WorkerTypes
  <2>3. InSocket \in Seq(Unit)
    BY ConcatProperties, Zenon DEF LinkInv, LinkTypes, BrainTypes, InSocket
  <2>4. InSocket' = InSocket
    BY <2>1 DEF InSocket
  <2>5. got' = Head(async).n /\ async' = Tail(async)
    <3>1. Head(async) \in Packets
      BY <2>2, HeadTailProperties
    <3>2. Head(async).op \in DataOp
      BY <3>1 DEF Packets
    <3> QED
      BY <1>4, <3>2 DEF RecvQueued, Dispatch
  <2>6. Ordered(Head(async).n, Tail(async), InSocket, read)
    BY <2>2, <2>3, OrderedRecv DEF OrderInv
  <2> QED
    BY <2>1, <2>4, <2>5, <2>6, Zenon DEF OrderInv, Framed, HalfRead
<1>5. CASE ReadEof /\ UNCHANGED <<workerVars, load>>
  <2>1. half' = <<>> /\ toBrain' = <<>> /\ UNCHANGED <<async, got, read>>
    BY <1>5, Zenon DEF ReadEof, workerVars
  <2>2. InSocket' = <<>> /\ DOMAIN <<>> = {}
    BY <2>1 DEF InSocket
  <2>3. Ordered(got, async, <<>>, read)
    BY <2>2, Zenon DEF OrderInv, Ordered
  <2>4. FramedIn(<<>>)
    BY <2>2, Zenon DEF FramedIn
  <2>5. HalfRead'
    BY <2>1, <2>2, Zenon DEF HalfRead
  <2> QED
    BY <2>1, <2>2, <2>3, <2>4, <2>5 DEF OrderInv, Framed
<1>6. CASE Exited \/ UNCHANGED vars
  BY <1>6, OrderSame, Zenon DEF Exited, vars, channelVars, workerVars, clientVars
<1> QED
  BY <1>1, <1>2, <1>3, <1>4, <1>5, <1>6 DEF Next, Brain, Reads

-----------------------------------------------------------------------------
(* The theorems. *)

LOCAL INSTANCE WellFoundedInduction

\* A nonempty set of natural numbers has a least member.
LEMMA LeastNatural ==
  ASSUME NEW T, T \subseteq Nat, T # {}
  PROVE  \E x \in T : \A y \in T : x <= y
<1> DEFINE R == {p \in Nat \X Nat : p[1] < p[2]}
<1>1. IsWellFoundedOn(R, Nat)
  BY NatLessThanWellFounded, Zenon DEF OpToRel
<1>2. \E x \in T : \A y \in T : ~(<<y, x>> \in R)
  <2> HIDE DEF R
  <2> QED
    BY <1>1, WFMin, Zenon
<1>3. PICK x \in T : \A y \in T : ~(<<y, x>> \in R)
  BY <1>2
<1>4. ASSUME NEW y \in T
      PROVE  x <= y
  <2>1. x \in Nat /\ y \in Nat
    OBVIOUS
  <2>2. y < x => <<y, x>> \in R
    BY <2>1
  <2>3. ~(y < x)
    BY <1>3, <2>2
  <2> QED
    BY <2>1, <2>3
<1> QED
  BY <1>4

\* A free slot is found when there is one.
LEMMA LowestIn == SlotFound
<1> SUFFICES ASSUME NEW S \in SUBSET Nat, S # {}
             PROVE  Lowest(S) \in S
  BY DEF SlotFound
<1>1. \E s \in S : \A t \in S : s <= t
  BY LeastNatural, Zenon
<1> QED
  BY <1>1, Zenon DEF Lowest

\* Between the write of a command and the reading of its answer there is
\* exactly one of them in the socketpair: the command, or an answer that tells
\* what the worker did for it.  At all other times there is none
\* (send_and_recv, handle_command).
THEOREM LinkInvariant == Spec => []LinkInv
<1>1. Init => LinkInv
  BY LinkInit
<1>2. LinkInv /\ [Next]_vars => LinkInv'
  BY LinkStep, LowestIn
<1> QED
  BY <1>1, <1>2, PTL DEF Spec

\* Whenever no command is under way, the capture handles and raw sockets the
\* brain believes it holds are exactly the active slots of the worker.
THEOREM TablesStayEqual == Spec => []TablesAgree
<1>1. LinkInv => TablesAgree
  BY Zenon
     DEF LinkInv, LinkTypes, WorkerTypes, BrainTypes, CallInv, Agree, TablesAgree, TypeOK
<1> QED
  BY <1>1, LinkInvariant, PTL
\* The packet last given to the modules, those set aside during a command and
\* those in the socket are ever newer ones, and none is newer than the last
\* the worker has read; a payload follows its header (send_and_recv,
\* ps_priv_client_recv, the walks of run_loop).
THEOREM OrderInvariant == Spec => []OrderInv
<1>1. ASSUME Init
      PROVE  OrderInv
  <2>1. got = 0 /\ read = 0 /\ async = <<>> /\ half = <<>> /\ toBrain = <<>>
    BY <1>1 DEF Init, WorkerInit, ClientInit
  <2>2. InSocket = <<>> /\ DOMAIN <<>> = {} /\ 0 <= 0
    BY <2>1 DEF InSocket
  <2> QED
    BY <2>1, <2>2, Zenon DEF OrderInv, Ordered, Framed, FramedIn, HalfRead
<1>2. LinkInv /\ OrderInv /\ [Next]_vars => OrderInv'
  BY OrderStep, LowestIn
<1> QED
  BY <1>1, <1>2, LinkInvariant, PTL DEF Spec

\* The modules are given the packets in the order in which the worker read
\* them, whichever way each one reached the brain.
THEOREM PacketsStayInOrder == Spec => []PacketsInOrder
<1>1. OrderInv => PacketsInOrder
  BY Zenon DEF OrderInv, Ordered, PacketsInOrder
<1> QED
  BY <1>1, OrderInvariant, PTL
=============================================================================
