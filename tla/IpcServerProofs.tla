-------------------------- MODULE IpcServerProofs --------------------------
(***************************************************************************)
(* Proofs about the IPC server, for every number of clients and slots and  *)
(* every length of what the clients send.                                  *)
(***************************************************************************)
EXTENDS IpcServer, FiniteSetTheorems, SequenceTheorems, WellFoundedInduction, TLAPS

ConnState == {"new", "backlog", "open", "closed", "leaked"}
PolledSlot == [slot : Slot, in : BOOLEAN, hup : BOOLEAN]
Closed == {c \in Conns : conn[c] = "closed"}

SlotTypes ==
  /\ conn \in [Conns -> ConnState]
  /\ slot \in [Slot -> Conns \cup {NoConn}]
  /\ count \in Int

BufferTypes ==
  /\ inbox \in [Conns -> Seq(Frame)]
  /\ pc \in {"loop", "unix", "tcp", "serve", "parse"}
  /\ polled \in Seq(PolledSlot)
  /\ rest \in Seq(Frame)
  /\ asker \in Conns \cup {NoConn}
  /\ sent \in [Conns -> Nat]
  /\ handled \in [Conns -> Nat]
  /\ pc = "parse" <=> asker # NoConn
  /\ pc # "parse" => rest = <<>>
  /\ pc = "parse" => polled # <<>>

\* A connection is open exactly while it has a slot, and it has one slot.
OneSlotEach ==
  /\ \A c \in Conns : conn[c] = "open" <=> \E s \in Slot : slot[s] = c
  /\ \A s, t \in Slot : slot[s] # NoConn /\ slot[s] = slot[t] => s = t

\* The client whose buffer is parsed still has the slot it was read from, or was
\* dropped by a broadcast and has none.
AskerSlot ==
  pc = "parse" =>
    /\ conn[asker] \in {"open", "closed"}
    /\ slot[Current.slot] = IF conn[asker] = "open" THEN asker ELSE NoConn

\* client_count is never above the slots in use, and falls behind them by one at
\* most for each client that was dropped twice: by a broadcast, and again for the
\* framing error that follows in its buffer.
IpcCount ==
  /\ count <= Cardinality(Used)
  /\ Cardinality(Used) - count <= Cardinality(Closed \ {asker})

Parsing(c) == IF asker = c THEN rest ELSE <<>>

\* The numbers of the frames of a client that has not been closed.
Numbered(c) ==
  /\ handled[c] + Len(Parsing(c)) + Len(inbox[c]) = sent[c]
  /\ \A i \in 1 .. Len(Parsing(c)) : Parsing(c)[i].n = handled[c] + i
  /\ \A i \in 1 .. Len(inbox[c]) : inbox[c][i].n = handled[c] + Len(Parsing(c)) + i

Unclosed(c) == conn[c] \in {"new", "backlog", "open"}

IpcFrames == \A c \in Conns : Unclosed(c) => Numbered(c)

IpcInv ==
  SlotTypes /\ BufferTypes /\ OneSlotEach /\ AskerSlot /\ IpcCount /\ IpcFrames
-----------------------------------------------------------------------------
\* A nonempty set of natural numbers has a least member.
LEMMA LeastNatural ==
  ASSUME NEW T, T \subseteq Nat, T # {}
  PROVE  \E x \in T : \A y \in T : x <= y
<1> DEFINE R == {p \in Nat \X Nat : p[1] < p[2]}
<1>1. IsWellFoundedOn(R, Nat)
  BY NatLessThanWellFounded, Zenon DEF OpToRel
<1>2. \E x \in T : \A y \in T : ~(<<y, x>> \in R)
  <2> HIDE DEF R
  <2> QED
    BY <1>1, WFMin, Zenon
<1>3. PICK x \in T : \A y \in T : ~(<<y, x>> \in R)
  BY <1>2
<1>4. ASSUME NEW y \in T
      PROVE  x <= y
  <2>1. x \in Nat /\ y \in Nat
    OBVIOUS
  <2>2. y < x => <<y, x>> \in R
    BY <2>1
  <2>3. ~(y < x)
    BY <1>3, <2>2
  <2> QED
    BY <2>1, <2>3
<1> QED
  BY <1>4

\* The members of a finite set of numbers have the ranks from one to its size.
LEMMA Ranks ==
  ASSUME NEW S, IsFiniteSet(S), S \subseteq Nat
  PROVE  \A i \in 1 .. Cardinality(S) :
           \E t \in S : Cardinality({u \in S : u <= t}) = i
<1> DEFINE below(t) == {u \in S : u <= t}
           f == [t \in S |-> Cardinality(below(t))]
           n == Cardinality(S)
<1>1. n \in Nat
  BY FS_CardinalityType
<1>2. \A t \in S : /\ below(t) \in SUBSET S
                   /\ IsFiniteSet(below(t))
                   /\ Cardinality(below(t)) \in Nat
                   /\ Cardinality(below(t)) <= n
  <2> TAKE t \in S
  <2>1. below(t) \in SUBSET S
    OBVIOUS
  <2> QED
    BY <2>1, FS_Subset, FS_CardinalityType
<1>3. \A t \in S : Cardinality(below(t)) # 0
  <2> TAKE t \in S
  <2>1. t \in below(t)
    BY S \subseteq Nat
  <2> QED
    BY <2>1, <1>2, FS_EmptySet
<1>4. f \in [S -> 1 .. n]
  BY <1>1, <1>2, <1>3
<1>5. ASSUME NEW t \in S, NEW u \in S, t < u
      PROVE  Cardinality(below(t)) # Cardinality(below(u))
  <2>1. below(t) \in SUBSET below(u)
    <3> SUFFICES ASSUME NEW v \in S, v <= t
                 PROVE  v <= u
      BY Zenon
    <3>1. v \in Nat /\ t \in Nat /\ u \in Nat
      BY S \subseteq Nat
    <3> QED
      BY <1>5, <3>1
  <2>2. u \in below(u) /\ u \notin below(t)
    BY <1>5, S \subseteq Nat
  <2>3. below(t) # below(u)
    BY <2>2
  <2> HIDE DEF below
  <2> QED
    BY <2>1, <2>3, <1>2, FS_Subset, Zenon
<1>6. \A t, u \in S : f[t] = f[u] => t = u
  BY <1>5, S \subseteq Nat
<1>7. f \in Injection(S, 1 .. n)
  <2> HIDE DEF f
  <2> QED
    BY <1>4, <1>6 DEF Injection, IsInjective
<1>8. IsFiniteSet(1 .. n) /\ Cardinality(1 .. n) = n
  BY <1>1, FS_Interval
<1>9. f \in Surjection(S, 1 .. n)
  BY <1>7, <1>8, FS_Injection
<1> QED
  BY <1>9, Zenon DEF Surjection
-----------------------------------------------------------------------------
\* The slots in use and the closed connections can be counted.
LEMMA Finite ==
  /\ IsFiniteSet(Used) /\ Cardinality(Used) \in 0 .. MaxClients
  /\ IsFiniteSet(Closed) /\ Cardinality(Closed) \in 0 .. Cardinality(Conns)
  /\ Cardinality(Conns) \in Nat
  /\ \A a : IsFiniteSet(Closed \ {a}) /\ Cardinality(Closed \ {a}) \in Nat
<1>1. IsFiniteSet(Slot) /\ Cardinality(Slot) = MaxClients
  BY IpcAssumption, FS_Interval DEF Slot
<1>2. Used \in SUBSET Slot /\ Closed \in SUBSET Conns
  BY DEF Used, Closed
<1>3. /\ IsFiniteSet(Used) /\ Cardinality(Used) <= MaxClients
      /\ IsFiniteSet(Closed) /\ Cardinality(Closed) <= Cardinality(Conns)
  BY <1>1, <1>2, IpcAssumption, FS_Subset
<1>4. /\ Cardinality(Used) \in Nat /\ Cardinality(Closed) \in Nat
      /\ Cardinality(Conns) \in Nat
  BY <1>3, IpcAssumption, FS_CardinalityType
<1>5. \A a : IsFiniteSet(Closed \ {a}) /\ Cardinality(Closed \ {a}) \in Nat
  BY <1>3, FS_RemoveElement, FS_CardinalityType, Zenon
<1> QED
  BY <1>3, <1>4, <1>5, IpcAssumption

\* The slot an accepted connection takes is a free one.
LEMMA FirstFreeIsFree ==
  ASSUME Free # {}
  PROVE  FirstFree \in Free
<1>1. Free \subseteq Nat
  BY IpcAssumption DEF Free, Slot
<1>2. \E s \in Free : \A t \in Free : s <= t
  BY <1>1, LeastNatural, Zenon
<1> QED
  BY <1>2 DEF FirstFree

\* poll() reports on slots of the table.
LEMMA PolledType ==
  PollClients \in Seq(PolledSlot)
<1>1. IsFiniteSet(Used) /\ Used \subseteq Nat /\ Cardinality(Used) \in Nat
  BY Finite, IpcAssumption DEF Used, Slot
<1> DEFINE rank(s) == Cardinality({t \in Used : t <= s})
           entry(i) == LET s == CHOOSE t \in Used : rank(t) = i
                       IN [slot |-> s, in |-> Readable(slot[s]), hup |-> Hup(slot[s])]
<1>2. ASSUME NEW i \in 1 .. Cardinality(Used)
      PROVE  entry(i) \in PolledSlot
  <2>1. \E t \in Used : rank(t) = i
    BY <1>1, Ranks, Zenon
  <2> DEFINE s == CHOOSE t \in Used : rank(t) = i
  <2>2. s \in Used
    <3> HIDE DEF rank
    <3> QED
      BY <2>1
  <2>3. s \in Slot
    BY <2>2 DEF Used
  <2>4. Readable(slot[s]) \in BOOLEAN /\ Hup(slot[s]) \in BOOLEAN
    BY DEF Readable, Hup
  <2> HIDE DEF s
  <2>5. [slot |-> s, in |-> Readable(slot[s]), hup |-> Hup(slot[s])] \in PolledSlot
    BY <2>3, <2>4 DEF PolledSlot
  <2> QED
    BY <2>5 DEF s
<1>3. PollClients = [i \in 1 .. Cardinality(Used) |-> entry(i)]
  BY DEF PollClients
<1> HIDE DEF entry
<1>4. PollClients \in [1 .. Cardinality(Used) -> PolledSlot]
  BY <1>2, <1>3
<1> QED
  BY <1>1, <1>4
-----------------------------------------------------------------------------
(* What the operations on clients[] do to the table. *)

\* A bigger set of closed connections allows more double drops.
LEMMA ClosedGrows ==
  ASSUME NEW a, NEW b, Closed \ {a} \subseteq (Closed \ {b})'
  PROVE  Cardinality(Closed \ {a}) <= Cardinality((Closed \ {b})')
<1>1. IsFiniteSet((Closed \ {b})')
  <2>1. Closed' \in SUBSET Conns
    BY DEF Closed
  <2>2. IsFiniteSet(Closed')
    BY <2>1, IpcAssumption, FS_Subset
  <2> QED
    BY <2>2, FS_RemoveElement
<1> QED
  BY <1>1, FS_Subset

\* The closed connections can be counted after a step too.
LEMMA ClosedCounted ==
  Cardinality((Closed \ {asker})') \in Nat
<1>1. (Closed \ {asker})' \in SUBSET Conns
  BY DEF Closed
<1> QED
  BY <1>1, IpcAssumption, FS_Subset, FS_CardinalityType

\* A bound on the double drops that grows still bounds them.
LEMMA LessRoom ==
  ASSUME NEW u \in Int, NEW n \in Int, NEW a \in Nat, NEW b \in Nat,
         u - n <= a, a <= b
  PROVE  u - n <= b
OBVIOUS

\* Some clients are dropped: their slots are free and their connections closed.
LEMMA ClientsDropped ==
  ASSUME SlotTypes, OneSlotEach, NEW F \in SUBSET Used,
         slot' = [s \in Slot |-> IF s \in F THEN NoConn ELSE slot[s]],
         conn' = [c \in Conns |->
                    IF \E s \in F : slot[s] = c THEN "closed" ELSE conn[c]]
  PROVE  /\ slot' \in [Slot -> Conns \cup {NoConn}]
         /\ conn' \in [Conns -> ConnState]
         /\ OneSlotEach'
         /\ Cardinality(F) \in Nat
         /\ Cardinality(Used') = Cardinality(Used) - Cardinality(F)
         /\ Closed \subseteq Closed'
         /\ \A c \in Conns : conn'[c] \in {conn[c], "closed"}
<1>1. F \subseteq Slot /\ \A s \in F : slot[s] \in Conns
  BY DEF Used, SlotTypes
<1>2. slot' \in [Slot -> Conns \cup {NoConn}]
  BY DEF SlotTypes
<1>3. conn' \in [Conns -> ConnState]
  BY DEF SlotTypes, ConnState
<1>4. \A c \in Conns : conn'[c] = "open" <=> \E s \in Slot : slot'[s] = c
  <2> TAKE c \in Conns
  <2>1. ASSUME conn'[c] = "open"
        PROVE  \E s \in Slot : slot'[s] = c
    <3>1. conn[c] = "open" /\ ~\E s \in F : slot[s] = c
      BY <2>1
    <3>2. PICK s \in Slot : slot[s] = c
      BY <3>1 DEF OneSlotEach
    <3>3. slot'[s] = c
      BY <3>1, <3>2
    <3> QED
      BY <3>3
  <2>2. ASSUME NEW s \in Slot, slot'[s] = c
        PROVE  conn'[c] = "open"
    <3>1. s \notin F /\ slot[s] = c /\ c # NoConn
      BY <2>2, IpcAssumption
    <3>2. conn[c] = "open"
      BY <3>1 DEF OneSlotEach
    <3>3. ~\E t \in F : slot[t] = c
      BY <3>1, <1>1 DEF OneSlotEach
    <3> QED
      BY <3>2, <3>3
  <2> QED
    BY <2>1, <2>2
<1>5. \A s, t \in Slot : slot'[s] # NoConn /\ slot'[s] = slot'[t] => s = t
  BY DEF OneSlotEach
<1>6. Used' = Used \ F
  BY DEF Used
<1>7. IsFiniteSet(F) /\ Cardinality(F) \in Nat
  BY Finite, FS_Subset, FS_CardinalityType
<1>8. Cardinality(Used \ F) = Cardinality(Used) - Cardinality(F)
  <2>1. Used \cap F = F
    OBVIOUS
  <2> QED
    BY <2>1, Finite, FS_Difference, Zenon
<1>9. Closed \subseteq Closed'
  BY DEF Closed
<1>10. \A c \in Conns : conn'[c] \in {conn[c], "closed"}
  OBVIOUS
<1> QED
  BY <1>2, <1>3, <1>4, <1>5, <1>6, <1>7, <1>8, <1>9, <1>10 DEF OneSlotEach

\* The drop of a client that has a slot.
LEMMA ClientDropped ==
  ASSUME SlotTypes, OneSlotEach, NEW s \in Used, DropClient(s)
  PROVE  /\ SlotTypes'
         /\ OneSlotEach'
         /\ count' = count - 1
         /\ Cardinality(Used') = Cardinality(Used) - 1
         /\ Closed \subseteq Closed'
         /\ \A c \in Conns : conn'[c] \in {conn[c], "closed"}
<1>1. {s} \in SUBSET Used /\ s \in Slot
  BY DEF Used
<1>2. slot' = [t \in Slot |-> IF t \in {s} THEN NoConn ELSE slot[t]]
  BY Zenon DEF DropClient, SlotTypes
<1>3. conn' = [c \in Conns |-> IF \E t \in {s} : slot[t] = c THEN "closed" ELSE conn[c]]
  BY DEF DropClient
<1>4. Cardinality({s}) = 1
  BY FS_Singleton
<1>5. count' = count - 1 /\ count' \in Int
  BY DEF DropClient, SlotTypes
<1> QED
  BY <1>1, <1>2, <1>3, <1>4, <1>5, ClientsDropped DEF SlotTypes

\* ipc_drop_client of a slot that a broadcast has emptied changes the count only.
LEMMA EmptySlotDropped ==
  ASSUME SlotTypes, NEW s \in Slot, slot[s] = NoConn, DropClient(s)
  PROVE  slot' = slot /\ conn' = conn /\ count' = count - 1
<1>1. slot' = slot
  BY DEF DropClient, SlotTypes
<1>2. conn' = conn
  BY IpcAssumption DEF DropClient, SlotTypes
<1> QED
  BY <1>1, <1>2 DEF DropClient

\* An accepted connection gets a slot nobody has, or none at all.
LEMMA ClientAdmitted ==
  ASSUME SlotTypes, OneSlotEach, IpcCount, NEW c \in Conns, conn[c] = "backlog",
         Admit(c) \/ Reject(c), UNCHANGED asker
  PROVE  /\ SlotTypes'
         /\ OneSlotEach'
         /\ IpcCount'
         /\ conn' = [conn EXCEPT ![c] = conn'[c]]
         /\ conn'[c] \in {"open", "closed", "leaked"}
<1>1. \A s \in Slot : slot[s] # c
  BY DEF OneSlotEach
<1>2. CASE Free # {} /\ Admit(c)
  <2>1. FirstFree \in Slot /\ slot[FirstFree] = NoConn
    BY <1>2, FirstFreeIsFree DEF Free, Used
  <2> DEFINE f == FirstFree
  <2>2. /\ slot' = [slot EXCEPT ![f] = c]
        /\ conn' = [conn EXCEPT ![c] = "open"]
        /\ count' = count + 1
    BY <1>2 DEF Admit
  <2> HIDE DEF f
  <2>3. SlotTypes'
    <3>1. conn' \in [Conns -> ConnState]
      BY <2>2 DEF SlotTypes, ConnState
    <3>2. slot' \in [Slot -> Conns \cup {NoConn}]
      BY <2>2, Zenon DEF SlotTypes
    <3>3. count' \in Int
      BY <2>2 DEF SlotTypes
    <3> QED
      BY <3>1, <3>2, <3>3 DEF SlotTypes
  <2>4. \A d \in Conns : conn'[d] = "open" <=> \E s \in Slot : slot'[s] = d
    <3> TAKE d \in Conns
    <3>1. slot'[f] = c /\ \A s \in Slot : s # f => slot'[s] = slot[s]
      BY <2>1, <2>2 DEF SlotTypes, f
    <3>2. CASE d = c
      BY <3>1, <3>2, <2>1, <2>2 DEF SlotTypes, f
    <3>3. CASE d # c
      <4>1. (\E s \in Slot : slot'[s] = d) <=> (\E s \in Slot : slot[s] = d)
        BY <3>1, <3>3, <2>1, IpcAssumption DEF f
      <4> QED
        BY <3>3, <4>1, <2>2 DEF SlotTypes, OneSlotEach
    <3> QED
      BY <3>2, <3>3
  <2>5. \A s, t \in Slot : slot'[s] # NoConn /\ slot'[s] = slot'[t] => s = t
    BY <1>1, <2>1, <2>2 DEF SlotTypes, OneSlotEach, f
  <2>6. Used' = Used \cup {f} /\ f \notin Used
    BY <2>1, <2>2, IpcAssumption DEF SlotTypes, Used, f
  <2>7. Cardinality(Used') = Cardinality(Used) + 1
    BY <2>6, Finite, FS_AddElement, Zenon
  <2>8. Closed' = Closed
    BY <2>2 DEF Closed, SlotTypes
  <2>9. IpcCount'
    BY <2>2, <2>7, <2>8, Finite DEF IpcCount, SlotTypes
  <2> QED
    BY <2>2, <2>3, <2>4, <2>5, <2>9 DEF OneSlotEach, SlotTypes
<1>3. CASE \E st \in {"closed", "leaked"} :
             conn' = [conn EXCEPT ![c] = st] /\ UNCHANGED <<slot, count>>
  <2>1. PICK st \in {"closed", "leaked"} :
          conn' = [conn EXCEPT ![c] = st] /\ UNCHANGED <<slot, count>>
    BY <1>3, Zenon
  <2>2. SlotTypes'
    BY <2>1 DEF SlotTypes, ConnState
  <2>3. \A d \in Conns : conn'[d] = "open" <=> \E s \in Slot : slot'[s] = d
    BY <1>1, <2>1 DEF SlotTypes, OneSlotEach
  <2>4. Closed \ {asker} \subseteq (Closed \ {asker})'
    BY <2>1 DEF Closed, SlotTypes
  <2>5. Cardinality(Closed \ {asker}) <= Cardinality((Closed \ {asker})')
    BY <2>4, ClosedGrows, Zenon
  <2>6. Used' = Used
    BY <2>1 DEF Used
  <2>7. Cardinality((Closed \ {asker})') \in Nat
    BY ClosedCounted
  <2>8. IpcCount'
    <3>1. /\ count \in Int /\ count' = count
          /\ count <= Cardinality(Used)
          /\ Cardinality(Used) - count <= Cardinality(Closed \ {asker})
      BY <2>1 DEF IpcCount, SlotTypes
    <3>2. Cardinality(Used) - count <= Cardinality((Closed \ {asker})')
      <4>1. Cardinality(Used) \in Int /\ Cardinality(Closed \ {asker}) \in Nat
        BY Finite
      <4> QED
        BY <4>1, <3>1, <2>5, <2>7, LessRoom, Zenon
    <3> QED
      BY <3>1, <3>2, <2>6 DEF IpcCount
  <2> QED
    BY <2>1, <2>2, <2>3, <2>8 DEF OneSlotEach, SlotTypes
<1> QED
  BY <1>2, <1>3 DEF Admit, Reject

\* ps_ipc_server_broadcast closes the clients it cannot write to, each counted
\* once.
LEMMA Broadcasts ==
  ASSUME SlotTypes, OneSlotEach, AskerSlot, IpcCount, BufferTypes,
         Broadcast, UNCHANGED <<pc, polled, asker>>
  PROVE  /\ SlotTypes' /\ OneSlotEach' /\ AskerSlot' /\ IpcCount'
         /\ \A c \in Conns : conn'[c] \in {conn[c], "closed"}
<1>1. PICK F \in SUBSET Used :
        /\ slot' = [s \in Slot |-> IF s \in F THEN NoConn ELSE slot[s]]
        /\ count' = count - Cardinality(F)
        /\ conn' = [c \in Conns |->
                      IF \E s \in F : slot[s] = c THEN "closed" ELSE conn[c]]
  BY DEF Broadcast, Doubtful
<1>2. /\ slot' \in [Slot -> Conns \cup {NoConn}]
      /\ conn' \in [Conns -> ConnState]
      /\ OneSlotEach'
      /\ Cardinality(F) \in Nat
      /\ Cardinality(Used') = Cardinality(Used) - Cardinality(F)
      /\ Closed \subseteq Closed'
      /\ \A c \in Conns : conn'[c] \in {conn[c], "closed"}
  BY <1>1, ClientsDropped
<1>3. SlotTypes'
  BY <1>1, <1>2 DEF SlotTypes
<1>4. AskerSlot'
  <2> SUFFICES ASSUME pc = "parse"
               PROVE  /\ conn'[asker] \in {"open", "closed"}
                      /\ slot'[Current.slot] =
                           IF conn'[asker] = "open" THEN asker ELSE NoConn
    BY DEF AskerSlot, Current
  <2>1. /\ asker \in Conns /\ asker # NoConn
        /\ Current \in PolledSlot
    BY HeadTailProperties, IpcAssumption DEF BufferTypes, Current
  <2>2. Current.slot \in Slot
    BY <2>1 DEF PolledSlot
  <2> DEFINE k == Current.slot
  <2>3. /\ conn[asker] \in {"open", "closed"}
        /\ slot[k] = IF conn[asker] = "open" THEN asker ELSE NoConn
    BY DEF AskerSlot
  <2> HIDE DEF k
  <2>4. k \in Slot
    BY <2>2 DEF k
  <2>5. CASE conn[asker] = "closed"
    <3>1. conn'[asker] = "closed"
      BY <2>1, <2>5, <1>2
    <3>2. slot'[k] = NoConn
      BY <2>3, <2>4, <2>5, <1>1
    <3> QED
      BY <3>1, <3>2 DEF k
  <2>6. CASE conn[asker] = "open" /\ k \in F
    <3>1. conn'[asker] = "closed"
      BY <2>1, <2>3, <2>6, <1>1
    <3>2. slot'[k] = NoConn
      BY <2>4, <2>6, <1>1
    <3> QED
      BY <3>1, <3>2 DEF k
  <2>7. CASE conn[asker] = "open" /\ k \notin F
    <3>1. \A s \in F : slot[s] # asker
      BY <2>1, <2>3, <2>4, <2>7 DEF OneSlotEach, Used
    <3>2. conn'[asker] = "open"
      BY <2>1, <2>7, <3>1, <1>1
    <3>3. slot'[k] = asker
      BY <2>3, <2>4, <2>7, <1>1
    <3> QED
      BY <3>2, <3>3 DEF k
  <2> QED
    BY <2>3, <2>5, <2>6, <2>7
<1>5. IpcCount'
  <2>1. Closed \ {asker} \subseteq (Closed \ {asker})'
    BY <1>2
  <2>2. Cardinality(Closed \ {asker}) <= Cardinality((Closed \ {asker})')
    BY <2>1, ClosedGrows, Zenon
  <2>3. Cardinality((Closed \ {asker})') \in Nat
    BY ClosedCounted
  <2>4. /\ Cardinality(Used') - count' = Cardinality(Used) - count
        /\ count' <= Cardinality(Used')
        /\ Cardinality(Used') \in Int /\ count' \in Int
    BY <1>1, <1>2, Finite DEF IpcCount, SlotTypes
  <2>5. Cardinality(Used') - count' <= Cardinality(Closed \ {asker})
    BY <2>4 DEF IpcCount
  <2>6. Cardinality(Closed \ {asker}) \in Nat
    BY Finite
  <2>7. Cardinality(Used') - count' <= Cardinality((Closed \ {asker})')
    BY <2>2, <2>3, <2>4, <2>5, <2>6, LessRoom, Zenon
  <2> QED
    BY <2>4, <2>7 DEF IpcCount
<1> QED
  BY <1>2, <1>3, <1>4, <1>5

\* The client being served is dropped, outside its buffer or because of a
\* framing error in it; in the second case it may be the second time.
LEMMA ServedDropped ==
  ASSUME SlotTypes, OneSlotEach, AskerSlot, IpcCount, BufferTypes,
         polled # <<>>, DropClient(Current.slot), asker' = NoConn,
         \/ pc = "parse"
         \/ pc = "serve" /\ slot[Current.slot] # NoConn
  PROVE  /\ SlotTypes' /\ OneSlotEach' /\ IpcCount'
         /\ \A c \in Conns : conn'[c] \in {conn[c], "closed"}
         /\ asker # NoConn => conn'[asker] = "closed"
<1>1. Current.slot \in Slot
  <2>1. Current \in PolledSlot
    BY HeadTailProperties DEF BufferTypes, Current
  <2> QED
    BY <2>1 DEF PolledSlot
<1> DEFINE k == Current.slot
<1>2. k \in Slot /\ DropClient(k)
  BY <1>1
<1>3. pc = "parse" => /\ asker \in Conns
                      /\ conn[asker] \in {"open", "closed"}
                      /\ slot[k] = IF conn[asker] = "open" THEN asker ELSE NoConn
  BY DEF AskerSlot, BufferTypes
<1>4. pc = "serve" => asker = NoConn /\ slot[k] # NoConn
  BY DEF BufferTypes
<1> HIDE DEF k
<1>5. /\ NoConn \notin Closed /\ NoConn \notin Closed'
      /\ (Closed \ {asker})' = Closed'
  BY IpcAssumption DEF Closed
<1>6. Cardinality(Closed') \in Nat
  BY <1>5, ClosedCounted, Zenon
<1>7. CASE slot[k] # NoConn
  <2>1. k \in Used
    BY <1>2, <1>7 DEF Used
  <2>2. /\ SlotTypes' /\ OneSlotEach'
        /\ count' = count - 1
        /\ Cardinality(Used') = Cardinality(Used) - 1
        /\ Closed \subseteq Closed'
        /\ \A c \in Conns : conn'[c] \in {conn[c], "closed"}
    BY <2>1, <1>2, ClientDropped
  <2>3. asker # NoConn => conn'[asker] = "closed"
    <3> SUFFICES ASSUME asker # NoConn
                 PROVE  conn'[asker] = "closed"
      OBVIOUS
    <3>1. asker \in Conns /\ slot[k] = asker
      BY <1>3, <1>4, <1>7
    <3> QED
      BY <3>1, <1>2 DEF DropClient
  <2>4. Cardinality(Closed \ {asker}) <= Cardinality((Closed \ {asker})')
    BY <2>2, <1>5, ClosedGrows, Zenon
  <2>5. /\ Cardinality(Used') - count' = Cardinality(Used) - count
        /\ count' <= Cardinality(Used')
        /\ Cardinality(Used') \in Int /\ count' \in Int
    BY <2>2, Finite DEF IpcCount, SlotTypes
  <2>6. Cardinality(Used') - count' <= Cardinality(Closed \ {asker})
    BY <2>5 DEF IpcCount
  <2>7. Cardinality(Closed \ {asker}) \in Nat
    BY Finite
  <2>8. Cardinality(Used') - count' <= Cardinality((Closed \ {asker})')
    BY <2>4, <2>5, <2>6, <2>7, <1>5, <1>6, LessRoom, Zenon
  <2>9. IpcCount'
    BY <2>5, <2>8 DEF IpcCount
  <2> QED
    BY <2>2, <2>3, <2>9
<1>8. CASE slot[k] = NoConn
  <2>1. pc = "parse" /\ asker \in Conns /\ conn[asker] = "closed"
    BY <1>3, <1>4, <1>8, IpcAssumption
  <2>2. slot' = slot /\ conn' = conn /\ count' = count - 1
    BY <1>2, <1>8, EmptySlotDropped
  <2>3. Used' = Used /\ Closed' = Closed /\ asker \in Closed
    BY <2>1, <2>2 DEF Used, Closed
  <2>4. Cardinality(Closed \ {asker}) = Cardinality(Closed) - 1
    BY <2>3, Finite, FS_RemoveElement, Zenon
  <2>5. SlotTypes' /\ OneSlotEach'
    BY <2>2 DEF SlotTypes, OneSlotEach
  <2>6. /\ count \in Int /\ Cardinality(Used) \in Int /\ Cardinality(Closed) \in Nat
        /\ count <= Cardinality(Used)
        /\ Cardinality(Used) - count <= Cardinality(Closed) - 1
    BY <2>4, Finite DEF SlotTypes, IpcCount
  <2>7. count' <= Cardinality(Used) /\ Cardinality(Used) - count' <= Cardinality(Closed)
    BY <2>2, <2>6
  <2>8. IpcCount'
    BY <2>3, <2>7, <1>5, Zenon DEF IpcCount
  <2> QED
    BY <2>1, <2>2, <2>5, <2>8
<1> QED
  BY <1>7, <1>8
-----------------------------------------------------------------------------
(* The frames of a client on their way to the handler. *)

\* A client whose frames nobody touches keeps them.
LEMMA FramesUntouched ==
  ASSUME IpcFrames,
         \A c \in Conns : Unclosed(c)' =>
           /\ Unclosed(c)
           /\ handled'[c] = handled[c] /\ sent'[c] = sent[c]
           /\ inbox'[c] = inbox[c] /\ Parsing(c)' = Parsing(c)
  PROVE  IpcFrames'
BY DEF IpcFrames, Numbered

\* The next frame of a client carries the next number.
LEMMA FrameSent ==
  ASSUME BufferTypes, IpcFrames, NEW c \in Conns, SendFrame(c)
  PROVE  BufferTypes' /\ IpcFrames'
<1>1. PICK k \in FrameKinds :
        inbox' = [inbox EXCEPT ![c] = Append(@, [kind |-> k, n |-> sent[c] + 1])]
  BY Zenon DEF SendFrame
<1> DEFINE m == [kind |-> k, n |-> sent[c] + 1]
<1>2. sent[c] \in Nat /\ inbox[c] \in Seq(Frame) /\ handled[c] \in Nat /\ rest \in Seq(Frame)
  BY DEF BufferTypes
<1>3. m \in Frame /\ m.n = sent[c] + 1
  BY <1>2 DEF Frame
<1>4. /\ sent' = [sent EXCEPT ![c] = sent[c] + 1]
      /\ UNCHANGED <<conn, pc, polled, rest, asker, handled>>
  BY DEF SendFrame, serverVars
<1>5. inbox' = [inbox EXCEPT ![c] = Append(inbox[c], m)]
  BY <1>1
<1> HIDE DEF m
<1>6. Append(inbox[c], m) \in Seq(Frame)
  BY <1>2, <1>3
<1>7. inbox' \in [Conns -> Seq(Frame)] /\ sent' \in [Conns -> Nat]
  BY <1>2, <1>4, <1>5, <1>6 DEF BufferTypes
<1>8. BufferTypes'
  BY <1>4, <1>7 DEF BufferTypes
<1>9. ASSUME NEW d \in Conns, Unclosed(d)'
      PROVE  Numbered(d)'
  <2>1. Numbered(d)
    BY <1>4, <1>9 DEF IpcFrames, Unclosed
  <2>2. Parsing(d)' = Parsing(d) /\ handled'[d] = handled[d]
    BY <1>4 DEF Parsing
  <2>3. CASE d = c
    <3>1. Len(Parsing(c)) \in Nat
      BY <1>2 DEF Parsing
    <3>2. inbox'[c] = Append(inbox[c], m) /\ sent'[c] = sent[c] + 1
      BY <1>4, <1>5 DEF BufferTypes
    <3>3. /\ Len(inbox'[c]) = Len(inbox[c]) + 1 /\ Len(inbox[c]) \in Nat
          /\ \A i \in 1 .. Len(inbox[c]) : inbox'[c][i] = inbox[c][i]
          /\ inbox'[c][Len(inbox[c]) + 1] = m
      BY <1>2, <1>3, <3>2
    <3>4. handled[c] + Len(Parsing(c)) + Len(inbox'[c]) = sent'[c]
      BY <2>1, <2>3, <3>1, <3>2, <3>3, <1>2 DEF Numbered
    <3>5. ASSUME NEW i \in 1 .. Len(inbox'[c])
          PROVE  inbox'[c][i].n = handled[c] + Len(Parsing(c)) + i
      <4>1. CASE i \in 1 .. Len(inbox[c])
        BY <4>1, <2>1, <2>3, <3>3, Zenon DEF Numbered
      <4>2. CASE i = Len(inbox[c]) + 1
        BY <4>2, <2>1, <2>3, <3>1, <3>3, <1>2, <1>3 DEF Numbered
      <4> QED
        BY <4>1, <4>2, <3>3
    <3> QED
      BY <2>1, <2>2, <2>3, <3>4, <3>5 DEF Numbered
  <2>4. CASE d # c
    <3>1. inbox'[d] = inbox[d] /\ sent'[d] = sent[d]
      BY <2>4, <1>4, <1>5 DEF BufferTypes
    <3> QED
      BY <2>1, <2>2, <3>1 DEF Numbered
  <2> QED
    BY <2>3, <2>4
<1> QED
  BY <1>8, <1>9 DEF IpcFrames

\* What one read takes is the beginning of what the client has sent.
LEMMA BufferSplit ==
  ASSUME NEW c \in Conns, inbox[c] \in Seq(Frame), inbox[c] # <<>>
  PROVE  LET b == BufferOf(c)
             r == SubSeq(inbox[c], Len(b) + 1, Len(inbox[c]))
         IN  /\ b \in Seq(Frame) /\ r \in Seq(Frame)
             /\ Len(b) + Len(r) = Len(inbox[c])
             /\ \A i \in 1 .. Len(b) : b[i] = inbox[c][i]
             /\ \A i \in 1 .. Len(r) : r[i] = inbox[c][Len(b) + i]
<1> DEFINE s == inbox[c]
           b == BufferOf(c)
           r == SubSeq(s, Len(b) + 1, Len(s))
<1>1. s \in Seq(Frame) /\ Len(s) \in Nat /\ Len(s) >= 1 /\ Head(s) = s[1]
  BY EmptySeq, HeadTailProperties
<1>2. /\ b \in Seq(Frame) /\ Len(b) \in 1 .. Len(s)
      /\ \A i \in 1 .. Len(b) : b[i] = s[i]
  <2>1. CASE c \in TlsConns
    <3>1. b = <<s[1]>>
      BY <2>1, <1>1 DEF BufferOf
    <3>2. s[1] \in Frame
      BY <1>1, ElementOfSeq
    <3> HIDE DEF b, s
    <3> QED
      BY <1>1, <3>1, <3>2
  <2>2. CASE c \notin TlsConns
    <3>1. b = s
      BY <2>2 DEF BufferOf
    <3> HIDE DEF b, s
    <3> QED
      BY <1>1, <3>1
  <2> QED
    BY <2>1, <2>2
<1> HIDE DEF b, s
<1>3. /\ r \in Seq(Frame) /\ Len(r) = Len(s) - Len(b)
      /\ \A i \in 1 .. Len(r) : r[i] = s[Len(b) + i]
  <2>1. Len(b) + 1 \in 1 .. Len(s) + 1 /\ Len(s) \in Len(b) .. Len(s)
    BY <1>1, <1>2
  <2>2. r \in Seq(Frame)
    BY <2>1, <1>1, <1>2, SubSeqProperties
  <2>3. Len(r) = Len(s) - Len(b)
    BY <2>1, <1>1, <1>2
  <2>4. ASSUME NEW i \in 1 .. Len(r)
        PROVE  r[i] = s[Len(b) + i]
    BY <2>1, <2>3, <1>1, <1>2
  <2> QED
    BY <2>2, <2>3, <2>4
<1>4. Len(b) + Len(r) = Len(s)
  BY <1>1, <1>2, <1>3
<1> QED
  BY <1>2, <1>3, <1>4 DEF b, s

\* Sums of the counters that number frames.
LEMMA Sums ==
  ASSUME NEW h \in Nat, NEW l \in Nat, NEW i \in Nat
  PROVE  h + 0 + (l + i) = h + l + i /\ h + 0 + i = h + i /\ h + (i + 1) = h + 1 + i
OBVIOUS

\* One read moves the beginning of the client's frames into the buffer.
LEMMA FramesRead ==
  ASSUME BufferTypes, IpcFrames, NEW c \in Conns, pc = "serve", polled # <<>>,
         inbox[c] # <<>>,
         rest' = BufferOf(c), asker' = c, pc' = "parse",
         inbox' = [inbox EXCEPT ![c] = SubSeq(@, Len(BufferOf(c)) + 1, Len(@))],
         UNCHANGED <<conn, polled, sent, handled>>
  PROVE  BufferTypes' /\ IpcFrames'
<1> DEFINE b == BufferOf(c)
           r == SubSeq(inbox[c], Len(b) + 1, Len(inbox[c]))
<1>1. /\ inbox[c] \in Seq(Frame) /\ handled[c] \in Nat /\ asker = NoConn /\ rest = <<>>
      /\ c # NoConn
  BY IpcAssumption DEF BufferTypes
<1>2. /\ b \in Seq(Frame) /\ r \in Seq(Frame)
      /\ Len(b) + Len(r) = Len(inbox[c])
      /\ \A i \in 1 .. Len(b) : b[i] = inbox[c][i]
      /\ \A i \in 1 .. Len(r) : r[i] = inbox[c][Len(b) + i]
  BY <1>1, BufferSplit, Zenon
<1>3. inbox' = [inbox EXCEPT ![c] = r] /\ rest' = b
  OBVIOUS
<1> HIDE DEF b, r
<1>4. inbox' \in [Conns -> Seq(Frame)]
  BY <1>2, <1>3, Zenon DEF BufferTypes
<1>5. BufferTypes'
  BY <1>1, <1>2, <1>3, <1>4 DEF BufferTypes
<1>6. ASSUME NEW d \in Conns, Unclosed(d)'
      PROVE  Numbered(d)'
  <2>1. Numbered(d)
    BY <1>6 DEF IpcFrames, Unclosed
  <2>2. Parsing(d) = <<>> /\ Len(Parsing(d)) = 0
    BY <1>1, IpcAssumption DEF Parsing
  <2>3. CASE d = c
    <3>1. Parsing(c)' = b /\ inbox'[c] = r
      BY <1>3 DEF Parsing, BufferTypes
    <3>2. Len(b) \in Nat /\ Len(r) \in Nat /\ Len(inbox[c]) \in Nat
      BY <1>1, <1>2
    <3>3. /\ handled[c] + 0 + Len(inbox[c]) = sent[c]
          /\ \A i \in 1 .. Len(inbox[c]) : inbox[c][i].n = handled[c] + 0 + i
      BY <2>1, <2>2, <2>3 DEF Numbered
    <3>4. handled[c] + Len(b) + Len(r) = sent[c]
      BY <3>2, <3>3, <1>1, <1>2
    <3>5. ASSUME NEW i \in 1 .. Len(b)
          PROVE  b[i].n = handled[c] + i
      <4>1. i \in 1 .. Len(inbox[c]) /\ i \in Nat
        BY <3>2, <1>2
      <4>2. inbox[c][i].n = handled[c] + 0 + i
        BY <4>1, <3>3, Zenon
      <4>3. handled[c] + 0 + i = handled[c] + i
        BY <4>1, <1>1, Sums
      <4> QED
        BY <4>2, <4>3, <1>2, Zenon
    <3>6. ASSUME NEW i \in 1 .. Len(r)
          PROVE  r[i].n = handled[c] + Len(b) + i
      <4>1. Len(b) + i \in 1 .. Len(inbox[c])
        BY <3>2, <1>2
      <4>2. inbox[c][Len(b) + i].n = handled[c] + 0 + (Len(b) + i)
        BY <4>1, <3>3, Zenon
      <4>3. handled[c] + 0 + (Len(b) + i) = handled[c] + Len(b) + i
        BY <3>2, <1>1, Sums
      <4> QED
        BY <4>2, <4>3, <1>2, Zenon
    <3> QED
      BY <2>3, <3>1, <3>4, <3>5, <3>6, Zenon DEF Numbered
  <2>4. CASE d # c
    <3>1. inbox'[d] = inbox[d] /\ Parsing(d)' = Parsing(d)
      BY <2>2, <2>4, <1>3 DEF Parsing, BufferTypes
    <3> QED
      BY <2>1, <3>1, Zenon DEF Numbered
  <2> QED
    BY <2>3, <2>4
<1> QED
  BY <1>5, <1>6 DEF IpcFrames

\* The frame given to the handler is the next one of its client.
LEMMA FrameHandled ==
  ASSUME BufferTypes, AskerSlot, IpcFrames, HandleFrame,
         \A c \in Conns : conn'[c] \in {conn[c], "closed"}
  PROVE  BufferTypes' /\ IpcFrames'
<1>1. /\ pc = "parse" /\ rest # <<>> /\ rest' = Tail(rest)
      /\ handled' = [handled EXCEPT ![asker] = Head(rest).n]
      /\ UNCHANGED <<inbox, sent, pc, polled, asker>>
  BY DEF HandleFrame, clientVars
<1>2. asker \in Conns /\ asker # NoConn
  BY <1>1 DEF BufferTypes
<1>3. /\ rest \in Seq(Frame) /\ Len(rest) \in Nat /\ Len(rest) >= 1
      /\ Head(rest) = rest[1] /\ Head(rest) \in Frame
      /\ Tail(rest) \in Seq(Frame) /\ Len(Tail(rest)) = Len(rest) - 1
      /\ \A i \in 1 .. Len(Tail(rest)) : Tail(rest)[i] = rest[i + 1]
  BY <1>1, EmptySeq, HeadTailProperties DEF BufferTypes
<1>4. Head(rest).n \in Nat
  BY <1>3 DEF Frame
<1>5. handled' \in [Conns -> Nat]
  BY <1>1, <1>2, <1>4 DEF BufferTypes
<1>6. BufferTypes'
  BY <1>1, <1>2, <1>3, <1>5 DEF BufferTypes
<1>7. ASSUME NEW d \in Conns, Unclosed(d)'
      PROVE  Numbered(d)'
  <2>1. Numbered(d)
    BY <1>7 DEF IpcFrames, Unclosed
  <2>2. CASE d = asker
    <3>1. Parsing(d) = rest /\ Parsing(d)' = Tail(rest)
      BY <2>2, <1>1 DEF Parsing
    <3>2. /\ handled[d] \in Nat /\ inbox[d] \in Seq(Frame) /\ Len(inbox[d]) \in Nat
          /\ inbox'[d] = inbox[d] /\ sent'[d] = sent[d]
      BY <1>1 DEF BufferTypes
    <3>3. /\ handled[d] + Len(rest) + Len(inbox[d]) = sent[d]
          /\ \A i \in 1 .. Len(rest) : rest[i].n = handled[d] + i
          /\ \A i \in 1 .. Len(inbox[d]) : inbox[d][i].n = handled[d] + Len(rest) + i
      BY <2>1, <3>1 DEF Numbered
    <3>4. handled'[d] = handled[d] + 1
      <4>1. rest[1].n = handled[d] + 1
        BY <3>3, <1>3
      <4> QED
        BY <4>1, <2>2, <1>1, <1>3 DEF BufferTypes
    <3>5. handled'[d] + Len(Tail(rest)) + Len(inbox[d]) = sent[d]
      BY <3>2, <3>3, <3>4, <1>3
    <3>6. ASSUME NEW i \in 1 .. Len(Tail(rest))
          PROVE  Tail(rest)[i].n = handled'[d] + i
      <4>1. i + 1 \in 1 .. Len(rest) /\ i \in Nat
        <5>1. i \in 1 .. Len(rest) - 1 /\ Len(rest) \in Nat
          BY <1>3
        <5> QED
          BY <5>1
      <4>2. rest[i + 1].n = handled[d] + (i + 1)
        BY <4>1, <3>3, Zenon
      <4>3. handled[d] + (i + 1) = handled[d] + 1 + i
        BY <4>1, <3>2, Sums, Zenon
      <4> QED
        BY <4>2, <4>3, <3>4, <1>3, Zenon
    <3>7. ASSUME NEW i \in 1 .. Len(inbox[d])
          PROVE  inbox[d][i].n = handled'[d] + Len(Tail(rest)) + i
      <4>1. inbox[d][i].n = handled[d] + Len(rest) + i
        BY <3>3
      <4> QED
        BY <4>1, <3>2, <3>4, <1>3
    <3> QED
      BY <3>1, <3>2, <3>5, <3>6, <3>7 DEF Numbered
  <2>3. CASE d # asker
    <3>1. /\ Parsing(d)' = Parsing(d) /\ handled'[d] = handled[d]
          /\ inbox'[d] = inbox[d] /\ sent'[d] = sent[d]
      BY <2>3, <1>1, <1>2 DEF Parsing, BufferTypes
    <3> QED
      BY <2>1, <3>1 DEF Numbered
  <2> QED
    BY <2>2, <2>3
<1> QED
  BY <1>6, <1>7 DEF IpcFrames
-----------------------------------------------------------------------------
\* The invariant holds initially.
LEMMA IpcInit == Init => IpcInv
<1> SUFFICES ASSUME Init PROVE IpcInv
  OBVIOUS
<1>1. SlotTypes
  BY DEF Init, SlotTypes, ConnState
<1>2. BufferTypes
  BY DEF Init, BufferTypes
<1>3. OneSlotEach
  BY IpcAssumption DEF Init, OneSlotEach
<1>4. AskerSlot
  BY DEF Init, AskerSlot
<1>5. IpcCount
  <2>1. Used = {}
    BY DEF Init, Used
  <2>2. Cardinality(Used) = 0 /\ count = 0 /\ Cardinality(Closed \ {asker}) \in Nat
    BY <2>1, Finite, FS_EmptySet, Zenon DEF Init
  <2> QED
    BY <2>2 DEF IpcCount
<1>6. IpcFrames
  <2> SUFFICES ASSUME NEW c \in Conns PROVE Numbered(c)
    BY DEF IpcFrames
  <2>1. /\ Parsing(c) = <<>> /\ inbox[c] = <<>> /\ handled[c] = 0 /\ sent[c] = 0
        /\ Len(<<>>) = 0
    BY DEF Init, Parsing
  <2> QED
    BY <2>1 DEF Numbered
<1> QED
  BY <1>1, <1>2, <1>3, <1>4, <1>5, <1>6 DEF IpcInv

\* A step that leaves the connections, the slots and the asker alone keeps what
\* the invariant says of them.
LEMMA SlotsUntouched ==
  ASSUME SlotTypes, OneSlotEach, IpcCount, UNCHANGED <<conn, slot, count>>,
         asker' = asker \/ asker' = NoConn \/ (asker' \in Conns /\ asker' \notin Closed)
  PROVE  SlotTypes' /\ OneSlotEach' /\ IpcCount'
<1>1. SlotTypes' /\ OneSlotEach'
  BY DEF SlotTypes, OneSlotEach
<1>2. Closed \ {asker} \subseteq (Closed \ {asker})' /\ Used' = Used
  BY IpcAssumption DEF Closed, Used
<1>3. Cardinality(Closed \ {asker}) <= Cardinality((Closed \ {asker})')
  BY <1>2, ClosedGrows, Zenon
<1>4. /\ count \in Int /\ Cardinality(Used) \in Int
      /\ Cardinality(Closed \ {asker}) \in Nat
  <2>1. Cardinality(Used) \in 0 .. MaxClients /\ Cardinality(Closed \ {asker}) \in Nat
    BY Finite, Zenon
  <2>2. Cardinality(Used) \in Int
    BY <2>1
  <2> QED
    BY <2>1, <2>2, Zenon DEF SlotTypes
<1>5. Cardinality(Used) - count <= Cardinality((Closed \ {asker})')
  BY <1>3, <1>4, ClosedCounted, LessRoom, Zenon DEF IpcCount
<1>6. IpcCount'
  BY <1>2, <1>5 DEF IpcCount
<1> QED
  BY <1>1, <1>6

\* What clients do keeps the invariant.
LEMMA ClientSteps ==
  ASSUME IpcInv, NEW c \in Conns, Client(c)
  PROVE  IpcInv'
<1> USE DEF IpcInv
<1>1. CASE Connect(c)
  <2>1. /\ conn[c] = "new" /\ conn' = [conn EXCEPT ![c] = "backlog"]
        /\ UNCHANGED <<inbox, sent, slot, count, pc, polled, rest, asker, handled>>
    BY <1>1 DEF Connect, clientVars, serverVars
  <2>2. SlotTypes'
    BY <2>1 DEF SlotTypes, ConnState
  <2>3. BufferTypes'
    BY <2>1 DEF BufferTypes
  <2>4. OneSlotEach'
    BY <2>1 DEF OneSlotEach, SlotTypes
  <2>5. AskerSlot'
    <3> SUFFICES ASSUME pc = "parse"
                 PROVE  AskerSlot'
      BY <2>1 DEF AskerSlot
    <3>1. asker \in Conns /\ asker # c
      BY <2>1 DEF AskerSlot, BufferTypes
    <3>2. conn'[asker] = conn[asker] /\ Current' = Current
      BY <3>1, <2>1 DEF SlotTypes, Current
    <3> QED
      BY <3>2, <2>1 DEF AskerSlot
  <2>6. IpcCount'
    <3>1. Closed' = Closed /\ Used' = Used
      BY <2>1 DEF Closed, Used, SlotTypes
    <3> QED
      BY <3>1, <2>1 DEF IpcCount
  <2>7. IpcFrames'
    <3>1. \A d \in Conns : Unclosed(d)' => Unclosed(d) /\ Parsing(d)' = Parsing(d)
      BY <2>1 DEF Unclosed, Parsing, SlotTypes
    <3> QED
      BY <3>1, <2>1, FramesUntouched
  <2> QED
    BY <2>2, <2>3, <2>4, <2>5, <2>6, <2>7
<1>2. CASE SendFrame(c)
  <2>1. BufferTypes' /\ IpcFrames'
    BY <1>2, FrameSent
  <2>2. UNCHANGED <<conn, slot, count, pc, polled, asker>>
    BY <1>2 DEF SendFrame, serverVars
  <2>3. SlotTypes' /\ OneSlotEach' /\ IpcCount'
    BY <2>2, SlotsUntouched
  <2>4. AskerSlot'
    BY <2>2 DEF AskerSlot, Current
  <2> QED
    BY <2>1, <2>3, <2>4
<1>3. CASE HangUp(c)
  <2>1. UNCHANGED <<conn, inbox, sent, slot, count, pc, polled, rest, asker, handled>>
    BY <1>3 DEF HangUp, serverVars
  <2>2. SlotTypes' /\ OneSlotEach' /\ IpcCount'
    BY <2>1, SlotsUntouched
  <2>3. BufferTypes' /\ AskerSlot'
    BY <2>1 DEF BufferTypes, AskerSlot, Current
  <2>4. IpcFrames'
    BY <2>1, FramesUntouched DEF Unclosed, Parsing
  <2> QED
    BY <2>2, <2>3, <2>4
<1> QED
  BY <1>1, <1>2, <1>3 DEF Client

\* An accepted connection keeps the invariant: it is open or closed, and it is
\* not the one whose buffer is parsed.
LEMMA Accepted ==
  ASSUME IpcInv, NEW c \in Backlog, Admit(c) \/ Reject(c), pc \in {"unix", "tcp"},
         pc' \in {"tcp", "serve"},
         UNCHANGED <<inbox, sent, polled, rest, asker, handled>>
  PROVE  IpcInv'
<1> USE DEF IpcInv
<1>1. c \in Conns /\ conn[c] = "backlog"
  BY DEF Backlog
<1>2. /\ SlotTypes' /\ OneSlotEach' /\ IpcCount'
      /\ conn' = [conn EXCEPT ![c] = conn'[c]]
  BY <1>1, ClientAdmitted
<1>3. BufferTypes' /\ AskerSlot'
  BY DEF BufferTypes, AskerSlot
<1>4. \A d \in Conns : Unclosed(d)' => Unclosed(d) /\ Parsing(d)' = Parsing(d)
  BY <1>1, <1>2 DEF Unclosed, Parsing, SlotTypes
<1>5. IpcFrames'
  BY <1>4, FramesUntouched, Zenon
<1> QED
  BY <1>2, <1>3, <1>5

\* A step of the loop that only moves its program counter keeps the invariant.
LEMMA LoopMoves ==
  ASSUME IpcInv, pc # "parse", pc' \in {"loop", "unix", "tcp", "serve"},
         polled' \in Seq(PolledSlot),
         UNCHANGED <<conn, inbox, sent, slot, count, rest, asker, handled>>
  PROVE  IpcInv'
<1> USE DEF IpcInv
<1>1. SlotTypes' /\ OneSlotEach' /\ IpcCount'
  BY SlotsUntouched
<1>2. BufferTypes' /\ AskerSlot'
  BY DEF BufferTypes, AskerSlot
<1>3. IpcFrames'
  BY FramesUntouched DEF Unclosed, Parsing
<1> QED
  BY <1>1, <1>2, <1>3

\* The client being served is done with: what it sent is parsed or, when it is
\* dropped, of no account.
LEMMA Served ==
  ASSUME IpcInv, polled # <<>>, SlotTypes', OneSlotEach', IpcCount',
         pc \in {"serve", "parse"}, pc' = "serve", asker' = NoConn, rest' = <<>>,
         polled' = Tail(polled), UNCHANGED <<inbox, sent, handled>>,
         \A c \in Conns : conn'[c] \in {conn[c], "closed"},
         rest = <<>> \/ conn'[asker] = "closed"
  PROVE  IpcInv'
<1> USE DEF IpcInv
<1>1. Tail(polled) \in Seq(PolledSlot)
  BY HeadTailProperties DEF BufferTypes
<1>2. AskerSlot'
  BY DEF AskerSlot
<1>5. BufferTypes'
  <2>1. /\ inbox' \in [Conns -> Seq(Frame)] /\ sent' \in [Conns -> Nat]
        /\ handled' \in [Conns -> Nat]
    BY DEF BufferTypes
  <2>2. rest' \in Seq(Frame) /\ polled' \in Seq(PolledSlot)
    BY <1>1
  <2>3. /\ asker' = NoConn /\ rest' = <<>> /\ pc' = "serve"
        /\ pc' # "parse" /\ pc' \in {"loop", "unix", "tcp", "serve", "parse"}
    OBVIOUS
  <2> QED
    BY <2>1, <2>2, <2>3, Zenon DEF BufferTypes
<1>3. ASSUME NEW d \in Conns, Unclosed(d)'
      PROVE  Unclosed(d) /\ Parsing(d)' = Parsing(d)
  <2>1. Unclosed(d) /\ conn'[d] # "closed"
    BY <1>3 DEF Unclosed
  <2>2. Parsing(d) = <<>>
    BY <2>1 DEF Parsing
  <2>3. Parsing(d)' = <<>>
    BY DEF Parsing
  <2> QED
    BY <2>1, <2>2, <2>3
<1>4. IpcFrames'
  BY <1>3, FramesUntouched
<1> QED
  BY <1>2, <1>4, <1>5

\* One pass over a polled slot keeps the invariant.
LEMMA SlotServed ==
  ASSUME IpcInv, ServeSlot
  PROVE  IpcInv'
<1> USE DEF IpcInv
<1> DEFINE s == Current.slot
           c == slot[s]
<1>1. /\ pc = "serve" /\ polled # <<>> /\ asker = NoConn /\ rest = <<>>
      /\ UNCHANGED <<sent, handled>>
  BY DEF ServeSlot, BufferTypes
<1>2. s \in Slot
  <2>1. Current \in PolledSlot
    BY <1>1, HeadTailProperties DEF BufferTypes, Current
  <2> QED
    BY <2>1 DEF PolledSlot
<1>3. \/ /\ polled' = Tail(polled)
         /\ UNCHANGED <<conn, slot, count, pc, rest, asker, inbox, early>>
      \/ /\ c # NoConn /\ DropClient(s)
         /\ polled' = Tail(polled)
         /\ UNCHANGED <<pc, rest, asker, inbox, early>>
      \/ /\ c # NoConn /\ inbox[c] # <<>>
         /\ rest' = BufferOf(c) /\ asker' = c /\ pc' = "parse"
         /\ inbox' = [inbox EXCEPT ![c] = SubSeq(@, Len(BufferOf(c)) + 1, Len(@))]
         /\ UNCHANGED <<conn, slot, count, polled>>
  BY Zenon DEF ServeSlot
<1>4. CASE /\ polled' = Tail(polled)
           /\ UNCHANGED <<conn, slot, count, pc, rest, asker, inbox, early>>
  <2>1. SlotTypes' /\ OneSlotEach' /\ IpcCount'
    BY <1>4, SlotsUntouched
  <2> QED
    BY <2>1, <1>1, <1>4, Served
<1>5. CASE /\ c # NoConn /\ DropClient(s)
           /\ polled' = Tail(polled)
           /\ UNCHANGED <<pc, rest, asker, inbox, early>>
  <2>1. /\ SlotTypes' /\ OneSlotEach' /\ IpcCount'
        /\ \A d \in Conns : conn'[d] \in {conn[d], "closed"}
    BY <1>1, <1>5, ServedDropped
  <2> QED
    BY <2>1, <1>1, <1>5, Served, Zenon
<1>6. CASE /\ c # NoConn /\ inbox[c] # <<>>
           /\ rest' = BufferOf(c) /\ asker' = c /\ pc' = "parse"
           /\ inbox' = [inbox EXCEPT ![c] = SubSeq(@, Len(BufferOf(c)) + 1, Len(@))]
           /\ UNCHANGED <<conn, slot, count, polled>>
  <2>1. c \in Conns /\ conn[c] = "open" /\ c \notin Closed
    BY <1>2, <1>6 DEF SlotTypes, OneSlotEach, Closed
  <2>2. SlotTypes' /\ OneSlotEach' /\ IpcCount'
    BY <2>1, <1>6, SlotsUntouched
  <2>3. AskerSlot'
    BY <2>1, <1>6, Zenon DEF AskerSlot, Current
  <2>4. BufferTypes' /\ IpcFrames'
    BY <2>1, <1>1, <1>6, FramesRead, Zenon
  <2> QED
    BY <2>2, <2>3, <2>4
<1> QED
  BY <1>3, <1>4, <1>5, <1>6, Zenon

\* A broadcast from a module, between two polls, keeps the invariant.
LEMMA Published ==
  ASSUME IpcInv, ModulePublishes
  PROVE  IpcInv'
<1> USE DEF IpcInv
<1>1. /\ Broadcast
      /\ UNCHANGED <<inbox, sent, pc, polled, rest, asker, handled>>
  BY DEF ModulePublishes, clientVars
<1>2. /\ SlotTypes' /\ OneSlotEach' /\ AskerSlot' /\ IpcCount'
      /\ \A c \in Conns : conn'[c] \in {conn[c], "closed"}
  BY <1>1, Broadcasts
<1>3. BufferTypes'
  BY <1>1 DEF BufferTypes
<1>4. \A d \in Conns : Unclosed(d)' => Unclosed(d) /\ Parsing(d)' = Parsing(d)
  BY <1>1, <1>2 DEF Unclosed, Parsing
<1>5. IpcFrames'
  BY <1>1, <1>4, FramesUntouched
<1> QED
  BY <1>2, <1>3, <1>5

\* Every step of the server keeps the invariant.
LEMMA ServerSteps ==
  ASSUME IpcInv, Server
  PROVE  IpcInv'
<1> USE DEF IpcInv
<1>1. CASE PollReturns
  <2>1. polled' \in Seq(PolledSlot)
    BY <1>1, PolledType DEF PollReturns
  <2> QED
    BY <1>1, <2>1, LoopMoves DEF PollReturns, clientVars
<1>2. CASE AcceptUnix
  <2>1. CASE UNCHANGED <<conn, slot, count>>
    BY <1>2, <2>1, LoopMoves DEF AcceptUnix, clientVars, BufferTypes
  <2>2. CASE \E c \in Backlog : Admit(c) \/ Reject(c)
    BY <1>2, <2>2, Accepted DEF AcceptUnix, clientVars
  <2> QED
    BY <1>2, <2>1, <2>2 DEF AcceptUnix
<1>3. CASE AcceptTcp
  <2>1. CASE UNCHANGED <<conn, slot, count>>
    BY <1>3, <2>1, LoopMoves DEF AcceptTcp, BufferTypes
  <2>2. CASE \E c \in Backlog : Admit(c) \/ Reject(c)
    BY <1>3, <2>2, Accepted DEF AcceptTcp
  <2> QED
    BY <1>3, <2>1, <2>2 DEF AcceptTcp
<1>4. CASE ServeSlot
  BY <1>4, SlotServed
<1>5. CASE HandleFrame
  <2>1. /\ pc = "parse"
        /\ UNCHANGED <<pc, polled, asker>>
        /\ Broadcast \/ UNCHANGED <<slot, count, conn>>
    BY <1>5 DEF HandleFrame
  <2>2. /\ SlotTypes' /\ OneSlotEach' /\ AskerSlot' /\ IpcCount'
        /\ \A c \in Conns : conn'[c] \in {conn[c], "closed"}
    <3>1. CASE Broadcast
      BY <2>1, <3>1, Broadcasts
    <3>2. CASE UNCHANGED <<slot, count, conn>>
      <4>1. SlotTypes' /\ OneSlotEach' /\ IpcCount'
        BY <2>1, <3>2, SlotsUntouched
      <4>2. AskerSlot'
        BY <2>1, <3>2 DEF AskerSlot, Current
      <4> QED
        BY <3>2, <4>1, <4>2
    <3> QED
      BY <2>1, <3>1, <3>2
  <2>3. BufferTypes' /\ IpcFrames'
    BY <1>5, <2>2, FrameHandled
  <2> QED
    BY <2>2, <2>3
<1>6. CASE FrameError
  <2>1. /\ pc = "parse" /\ polled # <<>> /\ DropClient(Current.slot)
        /\ rest' = <<>> /\ asker' = NoConn /\ polled' = Tail(polled) /\ pc' = "serve"
        /\ UNCHANGED <<inbox, sent, handled>>
    BY <1>6 DEF FrameError, clientVars, BufferTypes
  <2>2. asker # NoConn
    BY <2>1 DEF BufferTypes
  <2>3. /\ SlotTypes' /\ OneSlotEach' /\ IpcCount'
        /\ \A c \in Conns : conn'[c] \in {conn[c], "closed"}
        /\ conn'[asker] = "closed"
    BY <2>1, <2>2, ServedDropped, Zenon
  <2> QED
    BY <2>1, <2>3, Served
<1>7. CASE BufferParsed
  <2>1. /\ pc = "parse" /\ polled # <<>> /\ rest = <<>> /\ rest' = <<>>
        /\ asker' = NoConn /\ polled' = Tail(polled) /\ pc' = "serve"
        /\ UNCHANGED <<conn, slot, count, inbox, sent, handled>>
    BY <1>7 DEF BufferParsed, clientVars, BufferTypes
  <2>2. SlotTypes' /\ OneSlotEach' /\ IpcCount'
    BY <2>1, SlotsUntouched
  <2> QED
    BY <2>1, <2>2, Served
<1>8. CASE PollDone
  BY <1>8, LoopMoves DEF PollDone, clientVars, BufferTypes
<1> QED
  BY <1>1, <1>2, <1>3, <1>4, <1>5, <1>6, <1>7, <1>8 DEF Server

\* The invariant of the IPC server: who has a slot, how far client_count may fall
\* behind, and where every frame of a client is (ps_ipc_server_poll).
THEOREM IpcInvariant == Spec => []IpcInv
<1>1. ASSUME IpcInv, [Next]_vars
      PROVE  IpcInv'
  <2>1. CASE \E c \in Conns : Client(c)
    BY <1>1, <2>1, ClientSteps
  <2>2. CASE Server
    BY <1>1, <2>2, ServerSteps
  <2>3. CASE ModulePublishes
    BY <1>1, <2>3, Published
  <2>4. CASE UNCHANGED vars
    <3>1. UNCHANGED <<conn, inbox, sent, slot, count, pc, polled, rest, asker, handled>>
      BY <2>4 DEF vars, clientVars, serverVars
    <3>2. SlotTypes' /\ OneSlotEach' /\ IpcCount'
      BY <1>1, <3>1, SlotsUntouched DEF IpcInv
    <3>3. BufferTypes' /\ AskerSlot'
      BY <1>1, <3>1 DEF IpcInv, BufferTypes, AskerSlot, Current
    <3>4. IpcFrames'
      BY <1>1, <3>1, FramesUntouched DEF IpcInv, Unclosed, Parsing
    <3> QED
      BY <3>2, <3>3, <3>4 DEF IpcInv
  <2> QED
    BY <1>1, <2>1, <2>2, <2>3, <2>4 DEF Next
<1> QED
  BY <1>1, IpcInit, PTL DEF Spec

\* However clients come, stall, hang up and send broken frames, client_count never
\* exceeds the slots in use and no connection has two slots, so that the check
\* against PS_IPC_MAX_CLIENTS turns nobody away while a slot is free.
THEOREM NoClientTurnedAway == Spec => []NoFalseFull
<1>1. IpcInv => NoFalseFull
  <2> SUFFICES ASSUME IpcInv PROVE NoFalseFull
    OBVIOUS
  <2> USE DEF IpcInv
  <2>1. /\ Cardinality(Used) \in 0 .. MaxClients /\ Cardinality(Conns) \in Nat
        /\ MaxClients \in Nat /\ count \in Int
        /\ Cardinality(Closed \ {asker}) \in Nat
    BY Finite, IpcAssumption, Zenon DEF SlotTypes
  <2>2. Cardinality(Closed \ {asker}) <= Cardinality(Conns)
    <3>1. Closed \ {asker} \in SUBSET Conns
      BY DEF Closed
    <3> QED
      BY <3>1, IpcAssumption, FS_Subset
  <2>3. count \in -Cardinality(Conns) .. MaxClients
    BY <2>1, <2>2 DEF IpcCount
  <2>4. TypeOK
    BY <2>3 DEF TypeOK, SlotTypes, BufferTypes, ConnState
  <2>5. \A s, t \in Used : slot[s] = slot[t] => s = t
    BY DEF Used, OneSlotEach
  <2> QED
    BY <2>4, <2>5 DEF NoFalseFull, IpcCount
<1> QED
  BY <1>1, IpcInvariant, PTL

\* What a connected client has sent is what on_ipc_frame was given, then what is
\* being parsed, then what is unread, in the order the client sent it.
THEOREM EveryFrameKept == Spec => []FramesKept
<1>1. IpcInv => FramesKept
  <2> SUFFICES ASSUME IpcInv, NEW c \in Conns, conn[c] = "open"
               PROVE  LET seen == (IF asker = c THEN rest ELSE <<>>) \o inbox[c]
                      IN /\ handled[c] + Len(seen) = sent[c]
                         /\ \A i \in DOMAIN seen : seen[i].n = handled[c] + i
    BY Zenon DEF FramesKept
  <2> DEFINE p == Parsing(c)
             q == inbox[c]
  <2>1. Numbered(c)
    BY DEF IpcInv, IpcFrames, Unclosed
  <2>2. p \in Seq(Frame) /\ q \in Seq(Frame) /\ handled[c] \in Nat
    BY DEF IpcInv, BufferTypes, Parsing
  <2>3. /\ handled[c] + Len(p) + Len(q) = sent[c]
        /\ \A i \in 1 .. Len(p) : p[i].n = handled[c] + i
        /\ \A i \in 1 .. Len(q) : q[i].n = handled[c] + Len(p) + i
    BY <2>1, Zenon DEF Numbered
  <2>4. p \o q = (IF asker = c THEN rest ELSE <<>>) \o inbox[c]
    BY DEF Parsing
  <2> HIDE DEF p, q
  <2>5. /\ Len(p) \in Nat /\ Len(q) \in Nat /\ Len(p \o q) = Len(p) + Len(q)
        /\ DOMAIN (p \o q) = 1 .. Len(p) + Len(q)
        /\ \A i \in 1 .. Len(p) + Len(q) :
             (p \o q)[i] = IF i <= Len(p) THEN p[i] ELSE q[i - Len(p)]
    <3>1. Len(p) \in Nat /\ Len(q) \in Nat
      BY <2>2, LenProperties, Zenon
    <3>2. p \o q \in Seq(Frame)
      BY <2>2, ConcatProperties
    <3> QED
      BY <3>1, <3>2, <2>2, ConcatProperties, LenProperties, Zenon
  <2>6. handled[c] + Len(p \o q) = sent[c]
    BY <2>2, <2>3, <2>5
  <2>7. ASSUME NEW i \in DOMAIN (p \o q)
        PROVE  (p \o q)[i].n = handled[c] + i
    <3>1. i \in 1 .. Len(p) + Len(q)
      BY <2>5
    <3>2. CASE i <= Len(p)
      <4>1. i \in 1 .. Len(p)
        BY <3>1, <3>2, <2>5
      <4> QED
        BY <4>1, <3>1, <3>2, <2>3, <2>5, Zenon
    <3>3. CASE ~(i <= Len(p))
      <4>1. i - Len(p) \in 1 .. Len(q) /\ handled[c] + Len(p) + (i - Len(p)) = handled[c] + i
        BY <3>1, <3>3, <2>2, <2>5
      <4>2. q[i - Len(p)].n = handled[c] + Len(p) + (i - Len(p))
        BY <4>1, <2>3, Zenon
      <4>3. (p \o q)[i] = q[i - Len(p)]
        BY <3>1, <3>3, <2>5, Zenon
      <4> QED
        BY <4>1, <4>2, <4>3, Zenon
    <3> QED
      BY <3>2, <3>3
  <2> QED
    BY <2>4, <2>6, <2>7, Zenon
<1> QED
  BY <1>1, IpcInvariant, PTL
=============================================================================
