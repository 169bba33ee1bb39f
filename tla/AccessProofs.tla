---------------------------- MODULE AccessProofs ----------------------------
(***************************************************************************)
(* Proofs about the two ways an agent is reached over the network: its     *)
(* --via sessions, for every set of connections and windows, every cap on  *)
(* the sessions, every pipe and every output; and its discovery responder, *)
(* for every set of probes, every skew and every size of its table and     *)
(* ring.                                                                   *)
(***************************************************************************)
EXTENDS ViaSessions, Discovery, FiniteSetTheorems, TLAPS

\* The sessions that count, and the connections between accept() and the
\* creation of their thread.
LiveSessions == {c \in Conns : sess[c] \notin {"none", "done"}}
AtDoor(c) == gate[c] \in {"shake", "admit"}

\* Those of the listener that the comparison with max_clients let through and
\* that have not ended yet.
Claims == {c \in Conns \ WinConns : AtDoor(c) \/ c \in LiveSessions}

\* The accept thread handles one connection at a time, and what it lets through
\* stays within the cap, whatever the windows add.
DoorInv ==
  /\ gate \in [Conns -> GateState]
  /\ thread \in {"accept", "busy", "exit"}
  /\ sess \in [Conns -> SessState]
  /\ thread = "busy" <=> \E c \in Conns \ WinConns : AtDoor(c)
  /\ \A c, d \in Conns \ WinConns : AtDoor(c) /\ AtDoor(d) => c = d
  /\ \A c \in Conns : sess[c] # "none" => gate[c] = "in"
  /\ active = Cardinality(LiveSessions)
  /\ Cardinality(Claims) <= MaxClients

\* Once a session has started to read its child's output the child exists; it
\* leaves early only when nobody can read it any more; and the reading ends, for
\* a client that stays, after the last line.
PipeInv ==
  /\ sess \in [Conns -> SessState]
  /\ hello \subseteq Conns
  /\ child \in [Conns -> {"none", "run", "exit"}]
  /\ printed \in [Conns -> 0 .. Lines]
  /\ sent \in [Conns -> Nat]
  /\ \A c \in Conns :
       /\ InPipe(c) \in 0 .. PipeCap
       /\ sess[c] \in {"parent", "stream"} =>
            child[c] = "run" \/ (child[c] = "exit" /\ printed[c] = Lines)
       /\ sess[c] \in {"reap", "bye"} /\ c \notin gone => sent[c] = Lines

ViaInv == DoorInv /\ PipeInv
-----------------------------------------------------------------------------
\* The sets that are counted are finite.
LEMMA LiveFinite ==
  /\ IsFiniteSet(LiveSessions) /\ Cardinality(LiveSessions) \in Nat
  /\ IsFiniteSet(Claims) /\ Cardinality(Claims) \in Nat
  /\ IsFiniteSet(WinConns) /\ Cardinality(WinConns) \in Nat
<1>1. LiveSessions \in SUBSET Conns /\ Claims \in SUBSET Conns /\ WinConns \in SUBSET Conns
  BY ViaAssumption DEF LiveSessions, Claims
<1> QED
  BY <1>1, ViaAssumption, FS_Subset, FS_CardinalityType

\* Adding an element adds at most one.
LEMMA OneMore ==
  ASSUME NEW S, IsFiniteSet(S), NEW x
  PROVE  /\ Cardinality(S) \in Nat /\ Cardinality(S \cup {x}) \in Nat
         /\ Cardinality(S \cup {x}) <= Cardinality(S) + 1
<1>1. Cardinality(S) \in Nat
  BY FS_CardinalityType
<1>2. Cardinality(S \cup {x}) = IF x \in S THEN Cardinality(S) ELSE Cardinality(S) + 1
  BY FS_AddElement
<1> QED
  BY <1>1, <1>2

\* A step inside a session changes nothing about who is let in.
LEMMA DoorUntouched ==
  ASSUME DoorInv, UNCHANGED <<gate, thread, active>>,
         \/ UNCHANGED sess
         \/ \E c \in Conns, s \in SessState \ {"none", "done"} :
              sess[c] \notin {"none", "done"} /\ SetSess(c, s)
  PROVE  DoorInv'
<1>1. sess' \in [Conns -> SessState]
  BY DEF DoorInv, SetSess
<1>2. LiveSessions' = LiveSessions
  BY DEF LiveSessions, SetSess, DoorInv
<1>3. Claims' = Claims
  BY <1>2 DEF Claims, AtDoor
<1>4. \A c \in Conns : sess'[c] # "none" => gate'[c] = "in"
  BY DEF SetSess, DoorInv
<1> QED
  BY <1>1, <1>2, <1>3, <1>4 DEF DoorInv, AtDoor

\* A connection reaches the kernel's queue, or is turned away there: it held no
\* place and takes none.
LEMMA DoorTurnedAway ==
  ASSUME DoorInv, NEW c \in Conns, NEW g \in GateState \ {"shake", "admit"},
         gate[c] \in {"none", "backlog"},
         gate' = [gate EXCEPT ![c] = g],
         UNCHANGED <<sess, active>>,
         thread' = thread \/ (thread = "accept" /\ thread' \in {"accept", "exit"})
  PROVE  DoorInv'
<1>1. LiveSessions' = LiveSessions
  BY DEF LiveSessions
<1>2. \A d \in Conns : AtDoor(d)' <=> AtDoor(d)
  BY DEF AtDoor, DoorInv
<1>3. Claims' = Claims
  BY <1>1, <1>2 DEF Claims
<1>4. \A d \in Conns : sess'[d] # "none" => gate'[d] = "in"
  BY DEF DoorInv
<1>5. gate' \in [Conns -> GateState] /\ thread' \in {"accept", "busy", "exit"}
  BY DEF DoorInv
<1>6. thread' = "busy" <=> thread = "busy"
  OBVIOUS
<1> QED
  BY <1>1, <1>2, <1>3, <1>4, <1>5, <1>6 DEF DoorInv

\* accept() with room: the listener's only connection at the door is the new
\* one, and there were fewer claims than sessions allowed.
LEMMA DoorLetsIn ==
  ASSUME DoorInv, NEW c \in Conns, gate[c] = "backlog",
         c \in WinConns \/ thread = "accept",
         active < MaxClients,
         gate' = [gate EXCEPT ![c] = "shake"],
         Begin(c), UNCHANGED <<sess, active>>
  PROVE  DoorInv'
<1>1. LiveSessions' = LiveSessions
  BY DEF LiveSessions
<1>2. /\ AtDoor(c)'
      /\ \A d \in Conns \ {c} : AtDoor(d)' <=> AtDoor(d)
  BY DEF AtDoor, DoorInv, GateState
<1>3. \A d \in Conns : sess'[d] # "none" => gate'[d] = "in"
  BY DEF DoorInv
<1>4. gate' \in [Conns -> GateState] /\ thread' \in {"accept", "busy", "exit"}
  BY DEF DoorInv, GateState, Begin
<1>5. CASE c \in WinConns
  <2>1. Claims' = Claims
    BY <1>1, <1>2, <1>5 DEF Claims
  <2>2. thread' = thread
    BY <1>5 DEF Begin
  <2>3. \A d \in Conns \ WinConns : AtDoor(d)' <=> AtDoor(d)
    BY <1>2, <1>5
  <2> QED
    BY <1>1, <1>3, <1>4, <2>1, <2>2, <2>3 DEF DoorInv
<1>6. CASE c \notin WinConns
  <2>1. thread = "accept" /\ thread' = "busy"
    BY <1>6 DEF Begin
  <2>2. \A d \in Conns \ WinConns : ~AtDoor(d)
    BY <2>1 DEF DoorInv
  <2>3. Claims' = Claims \cup {c} /\ Claims \subseteq LiveSessions
    BY <1>1, <1>2, <1>6, <2>2 DEF Claims
  <2>4. Cardinality(Claims) <= Cardinality(LiveSessions)
    BY <2>3, LiveFinite, FS_Subset
  <2>5. Cardinality(Claims') \in Nat /\ Cardinality(Claims') <= Cardinality(Claims) + 1
    BY <2>3, LiveFinite, OneMore, Zenon
  <2>6. Cardinality(Claims') <= MaxClients
    <3>1. Cardinality(LiveSessions) < MaxClients
      BY DEF DoorInv
    <3> QED
      BY <2>4, <2>5, <3>1, LiveFinite, ViaAssumption
  <2>7. /\ thread' = "busy" <=> \E d \in Conns \ WinConns : AtDoor(d)'
        /\ \A d, e \in Conns \ WinConns : AtDoor(d)' /\ AtDoor(e)' => d = e
    BY <1>2, <1>6, <2>1, <2>2
  <2> QED
    BY <1>1, <1>3, <1>4, <2>6, <2>7 DEF DoorInv
<1> QED
  BY <1>5, <1>6

\* When the connection at the door of the listener goes, the accept thread is
\* free again.
LEMMA DoorFreed ==
  ASSUME DoorInv, NEW c \in Conns, AtDoor(c), ~AtDoor(c)',
         \A d \in Conns \ {c} : AtDoor(d)' <=> AtDoor(d),
         Finish(c)
  PROVE  /\ thread' = "busy" <=> \E d \in Conns \ WinConns : AtDoor(d)'
         /\ \A d, e \in Conns \ WinConns : AtDoor(d)' /\ AtDoor(e)' => d = e
<1>1. \A d, e \in Conns \ WinConns : AtDoor(d)' /\ AtDoor(e)' => d = e
  BY DEF DoorInv
<1>2. CASE c \in WinConns
  <2>1. thread' = thread
    BY <1>2 DEF Finish
  <2>2. \A d \in Conns \ WinConns : AtDoor(d)' <=> AtDoor(d)
    BY <1>2
  <2> QED
    BY <1>1, <2>1, <2>2 DEF DoorInv
<1>3. CASE c \notin WinConns
  <2>1. thread' # "busy"
    BY <1>3 DEF Finish
  <2>2. \A d \in Conns \ WinConns : ~AtDoor(d)'
    BY <1>3 DEF DoorInv
  <2> QED
    BY <1>1, <2>1, <2>2
<1> QED
  BY <1>2, <1>3

\* The outcome of the handshake of the connection at the door, or of the
\* creation of its thread: it passes on, leaves, or becomes a session.
LEMMA DoorLeft ==
  ASSUME DoorInv, NEW c \in Conns, gate[c] \in {"shake", "admit"},
         gate' = [gate EXCEPT ![c] = "out"],
         Finish(c), UNCHANGED <<sess, active>>
  PROVE  DoorInv'
<1>1. LiveSessions' = LiveSessions
  BY DEF LiveSessions
<1>2. AtDoor(c) /\ ~AtDoor(c)' /\ \A d \in Conns \ {c} : AtDoor(d)' <=> AtDoor(d)
  BY DEF AtDoor, DoorInv
<1>3. Claims' \in SUBSET Claims
  BY <1>1, <1>2 DEF Claims
<1>4. Cardinality(Claims)' <= MaxClients
  BY <1>3, LiveFinite, FS_Subset, FS_CardinalityType, ViaAssumption DEF DoorInv
<1>5. \A d \in Conns : sess'[d] # "none" => gate'[d] = "in"
  BY DEF DoorInv
<1>6. gate' \in [Conns -> GateState] /\ thread' \in {"accept", "busy", "exit"}
  BY DEF DoorInv, GateState, Finish
<1> QED
  BY <1>1, <1>2, <1>4, <1>5, <1>6, DoorFreed DEF DoorInv

\* The handshake succeeds: the connection stays at the door.
LEMMA DoorAdmits ==
  ASSUME DoorInv, NEW c \in Conns, gate[c] = "shake",
         gate' = [gate EXCEPT ![c] = "admit"],
         UNCHANGED <<thread, sess, active>>
  PROVE  DoorInv'
<1>1. LiveSessions' = LiveSessions
  BY DEF LiveSessions
<1>2. \A d \in Conns : AtDoor(d)' <=> AtDoor(d)
  BY DEF AtDoor, DoorInv
<1>3. Claims' = Claims
  BY <1>1, <1>2 DEF Claims
<1>4. \A d \in Conns : sess'[d] # "none" => gate'[d] = "in"
  BY DEF DoorInv
<1>5. gate' \in [Conns -> GateState]
  BY DEF DoorInv, GateState
<1> QED
  BY <1>1, <1>2, <1>3, <1>4, <1>5 DEF DoorInv

\* A session thread is created: its connection was counted as a claim already.
LEMMA DoorStarts ==
  ASSUME DoorInv, NEW c \in Conns, gate[c] = "admit",
         active' = active + 1,
         gate' = [gate EXCEPT ![c] = "in"],
         SetSess(c, "start"), Finish(c)
  PROVE  DoorInv'
<1>1. sess[c] = "none"
  BY DEF DoorInv
<1>2. LiveSessions' = LiveSessions \cup {c} /\ c \notin LiveSessions
  BY <1>1 DEF LiveSessions, SetSess, DoorInv
<1>3. active' = Cardinality(LiveSessions)'
  BY <1>2, LiveFinite, FS_AddElement, Zenon DEF DoorInv
<1>4. AtDoor(c) /\ ~AtDoor(c)' /\ \A d \in Conns \ {c} : AtDoor(d)' <=> AtDoor(d)
  BY DEF AtDoor, DoorInv
<1>5. Claims' = Claims
  BY <1>2, <1>4 DEF Claims
<1>6. \A d \in Conns : sess'[d] # "none" => gate'[d] = "in"
  BY DEF DoorInv, SetSess
<1>7. gate' \in [Conns -> GateState] /\ thread' \in {"accept", "busy", "exit"}
  BY DEF DoorInv, GateState, Finish
<1>8. sess' \in [Conns -> SessState]
  BY DEF DoorInv, SetSess, SessState
<1>9. Cardinality(Claims)' <= MaxClients
  BY <1>5 DEF DoorInv
<1> QED
  BY <1>3, <1>4, <1>6, <1>7, <1>8, <1>9, DoorFreed DEF DoorInv

\* A session ends and gives back its place.
LEMMA DoorCloses ==
  ASSUME DoorInv, NEW c \in Conns, CloseSession(c)
  PROVE  DoorInv'
<1>1. LiveSessions' = LiveSessions \ {c} /\ c \in LiveSessions
  BY DEF LiveSessions, SetSess, DoorInv, CloseSession
<1>2. active' = Cardinality(LiveSessions)'
  BY <1>1, LiveFinite, FS_RemoveElement, Zenon DEF DoorInv, CloseSession
<1>3. \A d \in Conns : AtDoor(d)' <=> AtDoor(d)
  BY DEF AtDoor, CloseSession, gateVars
<1>4. Claims' \in SUBSET Claims
  BY <1>1, <1>3 DEF Claims
<1>5. Cardinality(Claims)' <= MaxClients
  BY <1>4, LiveFinite, FS_Subset, FS_CardinalityType, ViaAssumption DEF DoorInv
<1>6. \A d \in Conns : sess'[d] # "none" => gate'[d] = "in"
  BY DEF DoorInv, SetSess, CloseSession, gateVars
<1>7. sess' \in [Conns -> SessState]
  BY DEF DoorInv, SetSess, SessState, CloseSession
<1> QED
  BY <1>2, <1>3, <1>5, <1>6, <1>7 DEF DoorInv, CloseSession, gateVars
-----------------------------------------------------------------------------
(* The pipe between a session and its child. *)

\* A session that moves on without touching its pipe, to a place where nothing
\* is said about it.
LEMMA PipeUntouched ==
  ASSUME PipeInv, UNCHANGED <<child, printed, sent>>, hello' \subseteq Conns,
         gone \subseteq gone',
         \/ UNCHANGED sess
         \/ \E c \in Conns, s \in SessState \ {"parent", "stream", "reap", "bye"} :
              SetSess(c, s)
  PROVE  PipeInv'
<1>1. sess' \in [Conns -> SessState]
  BY DEF PipeInv, SetSess
<1> SUFFICES ASSUME NEW d \in Conns
             PROVE  /\ InPipe(d)' \in 0 .. PipeCap
                    /\ sess'[d] \in {"parent", "stream"} =>
                         child'[d] = "run" \/ (child'[d] = "exit" /\ printed'[d] = Lines)
                    /\ sess'[d] \in {"reap", "bye"} /\ d \notin gone' => sent'[d] = Lines
  BY <1>1 DEF PipeInv
<1>2. InPipe(d)' \in 0 .. PipeCap
  BY DEF PipeInv, InPipe
<1>3. sess'[d] \in {"parent", "stream", "reap", "bye"} => sess'[d] = sess[d]
  BY DEF PipeInv, SetSess
<1> QED
  BY <1>2, <1>3 DEF PipeInv

\* The child is forked and the session goes on to read its output.
LEMMA PipeForked ==
  ASSUME PipeInv, NEW c \in Conns, Fork(c)
  PROVE  PipeInv'
<1>1. CASE SetSess(c, "close") /\ UNCHANGED child
  BY <1>1, PipeUntouched DEF Fork, PipeInv, SessState
<1>2. CASE SetSess(c, "parent") /\ child' = [child EXCEPT ![c] = "run"]
  <2>1. /\ sess' \in [Conns -> SessState]
        /\ child' \in [Conns -> {"none", "run", "exit"}]
    BY <1>2 DEF PipeInv, SetSess, SessState
  <2>2. UNCHANGED <<hello, gone, printed, sent>>
    BY DEF Fork
  <2>3. ASSUME NEW d \in Conns
        PROVE  /\ InPipe(d)' \in 0 .. PipeCap
               /\ sess'[d] \in {"parent", "stream"} =>
                    child'[d] = "run" \/ (child'[d] = "exit" /\ printed'[d] = Lines)
               /\ sess'[d] \in {"reap", "bye"} /\ d \notin gone' => sent'[d] = Lines
    <3>1. InPipe(d)' \in 0 .. PipeCap
      BY <2>2 DEF PipeInv, InPipe
    <3>2. CASE d = c
      BY <3>1, <3>2, <1>2 DEF PipeInv, SetSess
    <3>3. CASE d # c
      BY <3>1, <3>3, <1>2, <2>2 DEF PipeInv, SetSess
    <3> QED
      BY <3>2, <3>3
  <2> QED
    BY <2>1, <2>2, <2>3 DEF PipeInv
<1> QED
  BY <1>1, <1>2 DEF Fork

\* The parent closes its write end and starts to read.
LEMMA PipeClosed ==
  ASSUME PipeInv, NEW c \in Conns, CloseWriteEnd(c)
  PROVE  PipeInv'
<1>1. sess' \in [Conns -> SessState]
  BY DEF PipeInv, SetSess, SessState, CloseWriteEnd
<1>2. UNCHANGED <<hello, gone, child, printed, sent>>
  BY DEF CloseWriteEnd, pipeVars
<1>3. ASSUME NEW d \in Conns
      PROVE  /\ InPipe(d)' \in 0 .. PipeCap
             /\ sess'[d] \in {"parent", "stream"} =>
                  child'[d] = "run" \/ (child'[d] = "exit" /\ printed'[d] = Lines)
             /\ sess'[d] \in {"reap", "bye"} /\ d \notin gone' => sent'[d] = Lines
  <2>1. InPipe(d)' \in 0 .. PipeCap
    BY <1>2 DEF PipeInv, InPipe
  <2>2. CASE d = c
    BY <2>1, <2>2, <1>2 DEF PipeInv, SetSess, CloseWriteEnd
  <2>3. CASE d # c
    BY <2>1, <2>3, <1>2 DEF PipeInv, SetSess, CloseWriteEnd
  <2> QED
    BY <2>2, <2>3
<1> QED
  BY <1>1, <1>2, <1>3 DEF PipeInv

\* The child writes into the pipe while it has room, or exits; as long as its own
\* session has the read end, it exits only after its last line.
LEMMA PipeWritten ==
  ASSUME PipeInv, NEW c \in Conns, Child(c)
  PROVE  PipeInv'
<1>1. UNCHANGED <<sess, hello, gone, sent>>
  BY DEF Child, ChildPrints, ChildExits
<1>2. CASE ChildPrints(c)
  <2>1. printed[c] \in 0 .. Lines /\ sent[c] \in Nat
    BY DEF PipeInv
  <2>2. /\ printed' = [printed EXCEPT ![c] = @ + 1]
        /\ printed[c] < Lines /\ InPipe(c) < PipeCap
        /\ child[c] = "run" /\ child' = child
    BY <1>2 DEF ChildPrints
  <2>3. printed' \in [Conns -> 0 .. Lines]
    BY <2>1, <2>2, ViaAssumption DEF PipeInv
  <2>4. ASSUME NEW d \in Conns
        PROVE  /\ InPipe(d)' \in 0 .. PipeCap
               /\ sess'[d] \in {"parent", "stream"} =>
                    child'[d] = "run" \/ (child'[d] = "exit" /\ printed'[d] = Lines)
               /\ sess'[d] \in {"reap", "bye"} /\ d \notin gone' => sent'[d] = Lines
    <3>1. CASE d = c
      <4>1. printed'[d] = printed[d] + 1
        BY <3>1, <2>2 DEF PipeInv
      <4>2. InPipe(d)' \in 0 .. PipeCap
        BY <3>1, <4>1, <1>1, <2>1, <2>2, ViaAssumption DEF PipeInv, InPipe
      <4> QED
        BY <3>1, <4>2, <1>1, <2>2 DEF PipeInv
    <3>2. CASE d # c
      <4>1. printed'[d] = printed[d]
        BY <3>2, <2>2 DEF PipeInv
      <4> QED
        BY <4>1, <1>1, <2>2 DEF PipeInv, InPipe
    <3> QED
      BY <3>1, <3>2
  <2> QED
    BY <1>1, <2>2, <2>3, <2>4 DEF PipeInv
<1>3. CASE ChildExits(c)
  <2>1. printed' = printed /\ child' = [child EXCEPT ![c] = "exit"]
    BY <1>3 DEF ChildExits
  <2>2. child' \in [Conns -> {"none", "run", "exit"}]
    BY <2>1 DEF PipeInv
  <2>3. sess[c] \in {"parent", "stream"} => printed[c] = Lines
    BY <1>3 DEF ChildExits, Readers, ReadEnds
  <2>4. ASSUME NEW d \in Conns
        PROVE  sess'[d] \in {"parent", "stream"} =>
                 child'[d] = "run" \/ (child'[d] = "exit" /\ printed'[d] = Lines)
    BY <1>1, <2>1, <2>3 DEF PipeInv
  <2>5. \A d \in Conns : InPipe(d)' = InPipe(d)
    BY <1>1, <2>1 DEF InPipe
  <2> QED
    BY <1>1, <2>1, <2>2, <2>4, <2>5 DEF PipeInv
<1> QED
  BY <1>2, <1>3 DEF Child
\* A line goes from the pipe to the client; a session that gives up has lost its
\* client.
LEMMA PipeRead ==
  ASSUME PipeInv, NEW c \in Conns, ForwardLine(c)
  PROVE  PipeInv'
<1>1. /\ UNCHANGED <<hello, gone, child, printed>>
      /\ sent' = [sent EXCEPT ![c] = @ + 1]
      /\ sess[c] = "stream" /\ InPipe(c) > 0
      /\ UNCHANGED sess \/ (c \in gone /\ SetSess(c, "reap"))
  BY DEF ForwardLine
<1>2. printed[c] \in 0 .. Lines /\ sent[c] \in Nat
  BY DEF PipeInv
<1>3. sent' \in [Conns -> Nat] /\ sess' \in [Conns -> SessState]
  BY <1>1, <1>2 DEF PipeInv, SetSess, SessState
<1>4. ASSUME NEW d \in Conns
      PROVE  /\ InPipe(d)' \in 0 .. PipeCap
             /\ sess'[d] \in {"parent", "stream"} =>
                  child'[d] = "run" \/ (child'[d] = "exit" /\ printed'[d] = Lines)
             /\ sess'[d] \in {"reap", "bye"} /\ d \notin gone' => sent'[d] = Lines
  <2>1. CASE d = c
    <3>1. sent'[d] = sent[d] + 1
      BY <2>1, <1>1 DEF PipeInv
    <3>2. InPipe(d)' \in 0 .. PipeCap
      BY <2>1, <3>1, <1>1, <1>2, ViaAssumption DEF PipeInv, InPipe
    <3>3. sess'[d] = "stream" \/ (sess'[d] = "reap" /\ d \in gone')
      BY <2>1, <1>1 DEF PipeInv, SetSess
    <3> QED
      BY <2>1, <3>2, <3>3, <1>1 DEF PipeInv
  <2>2. CASE d # c
    <3>1. sent'[d] = sent[d] /\ sess'[d] = sess[d]
      BY <2>2, <1>1 DEF PipeInv, SetSess
    <3> QED
      BY <3>1, <1>1 DEF PipeInv, InPipe
  <2> QED
    BY <2>1, <2>2
<1> QED
  BY <1>1, <1>3, <1>4 DEF PipeInv

\* End of file, and then the exit of the child, come after the last line.
LEMMA PipeDrained ==
  ASSUME PipeInv, NEW c \in Conns, EndOfOutput(c) \/ Reap(c)
  PROVE  PipeInv'
<1>1. UNCHANGED <<hello, gone, child, printed, sent>>
  BY Zenon DEF EndOfOutput, Reap, pipeVars
<1>2. (sess[c] = "reap" /\ SetSess(c, "bye")) \/ (sess[c] = "stream" /\ SetSess(c, "reap"))
  BY DEF EndOfOutput, Reap
<1>3. sess' \in [Conns -> SessState]
  BY <1>2 DEF PipeInv, SetSess, SessState
<1>4. c \notin gone => sent[c] = Lines
  <2>1. CASE Reap(c)
    BY <2>1 DEF Reap, PipeInv
  <2>2. CASE EndOfOutput(c)
    <3>1. child[c] # "run" /\ sess[c] = "stream" /\ InPipe(c) = 0
      BY <2>2, Zenon DEF EndOfOutput, Writers
    <3>2. printed[c] = Lines
      BY <3>1 DEF PipeInv
    <3>3. printed[c] \in 0 .. Lines /\ sent[c] \in Nat
      BY DEF PipeInv
    <3> QED
      BY <3>1, <3>2, <3>3, ViaAssumption DEF InPipe
  <2> QED
    BY <2>1, <2>2
<1>5. ASSUME NEW d \in Conns
      PROVE  /\ InPipe(d)' \in 0 .. PipeCap
             /\ sess'[d] \in {"parent", "stream"} =>
                  child'[d] = "run" \/ (child'[d] = "exit" /\ printed'[d] = Lines)
             /\ sess'[d] \in {"reap", "bye"} /\ d \notin gone' => sent'[d] = Lines
  <2>1. InPipe(d)' \in 0 .. PipeCap
    BY <1>1 DEF PipeInv, InPipe
  <2>2. CASE d = c
    <3>1. sess'[d] \in {"reap", "bye"}
      BY <2>2, <1>2 DEF PipeInv, SetSess
    <3> QED
      BY <2>1, <2>2, <3>1, <1>1, <1>4
  <2>3. CASE d # c
    <3>1. sess'[d] = sess[d]
      BY <2>3, <1>2 DEF PipeInv, SetSess
    <3> QED
      BY <2>1, <3>1, <1>1 DEF PipeInv
  <2> QED
    BY <2>2, <2>3
<1> QED
  BY <1>1, <1>3, <1>5 DEF PipeInv
-----------------------------------------------------------------------------
\* The agent starts without connections.
LEMMA ViaInit ==
  ASSUME Init
  PROVE  ViaInv
<1>1. LiveSessions = {} /\ Claims = {}
  BY DEF Init, LiveSessions, Claims, AtDoor
<1>2. DoorInv
  BY <1>1, FS_EmptySet, ViaAssumption DEF Init, DoorInv, AtDoor, GateState, SessState
<1>3. PipeInv
  BY ViaAssumption DEF Init, PipeInv, InPipe, SessState
<1> QED
  BY <1>2, <1>3 DEF ViaInv

\* Every step keeps the door, action by action.
LEMMA DoorStep ==
  ASSUME DoorInv, [Next]_vars
  PROVE  DoorInv'
<1> USE DEF gateVars, pipeVars
<1>1. ASSUME NEW c \in Conns, Connect(c)
      PROVE  DoorInv'
  BY <1>1, DoorTurnedAway, Zenon DEF Connect, GateState
<1>2. ASSUME NEW c \in Conns, Accept(c)
      PROVE  DoorInv'
  <2>1. CASE active < MaxClients /\ gate' = [gate EXCEPT ![c] = "shake"] /\ Begin(c)
    BY <1>2, <2>1, DoorLetsIn, Zenon DEF Accept
  <2>2. CASE gate' = [gate EXCEPT ![c] = "out"] /\ Finish(c)
    <3>1. thread' = thread \/ (thread = "accept" /\ thread' \in {"accept", "exit"})
      BY <1>2, <2>2 DEF Accept, Finish
    <3> QED
      BY <1>2, <2>2, <3>1, DoorTurnedAway, Zenon DEF Accept, GateState
  <2> QED
    BY <1>2, <2>1, <2>2 DEF Accept
<1>3. ASSUME NEW c \in Conns, Handshake(c)
      PROVE  DoorInv'
  BY <1>3, DoorAdmits, DoorLeft DEF Handshake
<1>4. ASSUME NEW c \in Conns, StartSession(c)
      PROVE  DoorInv'
  BY <1>4, DoorStarts, DoorLeft DEF StartSession
<1>5. ASSUME NEW c \in Conns, Session(c)
      PROVE  DoorInv'
  <2>1. CASE CloseSession(c)
    BY <2>1, DoorCloses
  <2>2. CASE SendHello(c) \/ Ingest(c) \/ OpenPipe(c) \/ Fork(c) \/ CloseWriteEnd(c)
    BY <2>2, DoorUntouched
      DEF SendHello, Ingest, OpenPipe, Fork, CloseWriteEnd, SessState
  <2>3. CASE ForwardLine(c) \/ EndOfOutput(c) \/ Reap(c) \/ SayBye(c)
    BY <2>3, DoorUntouched DEF ForwardLine, EndOfOutput, Reap, SayBye, SessState
  <2> QED
    BY <1>5, <2>1, <2>2, <2>3 DEF Session
<1>6. ASSUME NEW c \in Conns, Child(c) \/ ReadFrame(c) \/ ClientLeaves(c)
      PROVE  DoorInv'
  BY <1>6, DoorUntouched
    DEF Child, ChildPrints, ChildExits, ReadFrame, ClientLeaves, SessState
<1>7. CASE Shutdown \/ Joined \/ UNCHANGED vars
  BY <1>7, DoorUntouched DEF Shutdown, Joined, vars
<1>8. CASE AcceptFails
  <2>1. LiveSessions' = LiveSessions /\ Claims' = Claims
    BY <1>8 DEF AcceptFails, LiveSessions, Claims, AtDoor
  <2> QED
    BY <1>8, <2>1 DEF AcceptFails, DoorInv, AtDoor
<1> QED
  BY <1>1, <1>2, <1>3, <1>4, <1>5, <1>6, <1>7, <1>8 DEF Next, Step, Gate

\* Every step keeps the pipes.
LEMMA PipeStep ==
  ASSUME PipeInv, [Next]_vars
  PROVE  PipeInv'
<1> USE DEF gateVars, pipeVars
<1>0. hello \subseteq Conns
  BY DEF PipeInv
<1>1. ASSUME NEW c \in Conns, Connect(c) \/ Accept(c) \/ Handshake(c) \/ ClientLeaves(c)
      PROVE  PipeInv'
  BY <1>0, <1>1, PipeUntouched, Zenon DEF Connect, Accept, Handshake, ClientLeaves
<1>2. ASSUME NEW c \in Conns, StartSession(c) \/ ReadFrame(c)
      PROVE  PipeInv'
  BY <1>0, <1>2, PipeUntouched, Zenon DEF StartSession, ReadFrame, SessState
<1>3. ASSUME NEW c \in Conns,
             SendHello(c) \/ Ingest(c) \/ OpenPipe(c) \/ SayBye(c) \/ CloseSession(c)
      PROVE  PipeInv'
  BY <1>0, <1>3, PipeUntouched
    DEF SendHello, Ingest, OpenPipe, SayBye, CloseSession, SessState
<1>4. CASE Shutdown \/ AcceptFails \/ Joined \/ UNCHANGED vars
  BY <1>0, <1>4, PipeUntouched DEF Shutdown, AcceptFails, Joined, vars
<1> QED
  BY <1>1, <1>2, <1>3, <1>4, PipeForked, PipeClosed, PipeWritten, PipeRead, PipeDrained
    DEF Next, Step, Gate, Session
-----------------------------------------------------------------------------
\* The door and the pipes stay in order in every behaviour of the agent
\* (accept_thread_fn, window_thread, session_thread, run_subprocess).
THEOREM ViaInvariant == Spec => []ViaInv
<1>1. Init => ViaInv
  BY ViaInit
<1>2. ViaInv /\ [Next]_vars => ViaInv'
  BY DoorStep, PipeStep DEF ViaInv
<1> QED
  BY <1>1, <1>2, PTL DEF Spec

\* active_clients is the number of session threads that have not finished, and
\* exceeds max_clients by no more than the windows that opened meanwhile, for any
\* number of connections (accept_thread_fn, window_thread, session_thread).
THEOREM SessionsStayCounted == Spec => []SessionsCounted
<1>1. ViaInv => SessionsCounted
  <2> SUFFICES ASSUME ViaInv
               PROVE  SessionsCounted
    OBVIOUS
  <2>1. TypeOK
    BY DEF ViaInv, DoorInv, PipeInv, TypeOK, AtDoor
  <2>2. ActiveCounts
    BY DEF ViaInv, DoorInv, ActiveCounts, LiveSessions
  <2>3. CapNearlyHeld
    <3>1. LiveSessions \in SUBSET (Claims \cup WinConns)
      BY DEF LiveSessions, Claims
    <3>2. /\ IsFiniteSet(Claims \cup WinConns)
          /\ Cardinality(Claims \cup WinConns) =
               Cardinality(Claims) + Cardinality(WinConns) - Cardinality(Claims \cap WinConns)
      BY LiveFinite, FS_Union
    <3>3. Cardinality(Claims \cap WinConns) \in Nat
      BY LiveFinite, FS_Intersection, FS_CardinalityType, Zenon
    <3>4. Cardinality(LiveSessions) <= Cardinality(Claims \cup WinConns)
      BY <3>1, <3>2, FS_Subset
    <3>5. active = Cardinality(LiveSessions) /\ Cardinality(Claims) <= MaxClients
      BY DEF ViaInv, DoorInv
    <3> QED
      BY <3>2, <3>3, <3>4, <3>5, LiveFinite, ViaAssumption DEF CapNearlyHeld
  <2> QED
    BY <2>1, <2>2, <2>3 DEF SessionsCounted
<1> QED
  BY <1>1, ViaInvariant, PTL

\* A client that stays is sent every line of its run before the bye, for any
\* output, pipe and number of sessions whose children hold each other's pipes
\* open (run_subprocess).
THEOREM FindingsAllSent == Spec => []FindingsBeforeBye
<1>1. ViaInv => FindingsBeforeBye
  BY DEF ViaInv, PipeInv, FindingsBeforeBye
<1> QED
  BY <1>1, ViaInvariant, PTL

-----------------------------------------------------------------------------
\* The discovery responder.

\* The entry of an answered probe stays in the table until the latest instant
\* its first answer granted it, unless it moved to the ring or beyond.
Kept ==
  \A p \in answered :
    accepted[p] + 2 * SkewOf(p) > now =>
      \/ p \in rolled
      \/ \E i \in RingSlot : evicted[i] = p
      \/ \E e \in entries :
           e.probe = p /\ e.exp >= accepted[p] + 2 * SkewOf(p)

\* A probe is first accepted no earlier than one skew before its timestamp.
Timely ==
  \A p \in answered :
    wire[p].sent /\ wire[p].stamp <= accepted[p] + SkewOf(p)

TableBounded == IsFiniteSet(entries) /\ Cardinality(entries) <= ReplayCap

ReplayInv == DiscoveryTypeOK /\ Kept /\ Timely /\ TableBounded /\ AnsweredOnce
-----------------------------------------------------------------------------
\* The effective skew is a positive number.
LEMMA SkewType ==
  ASSUME DiscoveryTypeOK, NEW p \in Probes
  PROVE  SkewOf(p) \in Nat /\ wire[p].stamp \in Nat
<1>1. wire[p].skew \in Nat /\ wire[p].stamp \in Nat
  <2>1. wire[p] \in Datagram \/ wire[p] = Unsent
    BY DEF DiscoveryTypeOK
  <2>2. CASE wire[p] \in Datagram
    BY <2>2, DiscoveryAssumption, Zenon DEF Datagram
  <2>3. CASE wire[p] = Unsent
    BY <2>3 DEF Unsent
  <2> QED
    BY <2>1, <2>2, <2>3
<1> QED
  BY <1>1, DiscoveryAssumption DEF SkewOf

\* Purging drops only entries that no longer count.
LEMMA PurgedLive ==
  /\ Purged \subseteq entries
  /\ \A e \in entries : Live(e) => e \in Purged
BY DEF Purged

\* Writing a place of the ring forgets nothing: what was there is in rolled.
LEMMA EvictionKeeps ==
  ASSUME DiscoveryTypeOK, NEW q \in Probes, RecordEviction(q)
  PROVE  /\ evicted' \in [RingSlot -> Probes \cup {NoProbe}]
         /\ head' \in RingSlot
         /\ rolled' \subseteq Probes
         /\ rolled \subseteq rolled'
         /\ \E i \in RingSlot : evicted'[i] = q
         /\ \A i \in RingSlot :
              evicted[i] \in Probes =>
                evicted[i] \in rolled' \/ \E j \in RingSlot : evicted'[j] = evicted[i]
<1>1. head' \in RingSlot
  <2>1. EvictCap \in Nat /\ EvictCap > 0 /\ head + 1 \in Nat
    BY DiscoveryAssumption DEF DiscoveryTypeOK, RingSlot
  <2>2. (head + 1) % EvictCap \in 0 .. EvictCap - 1
    BY <2>1
  <2> QED
    BY <2>2 DEF RecordEviction, RingSlot
<1>2. head \in RingSlot /\ evicted'[head] = q
      /\ \A i \in RingSlot : i # head => evicted'[i] = evicted[i]
  BY DEF DiscoveryTypeOK, RecordEviction
<1>3. evicted[head] \in Probes => evicted[head] \in rolled'
  BY DiscoveryAssumption DEF RecordEviction
<1>4. rolled' \subseteq Probes /\ rolled \subseteq rolled'
  BY <1>2 DEF RecordEviction, DiscoveryTypeOK
<1>5. evicted' \in [RingSlot -> Probes \cup {NoProbe}]
  BY DEF RecordEviction, DiscoveryTypeOK
<1> QED
  BY <1>1, <1>2, <1>3, <1>4, <1>5

\* What recording a newcomer does to everything else the agent remembers.
LEMMA RecordKeeps ==
  ASSUME DiscoveryTypeOK, NEW p \in Probes, Record(p)
  PROVE  /\ evicted' \in [RingSlot -> Probes \cup {NoProbe}]
         /\ head' \in RingSlot
         /\ rolled' \subseteq Probes
         /\ rolled \subseteq rolled'
         /\ entries' \subseteq Entry
         /\ [probe |-> p, exp |-> Expiry(p)] \in entries'
         /\ \A i \in RingSlot :
              evicted[i] \in Probes =>
                evicted[i] \in rolled' \/ \E j \in RingSlot : evicted'[j] = evicted[i]
         /\ \A e \in entries : Live(e) =>
              e \in entries' \/ \E i \in RingSlot : evicted'[i] = e.probe
<1> DEFINE new == [probe |-> p, exp |-> Expiry(p)]
<1>1. new \in Entry
  <2>1. Expiry(p) \in Nat
    BY SkewType DEF Expiry, DiscoveryTypeOK
  <2> QED
    BY <2>1 DEF Entry
<1>2. Purged \subseteq Entry
  BY PurgedLive DEF DiscoveryTypeOK
<1>3. CASE /\ entries' = Purged \cup {new}
           /\ UNCHANGED <<evicted, head, rolled>>
  BY <1>1, <1>2, <1>3, PurgedLive DEF DiscoveryTypeOK
<1>4. CASE \E old \in Purged :
             /\ entries' = (Purged \ {old}) \cup {new}
             /\ RecordEviction(old.probe)
  <2>1. PICK old \in Purged : /\ entries' = (Purged \ {old}) \cup {new}
                              /\ RecordEviction(old.probe)
    BY <1>4
  <2>2. old.probe \in Probes
    BY <1>2 DEF Entry
  <2>3. \A e \in entries : Live(e) =>
          e \in entries' \/ \E i \in RingSlot : evicted'[i] = e.probe
    <3> SUFFICES ASSUME NEW e \in entries, Live(e)
                 PROVE  e \in entries' \/ \E i \in RingSlot : evicted'[i] = e.probe
      OBVIOUS
    <3>1. e \in Purged
      BY PurgedLive
    <3>2. CASE e = old
      BY <2>1, <2>2, <3>2, EvictionKeeps
    <3>3. CASE e # old
      BY <2>1, <3>1, <3>3
    <3> QED
      BY <3>2, <3>3
  <2>4. entries' \subseteq Entry /\ new \in entries'
    BY <1>1, <1>2, <2>1
  <2> QED
    BY <2>1, <2>2, <2>3, <2>4, EvictionKeeps, Zenon
<1> QED
  BY <1>3, <1>4 DEF Record
-----------------------------------------------------------------------------
LEMMA InitReplayInv == DiscoveryInit => ReplayInv
<1> SUFFICES ASSUME DiscoveryInit
             PROVE  ReplayInv
  OBVIOUS
<1>1. DiscoveryTypeOK
  <2>1. 0 \in RingSlot
    BY DiscoveryAssumption DEF RingSlot
  <2> QED
    BY <2>1 DEF DiscoveryInit, DiscoveryTypeOK
<1>2. Kept /\ Timely /\ AnsweredOnce
  BY DEF DiscoveryInit, DiscoveryTypeOK, Kept, Timely, AnsweredOnce
<1>3. TableBounded
  BY FS_EmptySet, DiscoveryAssumption DEF DiscoveryInit, TableBounded
<1> QED
  BY <1>1, <1>2, <1>3 DEF ReplayInv

\* One more element is at most one more to count.
LEMMA AddOne ==
  ASSUME NEW S, NEW x, IsFiniteSet(S)
  PROVE  /\ IsFiniteSet(S \cup {x})
         /\ Cardinality(S \cup {x}) \in Nat
         /\ Cardinality(S \cup {x}) <= Cardinality(S) + 1
<1>1. IsFiniteSet(S \cup {x})
  BY FS_AddElement
<1>2. Cardinality(S) \in Nat /\ Cardinality(S \cup {x}) \in Nat
  BY <1>1, FS_CardinalityType
<1>3. \/ Cardinality(S \cup {x}) = Cardinality(S)
      \/ Cardinality(S \cup {x}) = Cardinality(S) + 1
  BY FS_AddElement
<1> QED
  BY <1>1, <1>2, <1>3

\* Recording never grows the table beyond its array.
LEMMA RecordBounded ==
  ASSUME TableBounded, NEW p \in Probes, Record(p)
  PROVE  TableBounded'
<1> DEFINE new == [probe |-> p, exp |-> Expiry(p)]
<1>1. IsFiniteSet(Purged) /\ Cardinality(Purged) <= Cardinality(entries)
  BY PurgedLive, FS_Subset DEF TableBounded
<1>2. Cardinality(Purged) \in Nat /\ Cardinality(entries) \in Nat /\ ReplayCap \in Nat
  BY <1>1, FS_CardinalityType, DiscoveryAssumption DEF TableBounded
<1> HIDE DEF new
<1>3. CASE Cardinality(Purged) < ReplayCap /\ entries' = Purged \cup {new}
  <2>1. /\ IsFiniteSet(entries')
        /\ Cardinality(entries') \in Nat
        /\ Cardinality(entries') <= Cardinality(Purged) + 1
    BY <1>1, <1>3, AddOne, Zenon
  <2> QED
    BY <1>2, <1>3, <2>1 DEF TableBounded
<1>4. CASE \E old \in Purged : entries' = (Purged \ {old}) \cup {new}
  <2>1. PICK old \in Purged : entries' = (Purged \ {old}) \cup {new}
    BY <1>4
  <2>2. IsFiniteSet(Purged \ {old}) /\ Cardinality(Purged \ {old}) = Cardinality(Purged) - 1
    BY <1>1, FS_RemoveElement
  <2>3. /\ IsFiniteSet(entries')
        /\ Cardinality(entries') \in Nat
        /\ Cardinality(entries') <= Cardinality(Purged \ {old}) + 1
    BY <2>1, <2>2, AddOne, Zenon
  <2> QED
    BY <1>1, <1>2, <2>2, <2>3 DEF TableBounded
<1> QED
  BY <1>3, <1>4 DEF Record, new

\* A probe answered before is accepted again only by one of the exceptions.
LEMMA AcceptedAgain ==
  ASSUME ReplayInv, NEW p \in answered, InWindow(p), ~Seen(p)
  PROVE  p \in rolled \/ AtEdge(p)
<1> SUFFICES ASSUME p \notin rolled, ~AtEdge(p)
             PROVE  FALSE
  OBVIOUS
<1>1. p \in Probes /\ accepted[p] \in Nat /\ now \in Nat
  BY DEF ReplayInv, DiscoveryTypeOK
<1>2. SkewOf(p) \in Nat /\ wire[p].stamp \in Nat
  BY <1>1, SkewType DEF ReplayInv
<1>3. wire[p].stamp < accepted[p] + SkewOf(p)
  BY <1>1, <1>2 DEF ReplayInv, Timely, AtEdge
<1>4. now <= wire[p].stamp + SkewOf(p)
  BY <1>1, <1>2 DEF InWindow
<1>5. accepted[p] + 2 * SkewOf(p) > now
  BY <1>1, <1>2, <1>3, <1>4
<1>6. \/ \E i \in RingSlot : evicted[i] = p
      \/ \E e \in entries : e.probe = p /\ e.exp >= accepted[p] + 2 * SkewOf(p)
  BY <1>5 DEF ReplayInv, Kept
<1>7. \A e \in entries : e.exp >= accepted[p] + 2 * SkewOf(p) => Live(e)
  BY <1>1, <1>2, <1>5 DEF Live, ReplayInv, DiscoveryTypeOK, Entry
<1> QED
  BY <1>6, <1>7 DEF Seen
-----------------------------------------------------------------------------
LEMMA OnProbeReplayInv ==
  ASSUME ReplayInv, NEW p \in Probes, OnProbe(p)
  PROVE  ReplayInv'
<1>1. /\ DiscoveryTypeOK /\ Record(p) /\ InWindow(p) /\ ~Seen(p) /\ now' = now /\ wire' = wire
      /\ wire[p].sent
      /\ answered' = answered \cup {p}
  BY DEF ReplayInv, OnProbe
<1>2. \A q \in Probes : SkewOf(q)' = SkewOf(q)
  BY <1>1 DEF SkewOf
<1>3. \A q \in answered : accepted'[q] = accepted[q]
  BY DEF OnProbe, ReplayInv, DiscoveryTypeOK
<1>4. p \notin answered => accepted'[p] = now
  BY DEF OnProbe, ReplayInv, DiscoveryTypeOK
<1>5. \A q \in Probes : SkewOf(q) \in Nat /\ wire[q].stamp \in Nat /\ accepted[q] \in Nat
  BY <1>1, SkewType DEF DiscoveryTypeOK
<1>6. now \in Nat /\ answered \subseteq Probes
  BY <1>1 DEF DiscoveryTypeOK
<1>7. DiscoveryTypeOK'
  <2>1. accepted' \in [Probes -> Nat]
    BY DEF OnProbe, ReplayInv, DiscoveryTypeOK
  <2>2. repeated' \subseteq answered'
    BY DEF OnProbe, ReplayInv, DiscoveryTypeOK
  <2> QED
    BY <1>1, <1>6, <2>1, <2>2, RecordKeeps, Zenon DEF DiscoveryTypeOK
<1>8. Kept'
  <2> SUFFICES ASSUME NEW q \in answered',
                      accepted'[q] + 2 * SkewOf(q) > now
               PROVE  \/ q \in rolled'
                      \/ \E i \in RingSlot : evicted'[i] = q
                      \/ \E e \in entries' :
                           e.probe = q /\ e.exp >= accepted'[q] + 2 * SkewOf(q)
    BY <1>1, <1>2, <1>6, Zenon DEF Kept
  <2>1. CASE q \in answered
    <3>1. accepted'[q] = accepted[q] /\ q \in Probes
      BY <1>3, <1>6, <2>1
    <3>2. CASE q \in rolled
      BY <1>1, <3>2, RecordKeeps, Zenon
    <3>3. CASE \E i \in RingSlot : evicted[i] = q
      BY <1>1, <3>1, <3>3, RecordKeeps, Zenon
    <3>4. CASE \E e \in entries : e.probe = q /\ e.exp >= accepted[q] + 2 * SkewOf(q)
      <4>1. PICK e \in entries : e.probe = q /\ e.exp >= accepted[q] + 2 * SkewOf(q)
        BY <3>4
      <4>2. Live(e)
        <5>1. e.exp \in Nat
          BY <1>1 DEF DiscoveryTypeOK, Entry
        <5> QED
          BY <1>5, <1>6, <3>1, <4>1, <5>1 DEF Live
      <4>3. e \in entries' \/ \E i \in RingSlot : evicted'[i] = e.probe
        BY <1>1, <4>2, RecordKeeps, Zenon
      <4> QED
        BY <3>1, <4>1, <4>3
    <3> QED
      BY <2>1, <3>1, <3>2, <3>3, <3>4, Zenon DEF ReplayInv, Kept
  <2>2. CASE q \notin answered
    <3>1. q = p /\ accepted'[q] = now
      BY <1>1, <1>4, <2>2
    <3>2. [probe |-> p, exp |-> Expiry(p)] \in entries'
      BY <1>1, RecordKeeps, Zenon
    <3>3. Expiry(p) >= accepted'[p] + 2 * SkewOf(p)
      BY <1>5, <1>6, <3>1 DEF Expiry
    <3> QED
      BY <3>1, <3>2, <3>3
  <2> QED
    BY <2>1, <2>2, Zenon
<1>9. Timely'
  <2> SUFFICES ASSUME NEW q \in answered'
               PROVE  wire[q].sent /\ wire[q].stamp <= accepted'[q] + SkewOf(q)
    BY <1>1, <1>2, <1>6, Zenon DEF Timely
  <2>1. CASE q \in answered
    BY <1>3, <2>1 DEF ReplayInv, Timely
  <2>2. CASE q \notin answered
    <3>1. q = p /\ accepted'[q] = now
      BY <1>1, <1>4, <2>2
    <3>2. wire[p].stamp <= now + SkewOf(p)
      BY <1>1, <1>5, <1>6 DEF InWindow
    <3> QED
      BY <1>1, <3>1, <3>2
  <2> QED
    BY <2>1, <2>2
<1>10. AnsweredOnce'
  <2> SUFFICES ASSUME NEW q \in repeated'
               PROVE  q \in rolled' \/ accepted'[q] + SkewOf(q) = wire[q].stamp
    BY <1>1, <1>2, <1>7 DEF AnsweredOnce, AtEdge, DiscoveryTypeOK
  <2>1. q \in answered /\ (q \in rolled \/ AtEdge(q))
    <3>1. CASE q \in repeated
      BY <3>1 DEF ReplayInv, DiscoveryTypeOK, AnsweredOnce
    <3>2. CASE q \notin repeated
      <4>1. q = p /\ p \in answered
        BY <3>2 DEF OnProbe
      <4> QED
        BY <1>1, <4>1, AcceptedAgain
    <3> QED
      BY <3>1, <3>2
  <2>2. accepted'[q] = accepted[q] /\ rolled \subseteq rolled'
    BY <1>1, <1>3, <2>1, RecordKeeps, Zenon
  <2> QED
    BY <2>1, <2>2 DEF AtEdge
<1>11. TableBounded'
  BY <1>1, RecordBounded DEF ReplayInv
<1> QED
  BY <1>7, <1>8, <1>9, <1>10, <1>11 DEF ReplayInv

\* The clock and the senders leave the table alone.
LEMMA OtherStepsReplayInv ==
  ASSUME ReplayInv, Tick \/ (\E p \in Probes : Send(p)) \/ UNCHANGED discoveryVars
  PROVE  ReplayInv'
<1>1. UNCHANGED <<replayVars, historyVars>>
  BY DEF Tick, Send, discoveryVars
<1>2. now \in Nat /\ now' \in Nat /\ now <= now'
  BY DEF ReplayInv, DiscoveryTypeOK, Tick, Send, discoveryVars
<1>3. wire' \in [Probes -> Datagram \cup {Unsent}]
  BY DEF ReplayInv, DiscoveryTypeOK, Tick, Send, discoveryVars
<1>4. \A q \in Probes : wire[q].sent => wire'[q] = wire[q]
  BY DEF ReplayInv, DiscoveryTypeOK, Tick, Send, discoveryVars
<1>5. DiscoveryTypeOK'
  BY <1>1, <1>2, <1>3 DEF ReplayInv, DiscoveryTypeOK, replayVars, historyVars
<1>6. \A q \in answered : /\ q \in Probes /\ wire'[q] = wire[q]
                          /\ SkewOf(q)' = SkewOf(q)
                          /\ SkewOf(q) \in Nat /\ accepted[q] \in Nat
  BY <1>4, SkewType, Zenon DEF ReplayInv, DiscoveryTypeOK, Timely, SkewOf
<1>7. answered' = answered /\ accepted' = accepted /\ rolled' = rolled /\ repeated' = repeated
      /\ entries' = entries /\ evicted' = evicted
  BY <1>1 DEF replayVars, historyVars
<1>8. Kept'
  <2>1. \A q \in answered : accepted[q] + 2 * SkewOf(q) > now' => accepted[q] + 2 * SkewOf(q) > now
    BY <1>2, <1>6
  <2> QED
    BY <1>6, <1>7, <2>1, Zenon DEF Kept, ReplayInv
<1>9. Timely' /\ TableBounded'
  BY <1>6, <1>7 DEF Timely, TableBounded, ReplayInv
<1>10. AnsweredOnce'
  <2>1. repeated \subseteq answered
    BY DEF ReplayInv, DiscoveryTypeOK
  <2> QED
    BY <1>6, <1>7, <2>1, Zenon DEF AnsweredOnce, AtEdge, ReplayInv
<1> QED
  BY <1>5, <1>8, <1>9, <1>10 DEF ReplayInv

\* The strengthened invariant holds throughout.
THEOREM ReplayInvariant == DiscoverySpec => []ReplayInv
<1>1. ReplayInv /\ [DiscoveryNext]_discoveryVars => ReplayInv'
  BY OnProbeReplayInv, OtherStepsReplayInv DEF DiscoveryNext
<1> QED
  BY <1>1, InitReplayInv, PTL DEF DiscoverySpec

\* A probe that arrives several times is answered once, but for the two
\* exceptions named in AnsweredOnce: on_packet of discovery_listener.c.
THEOREM ProbesAnsweredOnce == DiscoverySpec => []AnsweredOnce
<1>1. ReplayInv => AnsweredOnce
  BY DEF ReplayInv
<1> QED
  BY <1>1, ReplayInvariant, PTL

\* ps_discovery_replay_check keeps the table within its array and gives up
\* the entry of a probe that can still be repeated only into the ring.
THEOREM AnswersRemembered == DiscoverySpec => []Remembered
<1>1. ReplayInv => Remembered
  <2> SUFFICES ASSUME ReplayInv, NEW p \in answered,
                      accepted[p] + 2 * SkewOf(p) > now,
                      NEW e \in entries,
                      e.exp >= accepted[p] + 2 * SkewOf(p)
               PROVE  Live(e)
    BY Zenon DEF Remembered, ReplayInv, Kept, TableBounded
  <2>1. p \in Probes /\ accepted[p] \in Nat /\ now \in Nat /\ e.exp \in Nat
    BY DEF ReplayInv, DiscoveryTypeOK, Entry
  <2>2. SkewOf(p) \in Nat
    BY <2>1, SkewType, Zenon DEF ReplayInv
  <2> QED
    BY <2>1, <2>2 DEF Live
<1> QED
  BY <1>1, ReplayInvariant, PTL

=============================================================================
