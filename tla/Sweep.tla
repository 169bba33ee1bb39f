------------------------------- MODULE Sweep --------------------------------
(***************************************************************************)
(* `packetsonde probe sweep`: one echo to every target, one window for the *)
(* answers, then one finding per target and a summary.  The state of a run *)
(* is a record; each operator is one phase of ps_probe_sweep_run.          *)
(***************************************************************************)
EXTENDS Integers, Sequences, FiniteSets, SequencesExt, FiniteSetsExt

CONSTANTS Family      \* [host names -> 4, 6, or -1 when it does not resolve]

\* socks: [4 |-> kind, 6 |-> kind], a kind being "dgram", "raw" or "none".
SweepStart(hosts, socks) ==
  [phase |-> "send", socks |-> socks, sent_count |-> 0, replied |-> 0,
   t |-> [i \in 1 .. Len(hosts) |->
            [host |-> hosts[i], family |-> Family[hosts[i]], sent_ok |-> FALSE,
             replied |-> FALSE]]]

SocketFor(run, i) == IF run.t[i].family = 4 THEN run.socks.v4 ELSE run.socks.v6

\* The targets an echo can be sent to.
Sendable(run) == {i \in DOMAIN run.t : run.t[i].family # -1 /\ SocketFor(run, i) # "none"}

\* ok: the targets for which sendto succeeds.
SendAll(run, ok) ==
  [run EXCEPT !.phase = "recv", !.sent_count = Cardinality(ok),
              !.t = [i \in DOMAIN @ |-> [@[i] EXCEPT !.sent_ok = i \in ok]]]

\* Every answer counts, a repeated one too: a mutant.
RecvCountsTwice(run, r) ==
  IF r.type # "reply" \/ r.seq \notin DOMAIN run.t \/ run.t[r.seq].family # r.family
  THEN run
  ELSE [run EXCEPT !.t[r.seq].replied = TRUE, !.replied = @ + 1]

\* Any reply is taken for the first silent target: a mutant.
RecvIgnoresSeq(run, r) ==
  LET open == {i \in DOMAIN run.t : run.t[i].family = r.family /\ ~run.t[i].replied}
      i == CHOOSE j \in open : \A k \in open : j <= k
  IN  IF open = {} THEN run ELSE [run EXCEPT !.t[i].replied = TRUE, !.replied = @ + 1]

\* r: a datagram read from the socket of its family; seq is the index it
\* carries (from 1 here).
recv_one(run, r) ==
  IF \/ r.type # "reply" \/ r.seq \notin DOMAIN run.t
     \/ run.t[r.seq].family # r.family \/ run.t[r.seq].replied
  THEN run
  ELSE [run EXCEPT !.t[r.seq].replied = TRUE, !.replied = @ + 1]

\* The loop waits only while answers are missing and a socket exists.
Waiting(run) ==
  /\ run.phase = "recv" /\ run.replied < run.sent_count
  /\ run.socks.v4 # "none" \/ run.socks.v6 # "none"

Status(t) == IF t.family = -1 THEN "unresolved" ELSE IF t.replied THEN "up" ELSE "down"

\* The findings in the order they are written.
Findings(run) ==
  [i \in DOMAIN run.t |-> [kind |-> Status(run.t[i]), target |-> i]]
    \o <<[kind |-> "summary", target |-> 0]>>

SweepDone(run) == [run EXCEPT !.phase = "done"]
-----------------------------------------------------------------------------
(***************************************************************************)
(* The agent's side of a sweep: a slot for each child process, and the     *)
(* assembly of the lines that arrive on its pipe.  A byte of a line is     *)
(* [line, at]: the finding it belongs to and "first", "more" or "end".     *)
(***************************************************************************)

CONSTANTS
  PS_SWEEP_MAX_SLOTS,
  PS_SWEEP_MAX_TARGETS,
  SweepBuffer           \* sizeof(buf)

SweepSlots == 1 .. PS_SWEEP_MAX_SLOTS
NoPid == 0
FreeSlot == [pid |-> NoPid, buf |-> << >>]

\* A finding on the pipe: an opening brace, more text, a line feed.
Line(f) == <<[line |-> f, at |-> "first"], [line |-> f, at |-> "more"], [line |-> f, at |-> "end"]>>

LaunchSlot(sweeps) ==
  LET free == {s \in SweepSlots : sweeps[s].pid = NoPid}
  IN  IF free = {} THEN 0 ELSE Min(free)

\* forks: pipe and fork succeed.
ps_sweep_launch(sweeps, targets, pid, forks) ==
  LET s == LaunchSlot(sweeps)
  IN  IF targets = << >> \/ s = 0 \/ ~forks THEN sweeps
      ELSE [sweeps EXCEPT ![s] = [pid |-> pid, buf |-> << >>]]

\* One byte read into the assembly buffer; an overlong line is dropped.
ReadByte(a, b) ==
  LET kept == IF Len(a.buf) >= SweepBuffer - 1 THEN << >> ELSE a.buf
  IN  IF b.at # "end" THEN [a EXCEPT !.buf = Append(kept, b)]
      ELSE [buf |-> << >>,
            out |-> IF kept # << >> /\ kept[1].at = "first" THEN Append(a.out, kept) ELSE a.out]

\* What is left after the last line feed is not kept: a mutant.
DrainForgetsRest(slot, bytes, eof) ==
  LET a == FoldLeft(ReadByte, [buf |-> slot.buf, out |-> << >>], bytes)
  IN  [slot |-> IF eof THEN FreeSlot ELSE [slot EXCEPT !.buf = << >>], out |-> a.out]

\* bytes: what the pipe holds now; eof: the child has closed it behind them.
ps_sweep_drain(slot, bytes, eof) ==
  LET a == FoldLeft(ReadByte, [buf |-> slot.buf, out |-> << >>], bytes)
  IN  [slot |-> IF eof THEN FreeSlot ELSE [slot EXCEPT !.buf = a.buf], out |-> a.out]
=============================================================================
