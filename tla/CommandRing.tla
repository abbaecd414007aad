---------------------------- MODULE CommandRing ----------------------------
(***************************************************************************)
(* One direction of the command channel: LLRing, a single-producer single- *)
(* consumer ring of Slots cells in shared memory, driven by send() at one  *)
(* end and receive() at the other.  The publisher is one end; the          *)
(* subscriber that owns the command channel is the other.  That subscriber *)
(* may die inside a call, and the next owner carries on with the same ring *)
(* (that only one subscriber drives the ring at a time is the subject of   *)
(* CommandOwnership).                                                      *)
(*                                                                         *)
(* head and tail are 64-bit counters that wrap; a cell is found by masking *)
(* them.  Loading the other end's counter, storing one's own, and each of  *)
(* the two parts of a cell (header, payload) are steps of their own.  A    *)
(* payload is abstracted to the number of the send() call that wrote it;   *)
(* reply_to, type and timestamp travel with the id.  A non-empty payload   *)
(* is assumed to come with its data (data # nullptr).                      *)
(***************************************************************************)
EXTENDS Integers, Sequences

CONSTANTS
  Slots,        \* LLConfig::command_slots
  Word,         \* 2^64, the modulus of head and tail
  MaxBytes,     \* LLConfig::max_command_bytes
  MaxSends,     \* bound: number of send() calls
  MaxHandoffs   \* bound: number of times the owning subscriber is replaced

\* config_valid: command_slots is a power of two, so it divides 2^64.
ASSUME CommandRingAssumption ==
  /\ Slots \in Nat \ {0}
  /\ Word \in Nat
  /\ \E k \in 2 .. Word : Word = k * Slots
  /\ MaxBytes \in Nat \ {0}
  /\ MaxSends \in Nat
  /\ MaxHandoffs \in Nat

VARIABLES
  owner_end,    \* the end the subscriber drives: "sender" upstream, "receiver" downstream
  head, tail,   \* LLRingHeader
  cells,        \* the LLCmdHeaders and the payloads behind them
  snd,          \* the sending end: [pc, cmd]
  next_cmd,     \* its id counter
  dropped,      \* its commands_dropped()
  rcv,          \* the receiving end: [pc, out]
  got,          \* what the last receive() that returned true delivered
  calls, handoffs,
  pushed, popped   \* history: commands made visible, commands delivered

sndVars == <<snd, next_cmd, dropped, calls>>
rcvVars == <<rcv, got>>
vars    == <<owner_end, head, tail, cells, sndVars, rcvVars, handoffs,
                 pushed, popped>>

NoCommand == [id |-> 0, size |-> 0, data |-> 0]
Idle      == [pc |-> "idle", cmd |-> NoCommand]
Waiting   == [pc |-> "idle", out |-> NoCommand]

Init ==
  /\ owner_end \in {"sender", "receiver"}
  /\ head = 0 /\ tail = 0
  /\ cells = [i \in 0 .. Slots - 1 |-> NoCommand]
  /\ snd = Idle /\ next_cmd = 1 /\ dropped = 0
  /\ rcv = Waiting /\ got = NoCommand
  /\ calls = 0 /\ handoffs = 0
  /\ pushed = << >> /\ popped = << >>

-----------------------------------------------------------------------------
\* MUTANT of Index: the mask keeps one bit too few.
Index_HalfMask(n) == n % (Slots \div 2)

\* n & (slots - 1)
Index(n) == n % Slots

\* MUTANT of Used: not reduced modulo the word, as signed or wider arithmetic
\* would leave it.
Used_NoWrap(h, t) == h - t

\* head - tail in unsigned arithmetic
Used(h, t) == (h - t) % Word

\* MUTANT of Full: one cell too many.
Full_OffByOne(h, t) == Used(h, t) > Slots

Full(h, t) == Used(h, t) >= Slots

\* MUTANT of Empty: the counters are compared as if they never wrapped.
Empty_Ordered(h, t) == h <= t

Empty(h, t) == h = t

\* What a command of this header delivers: an empty one has no payload.
Content(id, size, data) ==
  [id |-> id, size |-> size, data |-> IF size = 0 THEN 0 ELSE data]

-----------------------------------------------------------------------------
(* send() and LLRing::push *)

\* MUTANT of send_refused: the id is taken before push is tried.
send_refused_IdSpent(n) ==
  /\ snd.pc = "idle" /\ calls < MaxSends
  /\ n > MaxBytes \/ Full(head, tail)
  /\ calls' = calls + 1
  /\ dropped' = dropped + 1
  /\ next_cmd' = next_cmd + 1
  /\ UNCHANGED <<owner_end, head, tail, cells, snd, rcvVars, handoffs,
                 pushed, popped>>

\* An oversized command, or a full ring: refused, the id is not used up.
send_refused(n) ==
  /\ snd.pc = "idle" /\ calls < MaxSends
  /\ n > MaxBytes \/ Full(head, tail)
  /\ calls' = calls + 1
  /\ dropped' = dropped + 1
  /\ UNCHANGED <<owner_end, head, tail, cells, snd, next_cmd, rcvVars, handoffs,
                 pushed, popped>>

\* There is room: tail has been loaded, the cell is ours.
send(n) ==
  /\ snd.pc = "idle" /\ calls < MaxSends
  /\ n <= MaxBytes /\ ~Full(head, tail)
  /\ calls' = calls + 1
  /\ snd' = [pc |-> "header", cmd |-> Content(next_cmd, n, calls + 1)]
  /\ UNCHANGED <<owner_end, head, tail, cells, next_cmd, dropped, rcvVars, handoffs,
                 pushed, popped>>

push_header ==
  /\ snd.pc = "header"
  /\ cells' = [cells EXCEPT ![Index(head)] =
                 [id |-> snd.cmd.id, size |-> snd.cmd.size,
                  data |-> cells[Index(head)].data]]
  /\ snd' = [pc |-> "payload", cmd |-> snd.cmd]
  /\ UNCHANGED <<owner_end, head, tail, next_cmd, dropped, calls, rcvVars, handoffs,
                 pushed, popped>>

\* memcpy, unless the command is empty.
push_payload ==
  /\ snd.pc = "payload"
  /\ cells' = [cells EXCEPT ![Index(head)] =
                 [id |-> cells[Index(head)].id, size |-> cells[Index(head)].size,
                  data |-> IF snd.cmd.size = 0 THEN cells[Index(head)].data
                                               ELSE snd.cmd.data]]
  /\ snd' = [pc |-> "head", cmd |-> snd.cmd]
  /\ UNCHANGED <<owner_end, head, tail, next_cmd, dropped, calls, rcvVars, handoffs,
                 pushed, popped>>

\* MUTANT of push_head: the counter is not a 64-bit one.
push_head_NoWrap ==
  /\ snd.pc = "head"
  /\ head' = head + 1
  /\ next_cmd' = next_cmd + 1
  /\ snd' = Idle
  /\ pushed' = Append(pushed, snd.cmd)
  /\ UNCHANGED <<owner_end, tail, cells, dropped, calls, rcvVars, handoffs, popped>>

\* The release store that makes the command visible, and send()'s bookkeeping.
push_head ==
  /\ snd.pc = "head"
  /\ head' = (head + 1) % Word
  /\ next_cmd' = next_cmd + 1
  /\ snd' = Idle
  /\ pushed' = Append(pushed, snd.cmd)
  /\ UNCHANGED <<owner_end, tail, cells, dropped, calls, rcvVars, handoffs, popped>>

-----------------------------------------------------------------------------
(* receive() and LLRing::pop *)

receive ==
  /\ rcv.pc = "idle"
  /\ ~Empty(head, tail)
  /\ rcv' = [rcv EXCEPT !.pc = "header"]
  /\ UNCHANGED <<owner_end, head, tail, cells, sndVars, got, handoffs, pushed, popped>>

\* id, ..., size, clamped to what a cell can hold.
pop_header ==
  /\ rcv.pc = "header"
  /\ LET c == cells[Index(tail)] IN
       rcv' = [pc |-> "payload",
               out |-> [id |-> c.id, data |-> 0,
                        size |-> IF c.size > MaxBytes THEN MaxBytes ELSE c.size]]
  /\ UNCHANGED <<owner_end, head, tail, cells, sndVars, got, handoffs, pushed, popped>>

pop_payload ==
  /\ rcv.pc = "payload"
  /\ rcv' = [pc |-> "tail",
             out |-> Content(rcv.out.id, rcv.out.size, cells[Index(tail)].data)]
  /\ UNCHANGED <<owner_end, head, tail, cells, sndVars, got, handoffs, pushed, popped>>

\* Only now may the sender reuse the cell; receive() returns true.
pop_tail ==
  /\ rcv.pc = "tail"
  /\ tail' = (tail + 1) % Word
  /\ rcv' = Waiting
  /\ got' = rcv.out
  /\ popped' = Append(popped, rcv.out)
  /\ UNCHANGED <<owner_end, head, cells, sndVars, handoffs, pushed>>

\* The ring is empty: receive() returns false.
receive_empty ==
  /\ rcv.pc = "idle" /\ Empty(head, tail)
  /\ UNCHANGED vars

-----------------------------------------------------------------------------
\* The owning subscriber dies, wherever it is, or leaves; its successor
\* attaches to the same session, numbering its commands from 1.
handoff ==
  /\ handoffs < MaxHandoffs
  /\ handoffs' = handoffs + 1
  /\ IF owner_end = "sender"
     THEN /\ snd' = Idle /\ next_cmd' = 1 /\ dropped' = 0
          /\ UNCHANGED rcv
     ELSE /\ rcv' = Waiting
          /\ UNCHANGED <<snd, next_cmd, dropped>>
  /\ UNCHANGED <<owner_end, head, tail, cells, calls, got, pushed, popped>>

Sender == \/ \E n \in 0 .. MaxBytes + 1 : send(n) \/ send_refused(n)
          \/ push_header
          \/ push_payload
          \/ push_head

PopStep == pop_header \/ pop_payload \/ pop_tail

Receiver == receive \/ receive_empty \/ PopStep

Next == Sender \/ Receiver \/ handoff

Spec == Init /\ [][Next]_vars

\* The receiving end's loop keeps calling receive(), and a call runs on.
\* Nothing is assumed of the sending end.
Fairness == WF_vars(receive) /\ WF_vars(PopStep)

FairSpec == Spec /\ Fairness

-----------------------------------------------------------------------------
(* Properties *)

\* The commands that MaxSends calls can send.
Command == [id : 0 .. MaxSends, size : 0 .. MaxBytes, data : 0 .. MaxSends]

\* Every variable holds a value of its type; the counters stay below Word.
TypeOK ==
  /\ owner_end \in {"sender", "receiver"}
  /\ head \in 0 .. Word - 1 /\ tail \in 0 .. Word - 1
  /\ cells \in [0 .. Slots - 1 -> Command]
  /\ snd \in [pc : {"idle", "header", "payload", "head"}, cmd : Command]
  /\ rcv \in [pc : {"idle", "header", "payload", "tail"}, out : Command]
  /\ got \in Command
  /\ next_cmd \in Nat /\ dropped \in Nat /\ calls \in Nat /\ handoffs \in Nat
  /\ pushed \in Seq(Command) /\ popped \in Seq(Command)

SenderInside   == snd.pc \in {"header", "payload", "head"}
ReceiverInside == rcv.pc \in {"header", "payload", "tail"}

\* The two ends are never inside the same cell: the plain, non-atomic fields
\* of a command are never accessed concurrently, also across counter
\* wrap-around and after an owner died inside a cell.
CellExclusive == SenderInside /\ ReceiverInside => Index(head) # Index(tail)

\* Commands are delivered exactly once, in order, unaltered: what came out is
\* a prefix of what went in, whoever owned the channel meanwhile.
ExactlyOnceInOrder ==
  /\ Len(popped) <= Len(pushed)
  /\ \A k \in 1 .. Len(popped) : popped[k] = pushed[k]

\* A refused send leaves no hole in the ids the peer sees: they count up by
\* one, and start again from 1 only with a new sender.
IdsHaveNoGaps ==
  \A k \in 1 .. Len(pushed) - 1 :
    pushed[k + 1].id \in {pushed[k].id + 1, 1}

\* The queue as it lies in shared memory.
Queued == [i \in 1 .. Used(head, tail) |->
             LET c == cells[Index(tail + i - 1)] IN Content(c.id, c.size, c.data)]

Fifo == INSTANCE BoundedFifo WITH Bound <- Slots, queue <- Queued

\* The ring implements a bounded FIFO queue.
ImplementsFifo == Fifo!Spec

\* A command that became visible is eventually delivered.
Delivered ==
  \A n \in 1 .. MaxSends : Len(pushed) >= n ~> Len(popped) >= n
=============================================================================
