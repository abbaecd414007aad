---------------------------- MODULE FrameChannel ----------------------------
(***************************************************************************)
(* The frame half of a segment: SlotCount slots, each guarded by a seqlock *)
(* (LLSlotHeader::seq), and the packed word LLHeader::latest that names    *)
(* the newest one.  One LLPublisher writes; any number of LLSubscribers    *)
(* copy out of it, without a lock, the bytes it may be writing.            *)
(*                                                                         *)
(* Every access to shared memory that another process can observe is a     *)
(* step.  Non-atomic data (the slot header fields and the payload) is read *)
(* and written one word at a time in any order between the two sequence    *)
(* numbers that bracket it: exactly the freedom the release and acquire    *)
(* fences of the code leave to the compiler and the hardware.              *)
(*                                                                         *)
(* A payload is payload_bytes words, and a word is the number of the write *)
(* attempt that put it there: width, height and stride are abstracted to   *)
(* payload_bytes, the timestamp to frame_id (written with it).  Calls that *)
(* the code refuses without touching the segment (a throttled, oversized   *)
(* or doubled begin_write, a commit with nothing pending, a throttled or   *)
(* detached read) are stuttering steps here.  publish() is begin_write,    *)
(* one render per word, then commit.                                       *)
(***************************************************************************)
EXTENDS Integers, Sequences

CONSTANTS
  SlotCount,    \* LLConfig::slot_count
  MaxPayload,   \* LLConfig::max_payload(), in words
  Readers,      \* the LLSubscribers attached to this segment
  Capacities,   \* the destination sizes the callers of read_latest pass
  Retries,      \* attempts per read_latest call (the literal 4 in the code)
  Word,         \* modulus of the 64-bit counters
  MaxAttempts,  \* bound: number of begin_write calls that are let through
  MaxCancels    \* bound: how many of them end in cancel_write

kMaxSlots == 4
kMinSlots == 3

ASSUME FrameChannelAssumption ==
  /\ SlotCount \in kMinSlots .. kMaxSlots
  /\ MaxPayload \in Nat \ {0}
  /\ Capacities \subseteq Nat
  /\ Retries \in Nat \ {0}
  /\ MaxAttempts \in Nat
  /\ MaxCancels \in Nat
  /\ Word \in Nat /\ Word > MaxAttempts

VARIABLES
  \* shared memory
  slots,        \* slot index -> [seq, frame_id, payload_bytes, payload]
  latest,       \* LLHeader::latest, packed; 0 = nothing published yet
  shutdown,     \* LLHeader::shutdown
  \* the publisher's private state
  pub_pc,       \* which step of begin_write/commit comes next
  alive,        \* FALSE once the publisher was destroyed or crashed
  write_slot, frame_id, pending_bytes,
  attempts, cancels,
  \* the subscribers' private state
  rd,
  \* history
  published,    \* published[f] is the image committed as frame f
  overwritten   \* frames whose slot was reopened by a write later cancelled

pubVars  == <<pub_pc, alive, write_slot, frame_id, pending_bytes, attempts, cancels>>
histVars == <<published, overwritten>>
vars     == <<slots, latest, shutdown, pubVars, rd, histVars>>

Slot  == 0 .. SlotCount - 1
Words == 1 .. MaxPayload

\* (frame_id << 2) | slot_index and its two projections.
\* MUTANT of Pack: shifted by one bit instead of two.
Pack_ShiftOne(f, s) == f * 2 + s

Pack(f, s)    == f * kMaxSlots + s
FrameOf(p)    == p \div kMaxSlots
SlotOf(p)     == p % kMaxSlots

Odd(n)        == n % 2 = 1
Image(n, w)   == [i \in 1 .. n |-> w[i]]
SlotImage(s)  == Image(slots[s].payload_bytes, slots[s].payload)

EmptySlot == [seq |-> 0, frame_id |-> 0, payload_bytes |-> 0,
              payload |-> [i \in Words |-> 0]]

NoInfo == [frame_id |-> 0, payload_bytes |-> 0]

IdleReader ==
  [pc |-> "idle", attempt |-> 0, capacity |-> 0, packed |-> 0, before |-> 0,
   todo |-> {}, fi |-> NoInfo, dst |-> [i \in Words |-> 0],
   last_frame |-> 0, dropped |-> 0, result |-> "none", info |-> NoInfo]

Init ==
  /\ slots = [s \in Slot |-> EmptySlot]
  /\ latest = 0
  /\ shutdown = FALSE
  /\ pub_pc = "idle" /\ alive = TRUE
  /\ write_slot = 0 /\ frame_id = 0 /\ pending_bytes = 0
  /\ attempts = 0 /\ cancels = 0
  /\ rd = [r \in Readers |-> IdleReader]
  /\ published = << >>
  /\ overwritten = {}

-----------------------------------------------------------------------------
(* The publisher *)

\* MUTANT of NextSlot: no wrap-around.
NextSlot_NoWrap(w) == w + 1

NextSlot(w) == (w + 1) % SlotCount

\* begin_write, up to the fence: pick the next slot, mark it odd.
begin_write(n) ==
  /\ alive /\ pub_pc = "idle"
  /\ n \in 1 .. MaxPayload
  /\ attempts < MaxAttempts
  /\ attempts' = attempts + 1
  /\ write_slot' = NextSlot(write_slot)
  /\ slots' = [slots EXCEPT ![NextSlot(write_slot)].seq = @ + 1]
  /\ pending_bytes' = n
  /\ pub_pc' = "geometry"
  /\ UNCHANGED <<latest, shutdown, alive, frame_id, cancels, rd, histVars>>

\* begin_write, after the fence: the geometry; pending is now set.
write_geometry ==
  /\ alive /\ pub_pc = "geometry"
  /\ slots' = [slots EXCEPT ![write_slot].payload_bytes = pending_bytes]
  /\ pub_pc' = "writing"
  /\ UNCHANGED <<latest, shutdown, alive, write_slot, frame_id, pending_bytes,
                 attempts, cancels, rd, histVars>>

\* The application (or publish()'s memcpy) stores one word of the payload.
\* It may leave words as they were.
render(i) ==
  /\ alive /\ pub_pc = "writing"
  /\ i \in 1 .. slots[write_slot].payload_bytes
  /\ slots[write_slot].payload[i] # attempts
  /\ slots' = [slots EXCEPT ![write_slot].payload[i] = attempts]
  /\ UNCHANGED <<latest, shutdown, pubVars, rd, histVars>>

cancel_write ==
  /\ alive /\ pub_pc = "writing"
  /\ cancels < MaxCancels
  /\ cancels' = cancels + 1
  /\ slots' = [slots EXCEPT ![write_slot].seq = @ + 1]
  /\ overwritten' = overwritten \union {slots[write_slot].frame_id}
  /\ pub_pc' = "idle"
  /\ UNCHANGED <<latest, shutdown, alive, write_slot, frame_id, pending_bytes,
                 attempts, rd, published>>

\* MUTANT of commit_stamp: m.frame_id++ instead of ++m.frame_id.
commit_stamp_PostIncrement ==
  /\ alive /\ pub_pc = "writing"
  /\ frame_id' = frame_id + 1
  /\ slots' = [slots EXCEPT ![write_slot].frame_id = frame_id]
  /\ pub_pc' = "stamped"
  /\ UNCHANGED <<latest, shutdown, alive, write_slot, pending_bytes, attempts,
                 cancels, rd, histVars>>

\* commit, first part: frame_id (and timestamp) while the slot is still odd.
commit_stamp ==
  /\ alive /\ pub_pc = "writing"
  /\ frame_id' = frame_id + 1
  /\ slots' = [slots EXCEPT ![write_slot].frame_id = frame_id + 1]
  /\ pub_pc' = "stamped"
  /\ UNCHANGED <<latest, shutdown, alive, write_slot, pending_bytes, attempts,
                 cancels, rd, histVars>>

\* commit, second part: the slot becomes even.
commit_seq ==
  /\ alive /\ pub_pc = "stamped"
  /\ slots' = [slots EXCEPT ![write_slot].seq = @ + 1]
  /\ published' = Append(published, SlotImage(write_slot))
  /\ pub_pc' = "sealed"
  /\ UNCHANGED <<latest, shutdown, alive, write_slot, frame_id, pending_bytes,
                 attempts, cancels, rd, overwritten>>

\* commit, last part: latest names the slot; pending is cleared.
commit_latest ==
  /\ alive /\ pub_pc = "sealed"
  /\ latest' = Pack(frame_id, write_slot)
  /\ pub_pc' = "idle"
  /\ UNCHANGED <<slots, shutdown, alive, write_slot, frame_id, pending_bytes,
                 attempts, cancels, rd, histVars>>

\* ~LLPublisher, between two calls, a write possibly still pending.
destroy ==
  /\ alive /\ pub_pc \in {"idle", "writing"}
  /\ shutdown' = TRUE
  /\ alive' = FALSE
  /\ UNCHANGED <<slots, latest, pub_pc, write_slot, frame_id, pending_bytes,
                 attempts, cancels, rd, histVars>>

\* The publishing process dies anywhere, a slot possibly left odd.
crash ==
  /\ alive
  /\ alive' = FALSE
  /\ UNCHANGED <<slots, latest, shutdown, pub_pc, write_slot, frame_id,
                 pending_bytes, attempts, cancels, rd, histVars>>

-----------------------------------------------------------------------------
(* A subscriber: LLSubscriber::read_latest, once poll() returned true and   *)
(* the read gate is open.                                                   *)

PublisherUnchanged == UNCHANGED <<slots, latest, shutdown, pubVars, histVars>>

\* The locals of one round go out of scope and control moves to pc.
EndRound(me, pc) ==
  [me EXCEPT !.pc = pc, !.packed = 0, !.before = 0, !.todo = {}, !.fi = NoInfo]

\* Return x to the caller.
Return(me, x) == [EndRound(me, "idle") EXCEPT !.attempt = 0, !.result = x]

\* MUTANT of Continue: the round is not counted.
Continue_Uncounted(me) == EndRound(me, "latest")

\* `continue`: another round, or Contended after the last one.
Continue(me) ==
  IF me.attempt + 1 < Retries
  THEN [EndRound(me, "latest") EXCEPT !.attempt = @ + 1]
  ELSE Return(me, "Contended")

\* MUTANT of WriterInside: the parity of seq is not looked at.
WriterInside_Ignored(seq) == FALSE

\* A writer is inside the slot whose sequence number is seq.
WriterInside(seq) == Odd(seq)

\* What the caller is told if the seqlock check succeeds.
Outcome(bytes, capacity) ==
  IF bytes = 0 \/ bytes > MaxPayload THEN "Contended"
  ELSE IF bytes > capacity THEN "BufferTooSmall"
  ELSE "Ok"

\* 0 stands for the frame_id field; the payload is copied only when it fits.
FieldsToCopy(bytes, capacity) ==
  {0} \union (IF Outcome(bytes, capacity) = "Ok" THEN 1 .. bytes ELSE {})

\* MUTANT of AddDropped: the subtraction is not guarded and wraps.
AddDropped_Unguarded(d, last, f) ==
  IF last # 0 THEN (d + f - last - 1) % Word ELSE d

AddDropped(d, last, f) ==
  IF last # 0 /\ f > last THEN (d + f - last - 1) % Word ELSE d

\* The caller passes a fresh buffer of c words and a fresh LLFrameInfo.
read_latest(r, c) ==
  /\ rd[r].pc = "idle"
  /\ rd' = [rd EXCEPT ![r] =
              [rd[r] EXCEPT !.pc = "latest", !.capacity = c, !.result = "none",
                            !.info = NoInfo, !.dst = [i \in Words |-> 0]]]
  /\ PublisherUnchanged

load_latest(r) ==
  /\ rd[r].pc = "latest"
  /\ IF latest = 0 \/ FrameOf(latest) = rd[r].last_frame
     THEN rd' = [rd EXCEPT ![r].pc = "shutdown"]
     ELSE IF SlotOf(latest) >= SlotCount
          THEN rd' = [rd EXCEPT ![r] = Return(rd[r], "Contended")]
          ELSE rd' = [rd EXCEPT ![r] = [rd[r] EXCEPT !.pc = "seq", !.packed = latest]]
  /\ PublisherUnchanged

load_shutdown(r) ==
  /\ rd[r].pc = "shutdown"
  /\ rd' = [rd EXCEPT ![r] =
              Return(rd[r], IF shutdown THEN "Disconnected" ELSE "NoNewFrame")]
  /\ PublisherUnchanged

load_seq(r) ==
  /\ rd[r].pc = "seq"
  /\ LET seq == slots[SlotOf(rd[r].packed)].seq IN
       IF WriterInside(seq)
       THEN rd' = [rd EXCEPT ![r] = Continue(rd[r])]
       ELSE rd' = [rd EXCEPT ![r] = [rd[r] EXCEPT !.pc = "bytes", !.before = seq]]
  /\ PublisherUnchanged

load_bytes(r) ==
  /\ rd[r].pc = "bytes"
  /\ LET n == slots[SlotOf(rd[r].packed)].payload_bytes IN
       rd' = [rd EXCEPT ![r] =
                [rd[r] EXCEPT !.pc = "copy", !.fi.payload_bytes = n,
                              !.todo = FieldsToCopy(n, rd[r].capacity)]]
  /\ PublisherUnchanged

copy_field(r, i) ==
  /\ rd[r].pc = "copy"
  /\ i \in rd[r].todo
  /\ LET me == rd[r]
         s  == slots[SlotOf(me.packed)]
     IN rd' = [rd EXCEPT ![r] =
          IF i = 0 THEN [me EXCEPT !.todo = me.todo \ {i}, !.fi.frame_id = s.frame_id]
                   ELSE [me EXCEPT !.todo = me.todo \ {i}, !.dst[i] = s.payload[i]]]
  /\ PublisherUnchanged

\* MUTANT of ReturnOk: the frame is handed out and not remembered.
ReturnOk_Forgets(me) == [Return(me, "Ok") EXCEPT !.info = me.fi]

\* A read that succeeds: count what was skipped, remember the frame.
ReturnOk(me) ==
  [Return(me, "Ok") EXCEPT
     !.info       = me.fi,
     !.dropped    = AddDropped(me.dropped, me.last_frame, me.fi.frame_id),
     !.last_frame = me.fi.frame_id]

\* The seqlock check and, when it succeeds, the rest of the call.
check_seq(r) ==
  /\ rd[r].pc = "copy" /\ rd[r].todo = {}
  /\ LET me == rd[r]
         x  == Outcome(me.fi.payload_bytes, me.capacity)
     IN rd' = [rd EXCEPT ![r] =
                 IF slots[SlotOf(me.packed)].seq # me.before THEN Continue(me)
                 ELSE IF x = "Ok" THEN ReturnOk(me)
                 ELSE IF x = "BufferTooSmall" THEN [Return(me, x) EXCEPT !.info = me.fi]
                 ELSE Return(me, x)]
  /\ PublisherUnchanged

-----------------------------------------------------------------------------
Publisher ==
  \/ \E n \in 1 .. MaxPayload : begin_write(n)
  \/ write_geometry
  \/ \E i \in Words : render(i)
  \/ cancel_write
  \/ commit_stamp
  \/ commit_seq
  \/ commit_latest
  \/ destroy
  \/ crash

\* The steps of a read_latest call that has begun.
ReadStep(r) ==
  \/ load_latest(r)
  \/ load_shutdown(r)
  \/ load_seq(r)
  \/ load_bytes(r)
  \/ \E i \in 0 .. MaxPayload : copy_field(r, i)
  \/ check_seq(r)

Subscriber(r) == (\E c \in Capacities : read_latest(r, c)) \/ ReadStep(r)

Next == Publisher \/ \E r \in Readers : Subscriber(r)

Spec == Init /\ [][Next]_vars

\* A call that has begun runs on, whatever the publisher does, and the
\* application keeps calling read_latest (its render loop).  Nothing is
\* assumed of the publisher.
Fairness == \A r \in Readers :
  /\ WF_vars(ReadStep(r))
  /\ WF_vars(\E c \in Capacities : read_latest(r, c))

FairSpec == Spec /\ Fairness

-----------------------------------------------------------------------------
(* Properties *)

PubPCs    == {"idle", "geometry", "writing", "stamped", "sealed"}
ReaderPCs == {"idle", "latest", "shutdown", "seq", "bytes", "copy"}
Results   == {"none", "Ok", "NoNewFrame", "Contended", "BufferTooSmall", "Disconnected"}

SlotType   == [seq : Nat, frame_id : Nat, payload_bytes : 0 .. MaxPayload,
               payload : [Words -> Nat]]
InfoType   == [frame_id : Nat, payload_bytes : 0 .. MaxPayload]
ReaderType == [pc : ReaderPCs, attempt : Nat, capacity : Nat, packed : Nat,
               before : Nat, todo : SUBSET (0 .. MaxPayload), fi : InfoType,
               dst : [Words -> Nat], last_frame : Nat, dropped : Nat,
               result : Results, info : InfoType]

\* Every variable holds a value of its C++ type; slot indices stay below
\* slot_count and sizes below max_payload().
TypeOK ==
  /\ slots \in [Slot -> SlotType]
  /\ latest \in Nat
  /\ shutdown \in BOOLEAN
  /\ pub_pc \in PubPCs /\ alive \in BOOLEAN
  /\ write_slot \in Slot /\ frame_id \in Nat /\ pending_bytes \in 0 .. MaxPayload
  /\ attempts \in Nat /\ cancels \in Nat
  /\ rd \in [Readers -> ReaderType]
  /\ published \in Seq(Seq(Nat))
  /\ overwritten \subseteq Nat

\* The image read_latest left in the caller's buffer.
Delivered(r) == Image(rd[r].info.payload_bytes, rd[r].dst)

\* No tearing, no invention: what read_latest returns with Ok is, word for
\* word, an image that was committed under the frame id it returns, unless a
\* later write into that frame's slot was cancelled.  The reader copies from
\* a slot the publisher may reopen at any moment, with no lock.
OkIsPublished ==
  \A r \in Readers : rd[r].result = "Ok" =>
    LET f == rd[r].info.frame_id IN
      /\ f \in 1 .. Len(published)
      /\ f \notin overwritten => Delivered(r) = published[f]

\* r's call returns Ok in this step.
ReturnsOk(r) == rd[r].pc = "copy" /\ rd'[r].pc = "idle" /\ rd'[r].result = "Ok"

\* A reader that was lapped between loading `latest` and loading the slot's
\* seq may get a newer frame than the one `latest` named, never an older one.
NotOlderThanNamed ==
  [][\A r \in Readers : ReturnsOk(r) =>
       rd'[r].info.frame_id >= FrameOf(rd[r].packed)]_vars

\* Because a slot becomes readable (seq even) before `latest` names it, a
\* reader can overtake `latest` and then be handed the frame before; it never
\* goes back further than that one frame.
RegressAtMostOne ==
  [][\A r \in Readers : ReturnsOk(r) =>
       rd'[r].info.frame_id >= rd[r].last_frame - 1]_vars

\* frames_dropped() stays below the newest frame id seen: the unsigned
\* subtraction behind it never wraps, also when frames come out of order.
DropCountSane ==
  \A r \in Readers : rd[r].dropped = 0 \/ rd[r].dropped < rd[r].last_frame

\* read_latest always returns after finitely many of its own steps, whatever
\* the publisher does: it may lap the reader, crash inside a slot, or stop.
ReadTerminates ==
  \A r \in Readers : rd[r].pc # "idle" ~> rd[r].pc = "idle"

\* Latest-wins: once the publisher pauses or dies, a subscriber that keeps
\* calling gets the newest frame or is told that its buffer is too small for
\* it, unless the publisher stopped inside the slot (which only cancelled
\* writes make possible).
NewestIsRead ==
  \A r \in Readers :
    []<>(\/ rd[r].last_frame >= FrameOf(latest)
         \/ rd[r].result = "BufferTooSmall"
         \/ WriterInside(slots[SlotOf(latest)].seq))

\* llshmframe.h on LLReadResult::Ok: "a new frame was copied out".
OkIsNewFrame ==
  [][\A r \in Readers : ReturnsOk(r) =>
       rd'[r].info.frame_id > rd[r].last_frame]_vars

\* llpublisher.cpp on cancel_write: "no subscriber will ever visit this slot
\* for this write attempt": no word of a cancelled attempt is delivered.
CancelledNeverRead ==
  \A r \in Readers : rd[r].result = "Ok" =>
    LET f == rd[r].info.frame_id IN
      f \in 1 .. Len(published) /\ Delivered(r) = published[f]
=============================================================================
