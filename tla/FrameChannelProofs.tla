------------------------- MODULE FrameChannelProofs -------------------------
(***************************************************************************)
(* Proofs about FrameChannel, for every number of slots, readers, words,   *)
(* retries and every bound.  The inductive invariant adds to TypeOK:       *)
(*                                                                         *)
(*   ParityInv   seq is odd exactly in the slot being written;             *)
(*   HistoryInv  how frame_id, latest, the slots' frame ids and the        *)
(*               published history relate at every step of a commit;       *)
(*   ImageInv    a closed slot holds the image published under its id;     *)
(*   ReaderInv   what a reader has copied is still in the slot as long as  *)
(*               the sequence number it started from is.                   *)
(***************************************************************************)
EXTENDS FrameChannel, TLAPS

\* The publisher is between the two sequence increments of slot s.
Open(s) == s = write_slot /\ pub_pc \in {"geometry", "writing", "stamped"}

ParityInv == \A s \in Slot : Odd(slots[s].seq) <=> Open(s)

HistoryInv ==
  /\ Len(published) = IF pub_pc = "stamped" THEN frame_id - 1 ELSE frame_id
  /\ FrameOf(latest) = IF pub_pc \in {"stamped", "sealed"} THEN frame_id - 1 ELSE frame_id
  /\ pub_pc \in {"stamped", "sealed"} => frame_id >= 1 /\ slots[write_slot].frame_id = frame_id
  /\ \A s \in Slot :
       \/ slots[s].frame_id <= Len(published)
       \/ s = write_slot /\ pub_pc = "stamped"
  /\ latest # 0 => /\ FrameOf(latest) >= 1
                   /\ SlotOf(latest) \in Slot
                   /\ slots[SlotOf(latest)].frame_id >= FrameOf(latest)

ImageInv ==
  \A s \in Slot :
    LET f == slots[s].frame_id IN
      ~Open(s) /\ f >= 1 /\ f \notin overwritten => SlotImage(s) = published[f]

\* What a reader knows from the word it loaded from `latest`.
PackedInv(r) ==
  rd[r].pc \in {"seq", "bytes", "copy"} =>
    /\ FrameOf(rd[r].packed) >= 1
    /\ FrameOf(rd[r].packed) >= rd[r].last_frame - 1
    /\ SlotOf(rd[r].packed) \in Slot
    /\ slots[SlotOf(rd[r].packed)].frame_id >= FrameOf(rd[r].packed)

\* What it knows from the sequence number it loaded.
BeforeInv(r) ==
  rd[r].pc \in {"bytes", "copy"} =>
    /\ ~Odd(rd[r].before)
    /\ rd[r].before <= slots[SlotOf(rd[r].packed)].seq

\* What it knows of the fields it copied, if the check is going to succeed.
CopyInv(r) ==
  LET me == rd[r]
      s  == slots[SlotOf(me.packed)]
  IN me.pc = "copy" /\ s.seq = me.before =>
       /\ me.fi.payload_bytes = s.payload_bytes
       /\ 0 \notin me.todo => me.fi.frame_id = s.frame_id
       /\ Outcome(me.fi.payload_bytes, me.capacity) = "Ok" =>
            \A i \in 1 .. s.payload_bytes : i \notin me.todo => me.dst[i] = s.payload[i]

\* What the caller was given.
ResultInv(r) ==
  /\ rd[r].last_frame <= Len(published)
  /\ rd[r].result = "Ok" =>
       /\ rd[r].pc = "idle"
       /\ rd[r].info.frame_id \in 1 .. Len(published)
       /\ rd[r].info.frame_id \notin overwritten =>
            Delivered(r) = published[rd[r].info.frame_id]

ReaderInv == \A r \in Readers :
  PackedInv(r) /\ BeforeInv(r) /\ CopyInv(r) /\ ResultInv(r)

IInv == TypeOK /\ ParityInv /\ HistoryInv /\ ImageInv /\ ReaderInv

-----------------------------------------------------------------------------
(* The helpers *)

\* The slot ring wraps: begin_write always picks a slot below slot_count.
LEMMA NextSlotType == \A w \in Slot : NextSlot(w) \in Slot
<1> SUFFICES ASSUME NEW w \in Slot PROVE NextSlot(w) \in Slot
  OBVIOUS
<1>1. CASE SlotCount = 3
  BY <1>1 DEF Slot, NextSlot
<1>2. CASE SlotCount = 4
  BY <1>2 DEF Slot, NextSlot
<1> QED
  BY <1>1, <1>2, FrameChannelAssumption DEF kMinSlots, kMaxSlots

\* Two bits are enough for every slot index: packing loses nothing.
LEMMA PackLemma ==
  ASSUME NEW f \in Nat, NEW s \in Slot
  PROVE  /\ Pack(f, s) \in Nat
         /\ FrameOf(Pack(f, s)) = f
         /\ SlotOf(Pack(f, s)) = s
<1>1. s \in 0 .. 3
  BY FrameChannelAssumption DEF Slot, kMinSlots, kMaxSlots
<1> QED
  BY <1>1 DEF Pack, FrameOf, SlotOf, kMaxSlots

\* The projections of `latest` are numbers.
LEMMA UnpackType ==
  ASSUME NEW p \in Nat
  PROVE  FrameOf(p) \in Nat /\ SlotOf(p) \in 0 .. kMaxSlots - 1
BY DEF FrameOf, SlotOf, kMaxSlots

\* An image is a sequence of words.
LEMMA ImageType ==
  ASSUME NEW n \in 0 .. MaxPayload, NEW w \in [Words -> Nat]
  PROVE  Image(n, w) \in Seq(Nat)
<1>1. n \in Nat /\ \A i \in 1 .. n : w[i] \in Nat
  BY FrameChannelAssumption DEF Words
<1> QED
  BY <1>1 DEF Image

\* The drop counter stays a 64-bit unsigned number.
LEMMA AddDroppedType ==
  ASSUME NEW d \in Nat, NEW last \in Nat, NEW f \in Nat
  PROVE  AddDropped(d, last, f) \in Nat
<1>1. Word \in Nat /\ Word > 0
  BY FrameChannelAssumption
<1>2. \A x \in Int : x % Word \in Nat
  BY <1>1
<1> QED
  BY <1>2 DEF AddDropped

\* Leaving a round, and leaving the call, keep the reader well typed.
LEMMA ReaderStepType ==
  ASSUME NEW me \in ReaderType, NEW x \in Results
  PROVE  Return(me, x) \in ReaderType /\ Continue(me) \in ReaderType
<1>1. NoInfo \in InfoType
  BY FrameChannelAssumption DEF NoInfo, InfoType
<1>2. \A pc \in ReaderPCs : EndRound(me, pc) \in ReaderType
  BY <1>1 DEF EndRound, ReaderType
<1>3. \A y \in Results : Return(me, y) \in ReaderType
  BY <1>2 DEF Return, ReaderType, ReaderPCs
<1>4. EndRound(me, "latest") \in ReaderType /\ me.attempt \in Nat
  BY <1>2 DEF ReaderPCs, ReaderType
<1>5. [EndRound(me, "latest") EXCEPT !.attempt = @ + 1] \in ReaderType
  BY <1>4 DEF ReaderType
<1>6. Continue(me) \in ReaderType
  BY <1>3, <1>5 DEF Continue, Results
<1> QED
  BY <1>3, <1>6

-----------------------------------------------------------------------------
(* Types *)

\* A fresh segment is well typed.
LEMMA TypeInit == Init => TypeOK
<1> SUFFICES ASSUME Init PROVE TypeOK
  OBVIOUS
<1> USE FrameChannelAssumption
<1>1. EmptySlot \in SlotType
  BY DEF EmptySlot, SlotType, Words
<1>2. IdleReader \in ReaderType
  BY DEF IdleReader, ReaderType, NoInfo, InfoType, ReaderPCs, Results, Words
<1>3. 0 \in Slot
  BY DEF Slot, kMinSlots
<1> QED
  BY <1>1, <1>2, <1>3 DEF Init, TypeOK, PubPCs

\* Storing one field of a slot header keeps the slot well typed.
LEMMA SlotUpdateType ==
  ASSUME NEW h \in SlotType, NEW n \in Nat
  PROVE  /\ [h EXCEPT !.seq = n] \in SlotType
         /\ [h EXCEPT !.frame_id = n] \in SlotType
BY DEF SlotType

\* Replacing one slot by a well-typed one keeps the slot array well typed.
LEMMA SlotsUpdateType ==
  ASSUME slots \in [Slot -> SlotType], NEW s \in Slot, NEW h \in SlotType
  PROVE  [slots EXCEPT ![s] = h] \in [Slot -> SlotType]
OBVIOUS

\* No step of the publisher leaves the types.
LEMMA TypePublisher == TypeOK /\ Publisher => TypeOK'
<1> SUFFICES ASSUME TypeOK, Publisher PROVE TypeOK'
  OBVIOUS
<1> USE FrameChannelAssumption
<1>0. ASSUME NEW s \in Slot
      PROVE  /\ slots[s] \in SlotType
             /\ [slots[s] EXCEPT !.seq = @ + 1] \in SlotType
             /\ [slots[s] EXCEPT !.frame_id = frame_id + 1] \in SlotType
  <2>1. slots[s] \in SlotType
    BY DEF TypeOK
  <2>2. slots[s].seq + 1 \in Nat /\ frame_id + 1 \in Nat
    BY <2>1 DEF SlotType, TypeOK
  <2> QED
    BY <2>1, <2>2, SlotUpdateType
<1>1. ASSUME NEW n \in 1 .. MaxPayload, begin_write(n) PROVE TypeOK'
  <2>1. slots' \in [Slot -> SlotType]
    BY <1>0, <1>1, NextSlotType, SlotsUpdateType DEF TypeOK, begin_write
  <2> QED
    BY <1>1, <2>1, NextSlotType DEF TypeOK, begin_write, histVars, PubPCs
<1>2. CASE write_geometry
  <2>1. [slots[write_slot] EXCEPT !.payload_bytes = pending_bytes] \in SlotType
    BY <1>0 DEF TypeOK, SlotType
  <2>2. slots' \in [Slot -> SlotType]
    BY <1>2, <2>1 DEF TypeOK, write_geometry
  <2> QED
    BY <1>2, <2>2 DEF TypeOK, write_geometry, histVars, PubPCs
<1>3. ASSUME NEW i \in Words, render(i) PROVE TypeOK'
  <2>1. [slots[write_slot].payload EXCEPT ![i] = attempts] \in [Words -> Nat]
    BY <1>0 DEF TypeOK, SlotType
  <2>2. [slots[write_slot] EXCEPT !.payload = [@ EXCEPT ![i] = attempts]] \in SlotType
    BY <1>0, <2>1 DEF TypeOK, SlotType
  <2>3. slots' \in [Slot -> SlotType]
    BY <1>3, <2>2, SlotsUpdateType DEF TypeOK, render
  <2> QED
    BY <1>3, <2>3 DEF TypeOK, render, histVars, pubVars
<1>4. CASE cancel_write
  <2>1. slots' \in [Slot -> SlotType]
    BY <1>0, <1>4, SlotsUpdateType DEF TypeOK, cancel_write
  <2>2. slots[write_slot].frame_id \in Nat
    BY <1>0 DEF TypeOK, SlotType
  <2> QED
    BY <1>4, <2>1, <2>2 DEF TypeOK, cancel_write, PubPCs
<1>5. CASE commit_stamp
  <2>1. slots' \in [Slot -> SlotType]
    BY <1>0, <1>5, SlotsUpdateType DEF TypeOK, commit_stamp
  <2> QED
    BY <1>5, <2>1 DEF TypeOK, commit_stamp, histVars, PubPCs
<1>6. CASE commit_seq
  <2>1. SlotImage(write_slot) \in Seq(Nat)
    BY <1>0, ImageType DEF TypeOK, SlotImage, SlotType
  <2>2. slots' \in [Slot -> SlotType]
    BY <1>0, <1>6, SlotsUpdateType DEF TypeOK, commit_seq
  <2> QED
    BY <1>6, <2>1, <2>2 DEF TypeOK, commit_seq, PubPCs
<1>7. CASE commit_latest
  BY <1>7, PackLemma DEF TypeOK, commit_latest, histVars, PubPCs
<1>8. CASE destroy
  BY <1>8 DEF TypeOK, destroy, histVars
<1>9. CASE crash
  BY <1>9 DEF TypeOK, crash, histVars
<1> QED
  BY <1>1, <1>2, <1>3, <1>4, <1>5, <1>6, <1>7, <1>8, <1>9 DEF Publisher

\* A reader stays within its types because `latest` only names slots.
LEMMA TypeSubscriber ==
  ASSUME TypeOK, NEW r \in Readers, PackedInv(r), Subscriber(r)
  PROVE  TypeOK'
<1> USE FrameChannelAssumption
<1>0. rd[r] \in ReaderType /\ DOMAIN rd = Readers
  BY DEF TypeOK
<1>00. \A s \in Slot : slots[s] \in SlotType
  BY DEF TypeOK
<1>1. ASSUME NEW c \in Capacities, read_latest(r, c) PROVE TypeOK'
  <2>0. NoInfo \in InfoType /\ [i \in Words |-> 0] \in [Words -> Nat] /\ c \in Nat
    BY DEF NoInfo, InfoType
  <2>1. [rd[r] EXCEPT !.pc = "latest", !.capacity = c, !.result = "none",
                      !.info = NoInfo, !.dst = [i \in Words |-> 0]] \in ReaderType
    BY <1>0, <2>0 DEF ReaderType, ReaderPCs, Results
  <2>2. rd' \in [Readers -> ReaderType]
    BY <1>1, <2>1 DEF TypeOK, read_latest
  <2> QED
    BY <1>1, <2>2 DEF TypeOK, read_latest, PublisherUnchanged, pubVars, histVars
<1>2. CASE load_latest(r)
  <2>1. /\ [rd[r] EXCEPT !.pc = "shutdown"] \in ReaderType
        /\ [rd[r] EXCEPT !.pc = "seq", !.packed = latest] \in ReaderType
    BY <1>0 DEF TypeOK, ReaderType, ReaderPCs
  <2>2. Return(rd[r], "Contended") \in ReaderType
    BY <1>0, ReaderStepType DEF Results
  <2>3. rd' \in [Readers -> ReaderType]
    BY <1>2, <2>1, <2>2 DEF TypeOK, load_latest
  <2> QED
    BY <1>2, <2>3 DEF TypeOK, load_latest, PublisherUnchanged, pubVars, histVars
<1>3. CASE load_shutdown(r)
  <2>1. rd' \in [Readers -> ReaderType]
    BY <1>0, <1>3, ReaderStepType DEF TypeOK, load_shutdown, Results
  <2> QED
    BY <1>3, <2>1 DEF TypeOK, load_shutdown, PublisherUnchanged, pubVars, histVars
<1>4. CASE load_seq(r)
  <2>1. slots[SlotOf(rd[r].packed)].seq \in Nat
    BY <1>00, <1>4 DEF load_seq, PackedInv, SlotType
  <2>2. Continue(rd[r]) \in ReaderType
    BY <1>0, ReaderStepType DEF Results
  <2>3. [rd[r] EXCEPT !.pc = "bytes", !.before = slots[SlotOf(rd[r].packed)].seq]
          \in ReaderType
    BY <1>0, <2>1 DEF ReaderType, ReaderPCs
  <2>4. rd' \in [Readers -> ReaderType]
    BY <1>4, <2>2, <2>3 DEF TypeOK, load_seq
  <2> QED
    BY <1>4, <2>4 DEF TypeOK, load_seq, PublisherUnchanged, pubVars, histVars
<1>5. CASE load_bytes(r)
  <2> DEFINE n == slots[SlotOf(rd[r].packed)].payload_bytes
  <2>1. n \in 0 .. MaxPayload
    BY <1>00, <1>5 DEF load_bytes, PackedInv, SlotType
  <2>2. FieldsToCopy(n, rd[r].capacity) \in SUBSET (0 .. MaxPayload)
    BY <2>1 DEF FieldsToCopy
  <2>3. rd[r].fi \in InfoType /\ [rd[r].fi EXCEPT !.payload_bytes = n] \in InfoType
    BY <1>0, <2>1 DEF ReaderType, InfoType
  <2>4. [rd[r] EXCEPT !.pc = "copy", !.fi.payload_bytes = n,
                      !.todo = FieldsToCopy(n, rd[r].capacity)] \in ReaderType
    BY <1>0, <2>2, <2>3 DEF ReaderType, ReaderPCs
  <2>5. rd' \in [Readers -> ReaderType]
    BY <1>5, <2>4 DEF TypeOK, load_bytes
  <2> QED
    BY <1>5, <2>5 DEF TypeOK, load_bytes, PublisherUnchanged, pubVars, histVars
<1>6. ASSUME NEW i \in 0 .. MaxPayload, copy_field(r, i) PROVE TypeOK'
  <2> DEFINE s == slots[SlotOf(rd[r].packed)]
  <2>1. s.frame_id \in Nat /\ s.payload \in [Words -> Nat]
    BY <1>00, <1>6 DEF copy_field, PackedInv, SlotType
  <2>2. [rd[r].fi EXCEPT !.frame_id = s.frame_id] \in InfoType
    BY <1>0, <2>1 DEF ReaderType, InfoType
  <2>3. i # 0 => [rd[r].dst EXCEPT ![i] = s.payload[i]] \in [Words -> Nat]
    BY <1>0, <2>1 DEF ReaderType, Words
  <2>4. rd[r].todo \ {i} \in SUBSET (0 .. MaxPayload)
    BY <1>0 DEF ReaderType
  <2>5. /\ [rd[r] EXCEPT !.todo = rd[r].todo \ {i}, !.fi.frame_id = s.frame_id] \in ReaderType
        /\ i # 0 => [rd[r] EXCEPT !.todo = rd[r].todo \ {i}, !.dst[i] = s.payload[i]] \in ReaderType
    BY <1>0, <2>2, <2>3, <2>4 DEF ReaderType
  <2>6. rd' \in [Readers -> ReaderType]
    BY <1>6, <2>5 DEF TypeOK, copy_field
  <2> QED
    BY <1>6, <2>6 DEF TypeOK, copy_field, PublisherUnchanged, pubVars, histVars
<1>7. CASE check_seq(r)
  <2> DEFINE me == rd[r]
             x  == Outcome(me.fi.payload_bytes, me.capacity)
  <2>1. x \in Results /\ "Ok" \in Results
    BY DEF Outcome, Results
  <2>2. me.fi \in InfoType /\ me.fi.frame_id \in Nat
    BY <1>0 DEF ReaderType, InfoType
  <2>3. Return(me, x) \in ReaderType /\ Continue(me) \in ReaderType
    BY <1>0, <2>1, ReaderStepType
  <2>4. [Return(me, x) EXCEPT !.info = me.fi] \in ReaderType
    BY <2>2, <2>3 DEF ReaderType
  <2>5. AddDropped(me.dropped, me.last_frame, me.fi.frame_id) \in Nat
    BY <1>0, <2>2, AddDroppedType DEF ReaderType
  <2>6. Return(me, "Ok") \in ReaderType
    BY <1>0, <2>1, ReaderStepType
  <2>7. ReturnOk(me) \in ReaderType
    BY <2>2, <2>5, <2>6 DEF ReturnOk, ReaderType
  <2>8. rd' \in [Readers -> ReaderType]
    BY <1>0, <1>7, <2>3, <2>4, <2>7 DEF TypeOK, check_seq
  <2> QED
    BY <1>7, <2>8 DEF TypeOK, check_seq, PublisherUnchanged, pubVars, histVars
<1> QED
  BY <1>1, <1>2, <1>3, <1>4, <1>5, <1>6, <1>7 DEF Subscriber, ReadStep

-----------------------------------------------------------------------------
(* The publisher's side of the invariant *)

\* An increment flips the parity the seqlock relies on.
LEMMA OddSucc == \A n \in Nat : Odd(n + 1) <=> ~Odd(n)
BY DEF Odd

\* A fresh segment satisfies the inductive invariant.
LEMMA InitIInv == Init => IInv
<1> SUFFICES ASSUME Init PROVE IInv
  OBVIOUS
<1>1. TypeOK
  BY TypeInit
<1>2. ParityInv
  BY DEF Init, ParityInv, EmptySlot, Odd, Open
<1>3. FrameOf(0) = 0
  BY DEF FrameOf, kMaxSlots
<1>4. HistoryInv
  BY <1>3 DEF Init, HistoryInv, EmptySlot
<1>5. ImageInv
  BY DEF Init, ImageInv, EmptySlot
<1>6. ReaderInv
  BY DEF Init, ReaderInv, PackedInv, BeforeInv, CopyInv, ResultInv, IdleReader
<1> QED
  BY <1>1, <1>2, <1>4, <1>5, <1>6 DEF IInv

\* begin_write opens exactly one slot; commit and cancel_write close it again.
LEMMA PublisherParity == TypeOK /\ ParityInv /\ Publisher => ParityInv'
<1> SUFFICES ASSUME TypeOK, ParityInv, Publisher, NEW s \in Slot
             PROVE  Odd(slots'[s].seq) <=> Open(s)'
  BY DEF ParityInv
<1>0. slots[s].seq \in Nat /\ slots \in [Slot -> SlotType] /\ write_slot \in Slot
  BY DEF TypeOK, SlotType
<1>00. Odd(slots[s].seq) <=> Open(s)
  BY DEF ParityInv
<1>1. ASSUME NEW n \in 1 .. MaxPayload, begin_write(n) PROVE Odd(slots'[s].seq) <=> Open(s)'
  BY <1>0, <1>00, <1>1, OddSucc, NextSlotType DEF begin_write, Open, SlotType
<1>2. CASE write_geometry
  BY <1>0, <1>00, <1>2 DEF write_geometry, Open, SlotType
<1>3. ASSUME NEW i \in Words, render(i) PROVE Odd(slots'[s].seq) <=> Open(s)'
  BY <1>0, <1>00, <1>3 DEF render, pubVars, Open, SlotType
<1>4. CASE cancel_write
  BY <1>0, <1>00, <1>4, OddSucc DEF cancel_write, Open, SlotType
<1>5. CASE commit_stamp
  BY <1>0, <1>00, <1>5 DEF commit_stamp, Open, SlotType
<1>6. CASE commit_seq
  BY <1>0, <1>00, <1>6, OddSucc DEF commit_seq, Open, SlotType
<1>7. CASE commit_latest \/ destroy \/ crash
  BY <1>00, <1>7 DEF commit_latest, destroy, crash, Open
<1> QED
  BY <1>1, <1>2, <1>3, <1>4, <1>5, <1>6, <1>7 DEF Publisher

\* What any step of the publisher may do to what a reader has seen: sequence
\* numbers and frame ids only grow, a slot it is not inside of stays as it
\* is until its sequence number moves, and history is never rewritten.
Monotone ==
  /\ \A s \in Slot :
       /\ slots'[s].seq >= slots[s].seq
       /\ slots'[s].frame_id >= slots[s].frame_id
       /\ ~Odd(slots[s].seq) /\ slots'[s].seq = slots[s].seq => slots'[s] = slots[s]
  /\ Len(published') >= Len(published)
  /\ \A f \in 1 .. Len(published) : published'[f] = published[f]
  /\ overwritten \subseteq overwritten'
  /\ rd' = rd

\* No step of the publisher takes a sequence number or a frame id of a slot back.
LEMMA PublisherMonotone ==
  TypeOK /\ ParityInv /\ HistoryInv /\ Publisher => Monotone
<1> SUFFICES ASSUME TypeOK, ParityInv, HistoryInv, Publisher PROVE Monotone
  OBVIOUS
<1>0. /\ slots \in [Slot -> SlotType] /\ write_slot \in Slot
      /\ \A s \in Slot : slots[s].seq \in Nat /\ slots[s].frame_id \in Nat
      /\ published \in Seq(Seq(Nat)) /\ Len(published) \in Nat
  BY DEF TypeOK, SlotType
<1>00. pub_pc \in {"geometry", "writing", "stamped"} => Odd(slots[write_slot].seq)
  BY <1>0 DEF ParityInv, Open
<1>1. ASSUME NEW n \in 1 .. MaxPayload, begin_write(n) PROVE Monotone
  BY <1>0, <1>1, NextSlotType DEF begin_write, histVars, Monotone, SlotType
<1>2. CASE write_geometry
  BY <1>0, <1>00, <1>2 DEF write_geometry, histVars, Monotone, SlotType
<1>3. ASSUME NEW i \in Words, render(i) PROVE Monotone
  BY <1>0, <1>00, <1>3 DEF render, histVars, Monotone, SlotType
<1>4. CASE cancel_write
  BY <1>0, <1>4 DEF cancel_write, Monotone, SlotType
<1>5. CASE commit_stamp
  <2>1. slots[write_slot].frame_id <= frame_id + 1
    BY <1>0, <1>5 DEF commit_stamp, HistoryInv, TypeOK
  <2> QED
    BY <1>0, <1>00, <1>5, <2>1 DEF commit_stamp, histVars, Monotone, SlotType
<1>6. CASE commit_seq
  <2>1. /\ Len(published') = Len(published) + 1
        /\ \A f \in 1 .. Len(published) : published'[f] = published[f]
    BY <1>0, <1>6 DEF commit_seq
  <2> QED
    BY <1>0, <1>6, <2>1 DEF commit_seq, Monotone, SlotType
<1>7. CASE commit_latest \/ destroy \/ crash
  BY <1>0, <1>7 DEF commit_latest, destroy, crash, histVars, Monotone
<1> QED
  BY <1>1, <1>2, <1>3, <1>4, <1>5, <1>6, <1>7 DEF Publisher

\* The publisher keeps frame_id, latest, the slots and the history in step.
LEMMA PublisherHistory == TypeOK /\ HistoryInv /\ Publisher => HistoryInv'
<1> SUFFICES ASSUME TypeOK, HistoryInv, Publisher PROVE HistoryInv'
  OBVIOUS
<1>0. /\ slots \in [Slot -> SlotType] /\ write_slot \in Slot
      /\ \A s \in Slot : slots[s].frame_id \in Nat
      /\ published \in Seq(Seq(Nat)) /\ Len(published) \in Nat /\ frame_id \in Nat
      /\ latest \in Nat
  BY DEF TypeOK, SlotType
<1>00. FrameOf(latest) \in Nat
  BY <1>0, UnpackType
<1>1. ASSUME NEW n \in 1 .. MaxPayload, begin_write(n) PROVE HistoryInv'
  BY <1>0, <1>00, <1>1, NextSlotType DEF begin_write, histVars, HistoryInv, SlotType
<1>2. CASE write_geometry
  BY <1>0, <1>00, <1>2 DEF write_geometry, histVars, HistoryInv, SlotType
<1>3. ASSUME NEW i \in Words, render(i) PROVE HistoryInv'
  BY <1>0, <1>00, <1>3 DEF render, histVars, pubVars, HistoryInv, SlotType
<1>4. CASE cancel_write
  BY <1>0, <1>00, <1>4 DEF cancel_write, HistoryInv, SlotType
<1>5. CASE commit_stamp
  BY <1>0, <1>00, <1>5 DEF commit_stamp, histVars, HistoryInv, SlotType
<1>6. CASE commit_seq
  <2>1. Len(published') = Len(published) + 1
    BY <1>0, <1>6 DEF commit_seq
  <2> QED
    BY <1>0, <1>00, <1>6, <2>1 DEF commit_seq, HistoryInv, SlotType
<1>7. CASE commit_latest
  <2>1. FrameOf(latest') = frame_id /\ SlotOf(latest') = write_slot
    BY <1>0, <1>00, <1>7, PackLemma DEF commit_latest
  <2> QED
    BY <1>0, <1>00, <1>7, <2>1 DEF commit_latest, histVars, HistoryInv
<1>8. CASE destroy \/ crash
  BY <1>8 DEF destroy, crash, histVars, HistoryInv
<1> QED
  BY <1>1, <1>2, <1>3, <1>4, <1>5, <1>6, <1>7, <1>8 DEF Publisher

\* A slot that is closed holds the image committed under its id, after
\* every step of the publisher.
LEMMA PublisherImage ==
  TypeOK /\ HistoryInv /\ ImageInv /\ Publisher => ImageInv'
<1> SUFFICES ASSUME TypeOK, HistoryInv, ImageInv, Publisher, NEW s \in Slot,
                    ~Open(s)', slots'[s].frame_id >= 1,
                    slots'[s].frame_id \notin overwritten'
             PROVE  SlotImage(s)' = published'[slots'[s].frame_id]
  BY DEF ImageInv
<1>0. /\ slots \in [Slot -> SlotType] /\ write_slot \in Slot
      /\ slots[s].frame_id \in Nat /\ frame_id \in Nat
      /\ published \in Seq(Seq(Nat)) /\ Len(published) \in Nat
  BY DEF TypeOK, SlotType
<1>00. /\ ~Open(s) /\ slots[s].frame_id >= 1 /\ slots[s].frame_id \notin overwritten
          => SlotImage(s) = published[slots[s].frame_id]
  BY DEF ImageInv
<1> USE DEF SlotImage
<1>1. ASSUME NEW n \in 1 .. MaxPayload, begin_write(n)
      PROVE  SlotImage(s)' = published'[slots'[s].frame_id]
  BY <1>0, <1>00, <1>1, NextSlotType DEF begin_write, histVars, Open, SlotType
<1>2. CASE write_geometry
  BY <1>0, <1>00, <1>2 DEF write_geometry, histVars, Open, SlotType
<1>3. ASSUME NEW i \in Words, render(i)
      PROVE  SlotImage(s)' = published'[slots'[s].frame_id]
  BY <1>0, <1>00, <1>3 DEF render, histVars, pubVars, Open, SlotType
<1>4. CASE cancel_write
  BY <1>0, <1>00, <1>4 DEF cancel_write, Open, SlotType
<1>5. CASE commit_stamp
  BY <1>0, <1>00, <1>5 DEF commit_stamp, histVars, Open, SlotType
<1>6. CASE commit_seq
  <2>1. /\ published'[Len(published) + 1] = SlotImage(write_slot)
        /\ \A f \in 1 .. Len(published) : published'[f] = published[f]
    BY <1>0, <1>6 DEF commit_seq
  <2>2. SlotImage(s)' = SlotImage(s) /\ slots'[s].frame_id = slots[s].frame_id
    BY <1>0, <1>6 DEF commit_seq, SlotType
  <2>3. CASE s = write_slot
    BY <1>0, <1>6, <2>1, <2>2, <2>3 DEF commit_seq, HistoryInv
  <2>4. CASE s # write_slot
    <3>1. slots[s].frame_id \in 1 .. Len(published)
      BY <1>0, <2>2, <2>4 DEF HistoryInv
    <3> QED
      BY <1>00, <1>6, <2>1, <2>2, <2>4, <3>1 DEF commit_seq, Open
  <2> QED
    BY <2>3, <2>4
<1>7. CASE commit_latest \/ destroy \/ crash
  BY <1>00, <1>7 DEF commit_latest, destroy, crash, histVars, Open
<1> QED
  BY <1>1, <1>2, <1>3, <1>4, <1>5, <1>6, <1>7 DEF Publisher

\* Nothing the publisher does disturbs what a reader relies on.
LEMMA PublisherReader ==
  ASSUME TypeOK, TypeOK', ReaderInv, Monotone
  PROVE  ReaderInv'
<1> SUFFICES ASSUME NEW r \in Readers
             PROVE  /\ PackedInv(r)' /\ BeforeInv(r)'
                    /\ CopyInv(r)' /\ ResultInv(r)'
  BY DEF ReaderInv
<1> DEFINE me == rd[r]
           s  == SlotOf(me.packed)
<1>0. PackedInv(r) /\ BeforeInv(r) /\ CopyInv(r) /\ ResultInv(r) /\ rd' = rd
  BY DEF ReaderInv, Monotone
<1>1. me \in ReaderType /\ FrameOf(me.packed) \in Nat
  BY UnpackType DEF TypeOK, ReaderType
<1>2. Len(published) \in Nat
  BY DEF TypeOK
<1>3. s \in Slot => /\ slots[s].seq \in Nat /\ slots[s].frame_id \in Nat
                    /\ slots'[s].seq \in Nat /\ slots'[s].frame_id \in Nat
                    /\ slots'[s].seq >= slots[s].seq
                    /\ slots'[s].frame_id >= slots[s].frame_id
                    /\ ~Odd(slots[s].seq) /\ slots'[s].seq = slots[s].seq
                         => slots'[s] = slots[s]
  BY DEF Monotone, TypeOK, SlotType
<1>4. PackedInv(r)'
  BY <1>0, <1>1, <1>3 DEF PackedInv
<1>5. BeforeInv(r)'
  BY <1>0, <1>1, <1>3 DEF BeforeInv, PackedInv, ReaderType
<1>6. CopyInv(r)'
  <2>1. SUFFICES ASSUME me.pc = "copy", slots'[s].seq = me.before
                 PROVE  slots'[s] = slots[s]
    BY <1>0, <2>1 DEF CopyInv
  <2> QED
    BY <1>0, <1>1, <1>3, <2>1 DEF BeforeInv, PackedInv, ReaderType
<1>7. ResultInv(r)'
  <2>1. me.last_frame <= Len(published')
    BY <1>0, <1>1, <1>2 DEF ResultInv, Monotone, ReaderType
  <2>2. ASSUME me.result = "Ok"
        PROVE  /\ me.pc = "idle" /\ me.info.frame_id \in 1 .. Len(published')
               /\ me.info.frame_id \notin overwritten'
                    => Delivered(r) = published'[me.info.frame_id]
    <3>1. me.pc = "idle" /\ me.info.frame_id \in 1 .. Len(published)
      BY <1>0, <2>2 DEF ResultInv
    <3>2. published'[me.info.frame_id] = published[me.info.frame_id]
      BY <3>1 DEF Monotone
    <3>3. me.info.frame_id \in 1 .. Len(published')
      BY <1>2, <3>1 DEF Monotone
    <3> QED
      BY <1>0, <2>2, <3>1, <3>2, <3>3 DEF ResultInv, Monotone
  <2>3. Delivered(r)' = Delivered(r)
    BY <1>0 DEF Delivered
  <2> QED
    BY <1>0, <2>1, <2>2, <2>3 DEF ResultInv
<1> QED
  BY <1>4, <1>5, <1>6, <1>7

-----------------------------------------------------------------------------
(* The subscriber's side *)

\* Leaving a round or the call forgets the slot and keeps last_frame.
LEMMA LeaveRound ==
  ASSUME NEW me \in ReaderType, NEW x \in Results
  PROVE  /\ Return(me, x).pc = "idle" /\ Return(me, x).result = x
         /\ Return(me, x).last_frame = me.last_frame
         /\ Return(me, x).dst = me.dst
         /\ Continue(me).pc \in {"idle", "latest"}
         /\ Continue(me).result \in {me.result, "Contended"}
         /\ Continue(me).last_frame = me.last_frame
<1>1. ASSUME NEW y \in Results
      PROVE  /\ Return(me, y).pc = "idle" /\ Return(me, y).result = y
             /\ Return(me, y).last_frame = me.last_frame
             /\ Return(me, y).dst = me.dst
  BY DEF Return, EndRound, ReaderType
<1>2. LET g == [EndRound(me, "latest") EXCEPT !.attempt = @ + 1]
      IN g.pc = "latest" /\ g.result = me.result /\ g.last_frame = me.last_frame
  BY DEF EndRound, ReaderType
<1> QED
  BY <1>1, <1>2 DEF Continue, Results

\* No step of a subscriber breaks what any subscriber knows.
LEMMA SubscriberReader ==
  ASSUME IInv, TypeOK', NEW r \in Readers, Subscriber(r)
  PROVE  ReaderInv'
<1> USE DEF IInv
<1>t. /\ rd[r] \in ReaderType /\ rd \in [Readers -> ReaderType]
      /\ latest \in Nat /\ Len(published) \in Nat /\ frame_id \in Nat
  BY DEF TypeOK
<1>0. /\ rd[r] \in ReaderType /\ rd \in [Readers -> ReaderType]
      /\ rd[r].packed \in Nat /\ rd[r].last_frame \in Nat /\ rd[r].fi \in InfoType
  BY <1>t DEF ReaderType
<1>00. PackedInv(r) /\ BeforeInv(r) /\ CopyInv(r) /\ ResultInv(r)
  BY DEF ReaderInv
<1>1. PublisherUnchanged /\ \A q \in Readers \ {r} : rd'[q] = rd[q]
  <2>1. \E me : rd' = [rd EXCEPT ![r] = me]
    BY <1>0 DEF Subscriber, ReadStep, read_latest, load_latest, load_shutdown, load_seq,
           load_bytes, copy_field, check_seq
  <2>2. PublisherUnchanged
    BY DEF Subscriber, ReadStep, read_latest, load_latest, load_shutdown, load_seq,
           load_bytes, copy_field, check_seq
  <2> QED
    BY <1>0, <2>1, <2>2
<1>2. slots' = slots /\ published' = published /\ overwritten' = overwritten
  BY <1>1 DEF PublisherUnchanged, histVars
<1>3. ASSUME NEW q \in Readers \ {r}
      PROVE  PackedInv(q)' /\ BeforeInv(q)' /\ CopyInv(q)' /\ ResultInv(q)'
  BY <1>1, <1>2, <1>3
     DEF ReaderInv, PackedInv, BeforeInv, CopyInv, ResultInv, Delivered
<1> DEFINE Good == PackedInv(r)' /\ BeforeInv(r)' /\ CopyInv(r)' /\ ResultInv(r)'
<1>4. ASSUME rd'[r].pc \in {"idle", "latest", "shutdown"},
             rd'[r].last_frame = rd[r].last_frame, rd'[r].result # "Ok"
      PROVE  Good
  BY <1>00, <1>2, <1>4 DEF PackedInv, BeforeInv, CopyInv, ResultInv
<1>5. ASSUME NEW c \in Capacities, read_latest(r, c) PROVE Good
  <2>1. /\ rd'[r].pc = "latest" /\ rd'[r].result = "none"
        /\ rd'[r].last_frame = rd[r].last_frame
    BY <1>0, <1>5 DEF read_latest, ReaderType
  <2> QED
    BY <1>4, <2>1
<1>6. ASSUME load_latest(r) PROVE Good
  <2>1. rd[r].result # "Ok"
    BY <1>00, <1>6 DEF load_latest, ResultInv
  <2>2. CASE latest = 0 \/ FrameOf(latest) = rd[r].last_frame
    <3>1. /\ rd'[r].pc = "shutdown" /\ rd'[r].result = rd[r].result
          /\ rd'[r].last_frame = rd[r].last_frame
      BY <1>0, <1>6, <2>2 DEF load_latest, ReaderType
    <3> QED
      BY <1>4, <2>1, <3>1
  <2>3. CASE latest # 0 /\ FrameOf(latest) # rd[r].last_frame
    <3>1. SlotOf(latest) \in Slot /\ ~(SlotOf(latest) >= SlotCount)
      BY <2>3, FrameChannelAssumption DEF HistoryInv, Slot, kMinSlots, kMaxSlots
    <3>2. rd'[r] = [rd[r] EXCEPT !.pc = "seq", !.packed = latest]
      BY <1>0, <1>6, <2>3, <3>1 DEF load_latest
    <3>3. /\ rd'[r].pc = "seq" /\ rd'[r].packed = latest
          /\ rd'[r].last_frame = rd[r].last_frame /\ rd'[r].result = rd[r].result
      BY <1>0, <3>2 DEF ReaderType
    <3>a. FrameOf(latest) \in Nat
      BY <1>t, UnpackType
    <3>4. FrameOf(latest) >= rd[r].last_frame - 1
      BY <1>t, <1>0, <1>00, <3>a DEF HistoryInv, ResultInv
    <3>5. PackedInv(r)'
      BY <1>2, <2>3, <3>3, <3>4 DEF PackedInv, HistoryInv
    <3> QED
      BY <1>00, <1>2, <2>1, <3>3, <3>5 DEF BeforeInv, CopyInv, ResultInv
  <2> QED
    BY <2>2, <2>3
<1>7. ASSUME load_shutdown(r) PROVE Good
  <2>1. \E x \in {"Disconnected", "NoNewFrame"} : rd'[r] = Return(rd[r], x)
    BY <1>0, <1>7 DEF load_shutdown
  <2> QED
    BY <1>0, <1>4, <2>1, LeaveRound DEF Results
<1>8. ASSUME load_seq(r) PROVE Good
  <2> DEFINE seq == slots[SlotOf(rd[r].packed)].seq
  <2>1. rd[r].result # "Ok"
    BY <1>00, <1>8 DEF load_seq, ResultInv
  <2>2. CASE WriterInside(seq)
    <3>1. rd'[r] = Continue(rd[r])
      BY <1>0, <1>8, <2>2 DEF load_seq
    <3> QED
      BY <1>0, <1>4, <2>1, <3>1, LeaveRound DEF Results
  <2>3. CASE ~WriterInside(seq)
    <3>1. rd'[r] = [rd[r] EXCEPT !.pc = "bytes", !.before = seq]
      BY <1>0, <1>8, <2>3 DEF load_seq
    <3>2. /\ rd'[r].pc = "bytes" /\ rd'[r].before = seq /\ rd'[r].packed = rd[r].packed
          /\ rd'[r].last_frame = rd[r].last_frame /\ rd'[r].result = rd[r].result
      BY <1>0, <3>1 DEF ReaderType
    <3>3. PackedInv(r)'
      BY <1>00, <1>2, <1>8, <3>2 DEF load_seq, PackedInv
    <3>4. seq \in Nat
      BY <1>00, <1>8 DEF load_seq, PackedInv, TypeOK, SlotType
    <3>5. BeforeInv(r)'
      BY <1>2, <2>3, <3>2, <3>4 DEF BeforeInv, WriterInside
    <3> QED
      BY <1>00, <1>2, <2>1, <3>2, <3>3, <3>5 DEF CopyInv, ResultInv
  <2> QED
    BY <2>2, <2>3
<1>9. ASSUME load_bytes(r) PROVE Good
  <2> DEFINE n == slots[SlotOf(rd[r].packed)].payload_bytes
  <2>1. rd'[r] = [rd[r] EXCEPT !.pc = "copy", !.fi.payload_bytes = n,
                               !.todo = FieldsToCopy(n, rd[r].capacity)]
    BY <1>0, <1>9 DEF load_bytes
  <2>2. /\ rd'[r].pc = "copy" /\ rd'[r].packed = rd[r].packed
        /\ rd'[r].before = rd[r].before /\ rd'[r].capacity = rd[r].capacity
        /\ rd'[r].todo = FieldsToCopy(n, rd[r].capacity)
        /\ rd'[r].last_frame = rd[r].last_frame /\ rd'[r].result = rd[r].result
    BY <1>0, <2>1 DEF ReaderType
  <2>3. rd'[r].fi.payload_bytes = n
    BY <1>0, <2>1 DEF ReaderType, InfoType
  <2>4. PackedInv(r)' /\ BeforeInv(r)'
    BY <1>00, <1>2, <1>9, <2>2 DEF load_bytes, PackedInv, BeforeInv
  <2>5. CopyInv(r)'
    BY <1>2, <2>2, <2>3 DEF CopyInv, FieldsToCopy
  <2>6. rd[r].result # "Ok"
    BY <1>00, <1>9 DEF load_bytes, ResultInv
  <2> QED
    BY <1>00, <1>2, <2>2, <2>4, <2>5, <2>6 DEF ResultInv
<1>10. ASSUME NEW i \in 0 .. MaxPayload, copy_field(r, i) PROVE Good
  <2> DEFINE s == slots[SlotOf(rd[r].packed)]
  <2>0. rd[r].pc = "copy" /\ i \in rd[r].todo
    BY <1>10 DEF copy_field
  <2>1. /\ rd'[r].pc = "copy" /\ rd'[r].packed = rd[r].packed
        /\ rd'[r].before = rd[r].before /\ rd'[r].capacity = rd[r].capacity
        /\ rd'[r].todo = rd[r].todo \ {i}
        /\ rd'[r].last_frame = rd[r].last_frame /\ rd'[r].result = rd[r].result
    BY <1>0, <1>10 DEF copy_field, ReaderType
  <2>2. /\ rd'[r].fi.payload_bytes = rd[r].fi.payload_bytes
        /\ rd'[r].fi.frame_id = IF i = 0 THEN s.frame_id ELSE rd[r].fi.frame_id
        /\ \A j \in Words : rd'[r].dst[j] = IF j = i THEN s.payload[j] ELSE rd[r].dst[j]
    <3>1. i \in Words \/ i = 0
      BY FrameChannelAssumption DEF Words
    <3>2. /\ rd[r].fi \in InfoType /\ rd[r].dst \in [Words -> Nat]
      BY <1>0 DEF ReaderType
    <3>3. CASE i = 0
      <4>1. rd'[r] = [rd[r] EXCEPT !.todo = rd[r].todo \ {i}, !.fi.frame_id = s.frame_id]
        BY <1>0, <1>10, <3>3 DEF copy_field
      <4>2. /\ rd'[r].fi = [rd[r].fi EXCEPT !.frame_id = s.frame_id]
            /\ rd'[r].dst = rd[r].dst
        BY <1>0, <4>1 DEF ReaderType
      <4> QED
        BY <3>2, <3>3, <4>2 DEF InfoType, Words
    <3>4. CASE i # 0
      <4>1. rd'[r] = [rd[r] EXCEPT !.todo = rd[r].todo \ {i}, !.dst[i] = s.payload[i]]
        BY <1>0, <1>10, <3>4 DEF copy_field
      <4>2. /\ rd'[r].fi = rd[r].fi
            /\ rd'[r].dst = [rd[r].dst EXCEPT ![i] = s.payload[i]]
        BY <1>0, <4>1 DEF ReaderType
      <4> QED
        BY <3>1, <3>2, <3>4, <4>2
    <3> QED
      BY <3>3, <3>4
  <2>3. s.payload_bytes \in 0 .. MaxPayload
    BY <1>00, <2>0 DEF PackedInv, TypeOK, SlotType
  <2>4. PackedInv(r)' /\ BeforeInv(r)'
    BY <1>00, <1>2, <2>0, <2>1 DEF PackedInv, BeforeInv
  <2>5. CopyInv(r)'
    <3>1. SUFFICES ASSUME s.seq = rd[r].before
                   PROVE  /\ rd'[r].fi.payload_bytes = s.payload_bytes
                          /\ 0 \notin rd'[r].todo => rd'[r].fi.frame_id = s.frame_id
                          /\ Outcome(rd[r].fi.payload_bytes, rd[r].capacity) = "Ok" =>
                               \A j \in 1 .. s.payload_bytes :
                                  j \notin rd'[r].todo => rd'[r].dst[j] = s.payload[j]
      BY <1>2, <2>1, <2>2 DEF CopyInv
    <3>2. /\ rd[r].fi.payload_bytes = s.payload_bytes
          /\ 0 \notin rd[r].todo => rd[r].fi.frame_id = s.frame_id
          /\ Outcome(rd[r].fi.payload_bytes, rd[r].capacity) = "Ok" =>
               \A j \in 1 .. s.payload_bytes :
                  j \notin rd[r].todo => rd[r].dst[j] = s.payload[j]
      BY <1>00, <2>0, <3>1 DEF CopyInv
    <3> QED
      BY <2>1, <2>2, <2>3, <3>2, FrameChannelAssumption DEF Words
  <2>6. rd[r].result # "Ok"
    BY <1>00, <2>0 DEF ResultInv
  <2> QED
    BY <1>00, <1>2, <2>1, <2>4, <2>5, <2>6 DEF ResultInv
<1>11. ASSUME check_seq(r) PROVE Good
  <2> DEFINE me == rd[r]
             s  == SlotOf(me.packed)
             x  == Outcome(me.fi.payload_bytes, me.capacity)
  <2>0. me.pc = "copy" /\ me.todo = {}
    BY <1>11 DEF check_seq
  <2>1. me.result # "Ok"
    BY <1>00, <2>0 DEF ResultInv
  <2>2. CASE slots[s].seq # me.before
    <3>1. rd'[r] = Continue(me)
      BY <1>0, <1>11, <2>2 DEF check_seq
    <3> QED
      BY <1>0, <1>4, <2>1, <3>1, LeaveRound DEF Results
  <2>3. CASE slots[s].seq = me.before /\ x # "Ok"
    <3>1. x \in Results
      BY DEF Outcome, Results
    <3>2. rd'[r] \in {Return(me, x), [Return(me, x) EXCEPT !.info = me.fi]}
      BY <1>0, <1>11, <2>3 DEF check_seq
    <3>3. Return(me, x) \in ReaderType
      BY <1>0, <3>1, ReaderStepType
    <3>4. /\ rd'[r].pc = Return(me, x).pc /\ rd'[r].result = Return(me, x).result
          /\ rd'[r].last_frame = Return(me, x).last_frame
      BY <3>2, <3>3 DEF ReaderType
    <3> QED
      BY <1>0, <1>4, <2>3, <3>1, <3>4, LeaveRound
  <2>4. CASE slots[s].seq = me.before /\ x = "Ok"
    <3> DEFINE f == me.fi.frame_id
    <3>1. /\ rd'[r].pc = "idle" /\ rd'[r].result = "Ok" /\ rd'[r].info = me.fi
          /\ rd'[r].last_frame = f /\ rd'[r].dst = me.dst
      <4>1. rd'[r] = ReturnOk(me)
        BY <1>0, <1>11, <2>4 DEF check_seq
      <4>2. Return(me, "Ok") \in ReaderType
        BY <1>0, ReaderStepType DEF Results
      <4>3. /\ ReturnOk(me).pc = Return(me, "Ok").pc
            /\ ReturnOk(me).result = Return(me, "Ok").result
            /\ ReturnOk(me).dst = Return(me, "Ok").dst
            /\ ReturnOk(me).info = me.fi /\ ReturnOk(me).last_frame = f
        BY <4>2 DEF ReturnOk, ReaderType
      <4> QED
        BY <1>0, <4>1, <4>3, LeaveRound DEF Results
    <3>2. /\ s \in Slot /\ slots[s] \in SlotType /\ ~Odd(slots[s].seq)
          /\ slots[s].frame_id >= FrameOf(me.packed) /\ FrameOf(me.packed) >= 1
      BY <1>00, <2>0, <2>4 DEF PackedInv, BeforeInv, TypeOK
    <3>3. /\ f = slots[s].frame_id /\ me.fi.payload_bytes = slots[s].payload_bytes
          /\ \A i \in 1 .. slots[s].payload_bytes : me.dst[i] = slots[s].payload[i]
      BY <1>00, <2>0, <2>4 DEF CopyInv
    <3>4. ~Open(s)
      BY <3>2 DEF ParityInv
    <3>5. FrameOf(me.packed) \in Nat
      BY <1>0, UnpackType
    <3>6. f \in 1 .. Len(published)
      <4>1. f <= Len(published)
        BY <3>2, <3>3, <3>4 DEF HistoryInv, Open
      <4> QED
        BY <1>t, <3>2, <3>3, <3>5, <4>1 DEF SlotType
    <3>7. f \notin overwritten => SlotImage(s) = published[f]
      BY <1>t, <3>2, <3>3, <3>4, <3>6 DEF ImageInv
    <3>8. Delivered(r)' = SlotImage(s)
      BY <3>1, <3>3 DEF Delivered, SlotImage, Image
    <3> QED
      BY <1>2, <3>1, <3>6, <3>7, <3>8 DEF PackedInv, BeforeInv, CopyInv, ResultInv
  <2> QED
    BY <2>2, <2>3, <2>4
<1>12. Good
  BY <1>5, <1>6, <1>7, <1>8, <1>9, <1>10, <1>11 DEF Subscriber, ReadStep
<1> QED
  BY <1>3, <1>12 DEF ReaderInv

-----------------------------------------------------------------------------
(* The theorems *)

\* The invariant is inductive.
THEOREM Inductive == IInv /\ [Next]_vars => IInv'
<1> SUFFICES ASSUME IInv, [Next]_vars PROVE IInv'
  OBVIOUS
<1>1. CASE Publisher
  <2>1. TypeOK' /\ ParityInv' /\ HistoryInv' /\ ImageInv' /\ Monotone
    BY <1>1, TypePublisher, PublisherParity, PublisherHistory, PublisherImage,
       PublisherMonotone DEF IInv
  <2> QED
    BY <2>1, PublisherReader DEF IInv
<1>2. ASSUME NEW r \in Readers, Subscriber(r) PROVE IInv'
  <2>1. TypeOK'
    BY <1>2, TypeSubscriber DEF IInv, ReaderInv
  <2>2. ReaderInv'
    BY <1>2, <2>1, SubscriberReader
  <2>3. UNCHANGED <<slots, latest, pub_pc, write_slot, frame_id, published, overwritten>>
    BY <1>2 DEF Subscriber, ReadStep, read_latest, load_latest, load_shutdown, load_seq,
                load_bytes, copy_field, check_seq, PublisherUnchanged, pubVars, histVars
  <2> QED
    BY <2>1, <2>2, <2>3
       DEF IInv, ParityInv, HistoryInv, ImageInv, Open, SlotImage
<1>3. CASE UNCHANGED vars
  BY <1>3 DEF vars, pubVars, histVars, IInv, TypeOK, ParityInv, HistoryInv, ImageInv,
              ReaderInv, PackedInv, BeforeInv, CopyInv, ResultInv, Open, SlotImage, Delivered
<1> QED
  BY <1>1, <1>2, <1>3 DEF Next

\* The inductive invariant holds in every reachable state of the channel.
THEOREM Invariance == Spec => []IInv
<1>1. Init => IInv
  BY InitIInv
<1>2. IInv /\ [Next]_vars => IInv'
  BY Inductive
<1> QED
  BY <1>1, <1>2, PTL DEF Spec

\* read_latest and begin_write/commit keep every field within its type:
\* slot indices below slot_count, sizes below max_payload().
THEOREM TypeCorrect == Spec => []TypeOK
<1>1. IInv => TypeOK
  BY DEF IInv
<1> QED
  BY <1>1, Invariance, PTL

\* The seqlock works, for any number of slots, readers and words and any
\* interleaving: read_latest never returns Ok with a torn or invented image.
THEOREM NoTearing == Spec => []OkIsPublished
<1>1. IInv => OkIsPublished
  BY DEF IInv, ReaderInv, ResultInv, OkIsPublished
<1> QED
  BY <1>1, Invariance, PTL

\* The frame a successful read returns is the one the checked slot holds.
LEMMA OkStep ==
  ASSUME IInv, [Next]_vars, NEW r \in Readers, ReturnsOk(r)
  PROVE  rd'[r].info.frame_id = slots[SlotOf(rd[r].packed)].frame_id
<1> DEFINE me == rd[r]
           x  == Outcome(me.fi.payload_bytes, me.capacity)
<1>0. me \in ReaderType /\ rd \in [Readers -> ReaderType]
  BY DEF IInv, TypeOK
<1>1. me.pc = "copy" /\ rd'[r].pc = "idle" /\ rd'[r].result = "Ok"
  BY DEF ReturnsOk
<1>2. rd' # rd
  BY <1>1
<1>3. check_seq(r)
  <2>1. Next
    BY <1>2 DEF vars
  <2>2. ~Publisher
    BY <1>2 DEF Publisher, begin_write, write_geometry, render, cancel_write,
                commit_stamp, commit_seq, commit_latest, destroy, crash
  <2>3. PICK q \in Readers : Subscriber(q)
    BY <2>1, <2>2 DEF Next
  <2>4. \E v : rd' = [rd EXCEPT ![q] = v]
    BY <2>3 DEF Subscriber, ReadStep, read_latest, load_latest, load_shutdown, load_seq,
                load_bytes, copy_field, check_seq
  <2>5. q = r
    BY <1>0, <1>1, <2>4
  <2>6. ASSUME NEW i \in 0 .. MaxPayload, copy_field(r, i) PROVE FALSE
    <3>1. rd'[r].pc = "copy"
      BY <1>0, <2>6 DEF copy_field, ReaderType
    <3> QED
      BY <1>1, <3>1
  <2> QED
    BY <1>1, <2>3, <2>5, <2>6
       DEF Subscriber, ReadStep, read_latest, load_latest, load_shutdown, load_seq, load_bytes
<1>4. CopyInv(r) /\ me.result # "Ok"
  BY <1>1 DEF IInv, ReaderInv, ResultInv
<1>5. slots[SlotOf(me.packed)].seq = me.before
  <2>1. SUFFICES ASSUME slots[SlotOf(me.packed)].seq # me.before PROVE FALSE
    OBVIOUS
  <2>2. rd'[r] = Continue(me)
    BY <1>0, <1>3, <2>1 DEF check_seq
  <2> QED
    BY <1>0, <1>1, <1>4, <2>2, LeaveRound DEF Results
<1>6. x = "Ok"
  <2>1. SUFFICES ASSUME x # "Ok" PROVE FALSE
    OBVIOUS
  <2>2. x \in Results
    BY DEF Outcome, Results
  <2>3. rd'[r] \in {Return(me, x), [Return(me, x) EXCEPT !.info = me.fi]}
    BY <1>0, <1>3, <1>5, <2>1 DEF check_seq
  <2>4. Return(me, x) \in ReaderType /\ Return(me, x).result = x
    BY <1>0, <2>2, ReaderStepType, LeaveRound
  <2>5. rd'[r].result = x
    BY <2>3, <2>4 DEF ReaderType
  <2> QED
    BY <1>1, <2>1, <2>5
<1>7. rd'[r] = ReturnOk(me) /\ me.todo = {}
  BY <1>0, <1>3, <1>5, <1>6 DEF check_seq
<1>8. rd'[r].info = me.fi
  <2>1. Return(me, "Ok") \in ReaderType
    BY <1>0, ReaderStepType DEF Results
  <2> QED
    BY <1>7, <2>1 DEF ReturnOk, ReaderType
<1> QED
  BY <1>1, <1>4, <1>5, <1>7, <1>8 DEF CopyInv

\* A lapped reader gets a newer frame than `latest` named, never an older one.
THEOREM NeverOlder == Spec => NotOlderThanNamed
<1>1. ASSUME IInv, [Next]_vars
      PROVE  \A r \in Readers : ReturnsOk(r) =>
               rd'[r].info.frame_id >= FrameOf(rd[r].packed)
  <2> SUFFICES ASSUME NEW r \in Readers, ReturnsOk(r)
               PROVE  rd'[r].info.frame_id >= FrameOf(rd[r].packed)
    OBVIOUS
  <2>1. rd'[r].info.frame_id = slots[SlotOf(rd[r].packed)].frame_id
    BY <1>1, OkStep
  <2> QED
    BY <1>1, <2>1 DEF IInv, ReaderInv, PackedInv, ReturnsOk
<1> QED
  BY <1>1, Invariance, PTL DEF Spec, NotOlderThanNamed

\* Frame ids seen by one subscriber never go back by more than one.
THEOREM AtMostOneBack == Spec => RegressAtMostOne
<1>1. ASSUME IInv, [Next]_vars
      PROVE  \A r \in Readers : ReturnsOk(r) =>
               rd'[r].info.frame_id >= rd[r].last_frame - 1
  <2> SUFFICES ASSUME NEW r \in Readers, ReturnsOk(r)
               PROVE  rd'[r].info.frame_id >= rd[r].last_frame - 1
    OBVIOUS
  <2>1. rd'[r].info.frame_id = slots[SlotOf(rd[r].packed)].frame_id
    BY <1>1, OkStep
  <2>2. /\ SlotOf(rd[r].packed) \in Slot /\ rd[r].packed \in Nat /\ rd[r].last_frame \in Nat
        /\ slots[SlotOf(rd[r].packed)].frame_id \in Nat
        /\ slots[SlotOf(rd[r].packed)].frame_id >= FrameOf(rd[r].packed)
        /\ FrameOf(rd[r].packed) >= rd[r].last_frame - 1
    BY <1>1 DEF IInv, TypeOK, SlotType, ReaderType, ReaderInv, PackedInv, ReturnsOk
  <2>3. FrameOf(rd[r].packed) \in Nat
    BY <2>2, UnpackType
  <2> QED
    BY <2>1, <2>2, <2>3
<1> QED
  BY <1>1, Invariance, PTL DEF Spec, RegressAtMostOne

-----------------------------------------------------------------------------
(* The drop counter.  It is compared with the last frame, and the last      *)
(* frame can go back by one: what keeps the count below it is that it stays *)
(* below the frame that `latest` names, which never goes back.              *)

InRound == {"seq", "bytes", "copy"}

\* Frame ids are bounded by the number of writes, hence by the word.
BoundInv ==
  /\ attempts <= MaxAttempts
  /\ frame_id <= attempts
  /\ pub_pc \in {"geometry", "writing"} => frame_id + 1 <= attempts

\* A count d is below n, or nothing was dropped.
Below(d, n) == d = 0 \/ d < n

DropInv(r) ==
  /\ Below(rd[r].dropped, rd[r].last_frame)
  /\ Below(rd[r].dropped, FrameOf(latest))
  /\ rd[r].pc \in InRound => Below(rd[r].dropped, FrameOf(rd[r].packed))

DInv == BoundInv /\ \A r \in Readers : DropInv(r)

\* Leaving a round or the call does not touch the counter.
LEMMA LeaveKeepsDropped ==
  ASSUME NEW me \in ReaderType, NEW x \in Results
  PROVE  Return(me, x).dropped = me.dropped /\ Continue(me).dropped = me.dropped
<1>1. \A y \in Results : Return(me, y).dropped = me.dropped
  BY DEF Return, EndRound, ReaderType
<1>2. [EndRound(me, "latest") EXCEPT !.attempt = @ + 1].dropped = me.dropped
  BY DEF EndRound, ReaderType
<1> QED
  BY <1>1, <1>2 DEF Continue, Results

\* A step of read_latest leaves counter and last frame alone, and the frame it
\* works on is the one it had or the one `latest` names now; or it returns Ok.
QuietStep(r) ==
  /\ rd'[r].dropped = rd[r].dropped /\ rd'[r].last_frame = rd[r].last_frame
  /\ rd'[r].pc \in InRound => \/ rd[r].pc \in InRound /\ rd'[r].packed = rd[r].packed
                              \/ rd'[r].packed = latest

OkayStep(r) ==
  /\ rd[r].pc = "copy" /\ rd'[r].pc = "idle"
  /\ rd'[r].dropped = AddDropped(rd[r].dropped, rd[r].last_frame, rd[r].fi.frame_id)
  /\ rd'[r].last_frame = rd[r].fi.frame_id
  /\ rd[r].fi.frame_id = slots[SlotOf(rd[r].packed)].frame_id

\* Every step of a subscriber is of one of the two kinds.
LEMMA SubscriberKinds ==
  ASSUME IInv, NEW r \in Readers, Subscriber(r)
  PROVE  QuietStep(r) \/ OkayStep(r)
<1>0. rd[r] \in ReaderType /\ rd \in [Readers -> ReaderType] /\ CopyInv(r)
  BY DEF IInv, TypeOK, ReaderInv
<1>1. ASSUME NEW c \in Capacities, read_latest(r, c) PROVE QuietStep(r)
  BY <1>0, <1>1 DEF read_latest, ReaderType, QuietStep, InRound
<1>2. ASSUME load_latest(r) PROVE QuietStep(r)
  <2>1. CASE rd'[r] = Return(rd[r], "Contended")
    BY <1>0, <2>1, LeaveRound, LeaveKeepsDropped DEF Results, QuietStep, InRound
  <2>2. CASE rd' = [rd EXCEPT ![r].pc = "shutdown"]
    BY <1>0, <2>2 DEF ReaderType, QuietStep, InRound
  <2>3. CASE rd'[r] = [rd[r] EXCEPT !.pc = "seq", !.packed = latest]
    BY <1>0, <2>3 DEF ReaderType, QuietStep, InRound
  <2> QED
    BY <1>0, <1>2, <2>1, <2>2, <2>3 DEF load_latest
<1>3. ASSUME load_shutdown(r) PROVE QuietStep(r)
  <2>1. \E x \in {"Disconnected", "NoNewFrame"} : rd'[r] = Return(rd[r], x)
    BY <1>0, <1>3 DEF load_shutdown
  <2> QED
    BY <1>0, <2>1, LeaveRound, LeaveKeepsDropped DEF Results, QuietStep, InRound
<1>4. ASSUME rd'[r] = Continue(rd[r]) PROVE QuietStep(r)
  BY <1>0, <1>4, LeaveRound, LeaveKeepsDropped DEF Results, QuietStep, InRound
<1>5. ASSUME load_seq(r) PROVE QuietStep(r)
  <2> DEFINE seq == slots[SlotOf(rd[r].packed)].seq
  <2>1. CASE rd'[r] = [rd[r] EXCEPT !.pc = "bytes", !.before = seq]
    BY <1>0, <1>5, <2>1 DEF load_seq, ReaderType, QuietStep, InRound
  <2> QED
    BY <1>0, <1>4, <1>5, <2>1 DEF load_seq
<1>6. ASSUME load_bytes(r) PROVE QuietStep(r)
  BY <1>0, <1>6 DEF load_bytes, ReaderType, QuietStep, InRound
<1>7. ASSUME NEW i \in 0 .. MaxPayload, copy_field(r, i) PROVE QuietStep(r)
  BY <1>0, <1>7 DEF copy_field, ReaderType, QuietStep, InRound
<1>8. ASSUME check_seq(r) PROVE QuietStep(r) \/ OkayStep(r)
  <2> DEFINE me == rd[r]
             x  == Outcome(me.fi.payload_bytes, me.capacity)
  <2>1. CASE rd'[r] = Continue(me)
    BY <1>4, <2>1
  <2>2. CASE rd'[r] \in {Return(me, x), [Return(me, x) EXCEPT !.info = me.fi]}
    <3>1. x \in Results
      BY DEF Outcome, Results
    <3>2. Return(me, x) \in ReaderType
      BY <1>0, <3>1, ReaderStepType
    <3>3. /\ rd'[r].pc = Return(me, x).pc /\ rd'[r].dropped = Return(me, x).dropped
          /\ rd'[r].last_frame = Return(me, x).last_frame
      BY <2>2, <3>2 DEF ReaderType
    <3> QED
      BY <1>0, <3>1, <3>3, LeaveRound, LeaveKeepsDropped DEF QuietStep, InRound
  <2>3. CASE rd'[r] = ReturnOk(me) /\ slots[SlotOf(me.packed)].seq = me.before
    <3>1. Return(me, "Ok") \in ReaderType /\ Return(me, "Ok").pc = "idle"
      BY <1>0, ReaderStepType, LeaveRound DEF Results
    <3>2. /\ rd'[r].pc = "idle" /\ rd'[r].last_frame = me.fi.frame_id
          /\ rd'[r].dropped = AddDropped(me.dropped, me.last_frame, me.fi.frame_id)
      BY <2>3, <3>1 DEF ReturnOk, ReaderType
    <3> QED
      BY <1>0, <1>8, <2>3, <3>2 DEF check_seq, CopyInv, OkayStep
  <2> QED
    BY <1>0, <1>8, <2>1, <2>2, <2>3 DEF check_seq
<1> QED
  BY <1>1, <1>2, <1>3, <1>5, <1>6, <1>7, <1>8 DEF Subscriber, ReadStep

\* The counter after a successful read of frame f, where n is the frame that
\* `latest` names: f is at most one ahead of n and at least the frame m that
\* was named when the round began.
LEMMA AddDroppedBelow ==
  ASSUME NEW d \in Nat, NEW last \in Nat, NEW f \in Nat, NEW m \in Nat, NEW n \in Nat,
         f >= 1, f >= m, f <= n + 1, f < Word,
         Below(d, last), Below(d, m), Below(d, n)
  PROVE  Below(AddDropped(d, last, f), f) /\ Below(AddDropped(d, last, f), n)
<1>1. CASE last # 0 /\ f > last
  <2>1. d + f - last - 1 \in 0 .. Word - 1
    BY <1>1, FrameChannelAssumption DEF Below
  <2>2. \A x \in 0 .. Word - 1 : x % Word = x
    BY FrameChannelAssumption
  <2>3. AddDropped(d, last, f) = d + f - last - 1
    BY <1>1, <2>1, <2>2 DEF AddDropped
  <2> QED
    BY <1>1, <2>3 DEF Below
<1>2. CASE ~(last # 0 /\ f > last)
  BY <1>2 DEF AddDropped, Below
<1> QED
  BY <1>1, <1>2

\* `latest` never names an older frame than before.
LEMMA LatestMonotone ==
  ASSUME IInv, Publisher
  PROVE  FrameOf(latest') >= FrameOf(latest) /\ FrameOf(latest') \in Nat
<1>1. latest \in Nat /\ frame_id \in Nat /\ write_slot \in Slot
  BY DEF IInv, TypeOK
<1>2. FrameOf(latest) \in Nat
  BY <1>1, UnpackType
<1>3. CASE commit_latest
  <2>1. FrameOf(latest') = frame_id
    BY <1>1, <1>3, PackLemma DEF commit_latest
  <2>2. FrameOf(latest) = frame_id - 1
    BY <1>3 DEF commit_latest, IInv, HistoryInv
  <2> QED
    BY <1>1, <2>1, <2>2
<1>4. CASE latest' = latest
  BY <1>2, <1>4
<1> QED
  BY <1>3, <1>4 DEF Publisher, begin_write, write_geometry, render, cancel_write,
                    commit_stamp, commit_seq, destroy, crash

\* The invariant of the drop counter is inductive, given the one of the channel.
LEMMA DropInductive == IInv /\ DInv /\ [Next]_vars => DInv'
<1> SUFFICES ASSUME IInv, DInv, [Next]_vars PROVE DInv'
  OBVIOUS
<1>0. /\ rd \in [Readers -> ReaderType] /\ latest \in Nat /\ FrameOf(latest) \in Nat
      /\ frame_id \in Nat /\ attempts \in Nat /\ Len(published) \in Nat
      /\ \A r \in Readers : /\ rd[r].dropped \in Nat /\ rd[r].last_frame \in Nat
                            /\ rd[r].packed \in Nat /\ FrameOf(rd[r].packed) \in Nat
  <2>1. /\ rd \in [Readers -> ReaderType] /\ latest \in Nat
        /\ frame_id \in Nat /\ attempts \in Nat /\ Len(published) \in Nat
    BY DEF IInv, TypeOK
  <2>2. ASSUME NEW r \in Readers
        PROVE  /\ rd[r].dropped \in Nat /\ rd[r].last_frame \in Nat /\ rd[r].packed \in Nat
    BY <2>1 DEF ReaderType
  <2> QED
    BY <2>1, <2>2, UnpackType
<1>1. CASE Publisher
  <2>1. BoundInv'
    BY <1>0, <1>1, FrameChannelAssumption
       DEF DInv, BoundInv, Publisher, begin_write, write_geometry, render, cancel_write,
           commit_stamp, commit_seq, commit_latest, destroy, crash, pubVars
  <2>2. rd' = rd
    BY <1>1, PublisherMonotone DEF IInv, Monotone
  <2>3. FrameOf(latest') >= FrameOf(latest) /\ FrameOf(latest') \in Nat
    BY <1>1, LatestMonotone
  <2>4. ASSUME NEW r \in Readers PROVE DropInv(r)'
    BY <1>0, <2>2, <2>3 DEF DInv, DropInv, Below
  <2> QED
    BY <2>1, <2>4 DEF DInv
<1>2. ASSUME NEW q \in Readers, Subscriber(q) PROVE DInv'
  <2>1. UNCHANGED <<slots, latest, frame_id, attempts, pub_pc>>
    BY <1>2 DEF Subscriber, ReadStep, read_latest, load_latest, load_shutdown, load_seq,
                load_bytes, copy_field, check_seq, PublisherUnchanged, pubVars
  <2>2. \E v : rd' = [rd EXCEPT ![q] = v]
    BY <1>2 DEF Subscriber, ReadStep, read_latest, load_latest, load_shutdown, load_seq,
                load_bytes, copy_field, check_seq
  <2>3. ASSUME NEW r \in Readers, r # q PROVE DropInv(r)'
    BY <1>0, <2>1, <2>2, <2>3 DEF DInv, DropInv
  <2>4. ASSUME QuietStep(q) PROVE DropInv(q)'
    BY <1>0, <2>1, <2>4 DEF DInv, DropInv, QuietStep
  <2>5. ASSUME OkayStep(q) PROVE DropInv(q)'
    <3> DEFINE me == rd[q]
               f  == me.fi.frame_id
               n  == FrameOf(latest)
               m  == FrameOf(me.packed)
    <3>1. /\ rd'[q].pc = "idle" /\ rd'[q].last_frame = f
          /\ rd'[q].dropped = AddDropped(me.dropped, me.last_frame, f)
      BY <2>5 DEF OkayStep
    <3>2. f \in Nat /\ f >= m /\ m >= 1
      BY <1>0, <2>5 DEF OkayStep, IInv, ReaderInv, PackedInv, TypeOK, SlotType
    <3>3. f <= Len(published)
      <4>1. ReaderInv'
        BY Inductive DEF IInv
      <4>2. published' = published
        BY <1>2 DEF Subscriber, ReadStep, read_latest, load_latest, load_shutdown, load_seq,
                    load_bytes, copy_field, check_seq, PublisherUnchanged, histVars
      <4> QED
        BY <3>1, <4>1, <4>2 DEF ReaderInv, ResultInv
    <3>4. f <= n + 1 /\ f < Word
      BY <1>0, <3>2, <3>3, FrameChannelAssumption DEF IInv, HistoryInv, DInv, BoundInv
    <3>5. Below(me.dropped, me.last_frame) /\ Below(me.dropped, m) /\ Below(me.dropped, n)
      BY <2>5 DEF OkayStep, DInv, DropInv, InRound
    <3>6. Below(rd'[q].dropped, f) /\ Below(rd'[q].dropped, n)
      <4>1. me.dropped \in Nat /\ me.last_frame \in Nat /\ m \in Nat /\ n \in Nat /\ f >= 1
        BY <1>0, <3>2
      <4> HIDE DEF f, m, n, me
      <4> QED
        BY <3>1, <3>2, <3>4, <3>5, <4>1, AddDroppedBelow
    <3> QED
      BY <2>1, <3>1, <3>6 DEF DropInv, InRound
  <2>6. DropInv(q)'
    BY <1>2, <2>4, <2>5, SubscriberKinds
  <2> QED
    BY <2>1, <2>3, <2>6 DEF DInv, BoundInv
<1>3. CASE UNCHANGED vars
  BY <1>3 DEF vars, pubVars, DInv, BoundInv, DropInv
<1> QED
  BY <1>1, <1>2, <1>3 DEF Next

\* frames_dropped() never wraps: it counts skipped frames only, and stays below
\* the newest frame seen although frames may come out of order.
THEOREM DropCountBounded == Spec => []DropCountSane
<1>1. Init => DInv
  <2> SUFFICES ASSUME Init PROVE DInv
    OBVIOUS
  <2>1. BoundInv
    BY FrameChannelAssumption DEF Init, BoundInv
  <2>2. ASSUME NEW r \in Readers PROVE rd[r].dropped = 0 /\ rd[r].pc = "idle"
    BY <2>2 DEF Init, IdleReader
  <2> QED
    BY <2>1, <2>2 DEF DInv, DropInv, Below, InRound
<1>2. IInv /\ DInv /\ [Next]_vars => DInv'
  BY DropInductive
<1>3. DInv => DropCountSane
  BY DEF DInv, DropInv, Below, DropCountSane
<1> QED
  BY <1>1, <1>2, <1>3, Invariance, PTL DEF Spec
=============================================================================
