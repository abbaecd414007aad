------------------------------- MODULE Layout -------------------------------
(***************************************************************************)
(* Where things are in a segment.  A configuration determines the layout   *)
(* (compute_layout); the publisher writes both into the header, and        *)
(* whoever maps the segment derives the layout again from the              *)
(* configuration it finds and compares (validate_header).  begin_write     *)
(* and read_latest rely on the layout for every address they form.         *)
(*                                                                         *)
(* Sizes are unsigned integers of 64 and 32 bits, 2 * WordBits and WordBits *)
(* here; the sizes of the structs and the limits of the code are constants *)
(* too, so that TLC can take small ones.  The name is left out.            *)
(***************************************************************************)
EXTENDS Integers

CONSTANTS
  WordBits,                          \* 32, the width of the smaller integers
  kLine,                             \* 64, the alignment of everything
  HeaderBytes, SlotHeaderBytes,      \* sizeof LLHeader, LLSlotHeader,
  RingHeaderBytes, CmdHeaderBytes,   \* LLRingHeader, LLCmdHeader
  kMaxDimension, kMaxSegment,        \* 32768, 2 GiB
  kMinSlots, kMaxSlots,              \* 3, 4
  MaxBpp, MaxCommandBytes,           \* 16, 1 MiB
  Dims, Bpps, SlotCounts,            \* what callers put into an LLConfig
  CommandSlots, CommandBytes,
  Sizes,                             \* width and height passed to begin_write
  Garbage                            \* what a field of a foreign header may hold

\* The moduli of the two widths
Word32 == 2^WordBits
Word64 == 2^(2 * WordBits)

ASSUME LayoutAssumption ==
  /\ {WordBits, kLine, HeaderBytes, SlotHeaderBytes, RingHeaderBytes,
      CmdHeaderBytes, kMaxDimension, kMaxSegment, kMinSlots, kMaxSlots,
      MaxBpp, MaxCommandBytes} \subseteq Nat \ {0}
  /\ Dims \union Bpps \union SlotCounts \union CommandSlots \union CommandBytes
       \union Sizes \union Garbage \subseteq Nat
  /\ kMaxSegment < Word32 /\ Word32 <= Word64

\* What powers of two are, for provers that do not know exponents.
ASSUME PowerAssumption ==
  /\ Word32 \in Nat \ {0} /\ Word64 \in Nat \ {0}
  /\ \A k \in 0..(WordBits - 1) : 2^k \in 1..(Word32 - 1)

\* A segment at all limits, with rings of 2^32 cells, is far smaller than 2^64:
\* 4 slots of 2^34 bytes and 2 rings of 2^52.
ASSUME LimitsAssumption ==
  LET slot == SlotHeaderBytes + kMaxDimension * kMaxDimension * MaxBpp + 2 * kLine
      ring == RingHeaderBytes + Word32 * (CmdHeaderBytes + MaxCommandBytes + kLine) + 2 * kLine
  IN  HeaderBytes + kLine + kMaxSlots * slot + 2 * ring < Word64

VARIABLES
  status,   \* what create returned last
  hdr,      \* the header in the segment
  size,     \* bytes of the mapping
  foreign,  \* the header is not as create wrote it
  view,     \* the subscriber: its configuration and layout, once attached
  frame     \* the last begin_write that returned a pointer

vars == <<status, hdr, size, foreign, view, frame>>

-----------------------------------------------------------------------------
(* Configuration and layout                                                 *)

\* Unsigned arithmetic of the two widths
U32(x) == x % Word32
U64(x) == x % Word64

\* LLConfig, but for the name
Config == [max_width : Dims, max_height : Dims, bytes_per_pixel : Bpps,
           slot_count : SlotCounts, command_slots : CommandSlots,
           max_command_bytes : CommandBytes]

MaxPayload(c) == U64(c.max_width * c.max_height * c.bytes_per_pixel)

PowerOfTwo(n) == \E k \in 0..(WordBits - 1) : n = 2^k

config_valid(c) ==
  /\ c.max_width \in 1..kMaxDimension /\ c.max_height \in 1..kMaxDimension
  /\ c.bytes_per_pixel \in 1..MaxBpp
  /\ c.slot_count \in kMinSlots..kMaxSlots
  /\ c.command_slots # 0 /\ PowerOfTwo(c.command_slots)
  /\ c.max_command_bytes \in 1..MaxCommandBytes

align_up(v) == (U64(v + kLine - 1) \div kLine) * kLine

compute_layout(c) ==
  LET payload_off == align_up(SlotHeaderBytes)
      slot_stride == align_up(U64(payload_off + MaxPayload(c)))
      ring_off    == align_up(RingHeaderBytes)
      cmd_stride  == align_up(U64(CmdHeaderBytes + c.max_command_bytes))
      ring_stride == align_up(U64(ring_off + c.command_slots * cmd_stride))
      slots       == align_up(HeaderBytes)
      downstream  == U64(slots + c.slot_count * slot_stride)
      upstream    == U64(downstream + ring_stride)
  IN  [slots_offset |-> slots, slot_stride |-> slot_stride, slot_payload_off |-> payload_off,
       downstream_offset |-> downstream, upstream_offset |-> upstream,
       ring_stride |-> ring_stride, ring_payload_off |-> ring_off,
       cmd_stride |-> cmd_stride, total_size |-> U64(upstream + ring_stride)]

\* segment_bytes()
SegmentBytes(c) == IF config_valid(c) THEN compute_layout(c).total_size ELSE 0

\* slot_at, slot_payload, cmd_at, cmd_payload: offsets from the base
SlotAt(L, i)        == L.slots_offset + i * L.slot_stride
SlotPayload(L, i)   == SlotAt(L, i) + L.slot_payload_off
CmdAt(L, ring, i)   == ring + L.ring_payload_off + i * L.cmd_stride
CmdPayload(L, r, i) == CmdAt(L, r, i) + CmdHeaderBytes

-----------------------------------------------------------------------------
(* The header in the segment                                                *)

Echoed == {"max_width", "max_height", "bytes_per_pixel", "slot_count",
           "command_slots", "max_command_bytes"}
Stored == {"slots_offset", "slot_stride", "downstream_offset", "upstream_offset",
           "ring_stride", "cmd_stride", "total_size"}
Fields == {"magic", "version"} \union Echoed \union Stored

\* The header of a configuration: 1 stands for kMagic and kVersion.
Header(c) ==
  LET L == compute_layout(c)
  IN  [f \in Fields |-> IF f \in Echoed THEN c[f] ELSE IF f \in Stored THEN L[f] ELSE 1]

ConfigOf(h) == [f \in Echoed |-> h[f]]

\* MUTANT of validate_header: the size of the mapping is not looked at.
validate_header_NoSize(h, bytes) ==
  /\ bytes >= HeaderBytes
  /\ h["magic"] = 1 /\ h["version"] = 1
  /\ config_valid(ConfigOf(h))
  /\ \A f \in Stored : compute_layout(ConfigOf(h))[f] = h[f]

\* MUTANT of validate_header: more than the layout is asked for.
validate_header_TooStrict(h, bytes) ==
  /\ bytes >= HeaderBytes
  /\ h["magic"] = 1 /\ h["version"] = 1
  /\ config_valid(ConfigOf(h))
  /\ \A f \in Stored : compute_layout(ConfigOf(h))[f] = h[f]
  /\ bytes > compute_layout(ConfigOf(h)).total_size

validate_header(h, bytes) ==
  /\ bytes >= HeaderBytes
  /\ h["magic"] = 1 /\ h["version"] = 1
  /\ config_valid(ConfigOf(h))
  /\ \A f \in Stored : compute_layout(ConfigOf(h))[f] = h[f]
  /\ bytes >= compute_layout(ConfigOf(h)).total_size

-----------------------------------------------------------------------------
(* The operations                                                           *)

None == [at |-> "none"]

Init ==
  /\ status = "none"
  /\ hdr = [f \in Fields |-> 0] /\ size = 0
  /\ foreign = FALSE /\ view = None /\ frame = None

\* MUTANT of create: the limit on the size of a segment is forgotten.
create_Unlimited(c) ==
  /\ status # "ok"
  /\ IF SegmentBytes(c) = 0
     THEN status' = "invalid" /\ UNCHANGED <<hdr, size>>
     ELSE status' = "ok" /\ hdr' = Header(c) /\ size' = SegmentBytes(c)
  /\ UNCHANGED <<foreign, view, frame>>

\* LLPublisher::create, as far as sizes go
create(c) ==
  /\ status # "ok"
  /\ IF SegmentBytes(c) = 0 \/ SegmentBytes(c) > kMaxSegment
     THEN status' = "invalid" /\ UNCHANGED <<hdr, size>>
     ELSE status' = "ok" /\ hdr' = Header(c) /\ size' = SegmentBytes(c)
  /\ UNCHANGED <<foreign, view, frame>>

\* Somebody else's segment: a field holds something else, or it is shorter.
make_foreign(f, v) ==
  /\ status = "ok" /\ ~foreign /\ view = None /\ frame = None
  /\ foreign' = TRUE
  /\ \/ hdr' = [hdr EXCEPT ![f] = v] /\ size' = size
     \/ hdr' = hdr /\ v < size /\ size' = v
  /\ UNCHANGED <<status, view, frame>>

\* LLSubscriber attaches: remote_config() and its own layout, or nothing.
try_connect ==
  /\ status = "ok" /\ view = None
  /\ view' = IF validate_header(hdr, size)
             THEN [at |-> "attached", c |-> ConfigOf(hdr), L |-> compute_layout(ConfigOf(hdr))]
             ELSE [at |-> "refused"]
  /\ UNCHANGED <<status, hdr, size, foreign, frame>>

\* MUTANT of begin_write: only the width is compared.
begin_write_WidthOnly(w, h) ==
  /\ status = "ok" /\ ~foreign /\ w # 0 /\ h # 0
  /\ w <= hdr["max_width"]
  /\ frame' = [at |-> "open", width |-> w, height |-> h,
               stride |-> U32(w * hdr["bytes_per_pixel"]),
               payload_bytes |-> U32(U64(w * h * hdr["bytes_per_pixel"]))]
  /\ UNCHANGED <<status, hdr, size, foreign, view>>

\* begin_write: the geometry it accepts and records in the slot
begin_write(w, h) ==
  /\ status = "ok" /\ ~foreign /\ w # 0 /\ h # 0
  /\ U64(w * h * hdr["bytes_per_pixel"]) <= MaxPayload(ConfigOf(hdr))
  /\ frame' = [at |-> "open", width |-> w, height |-> h,
               stride |-> U32(w * hdr["bytes_per_pixel"]),
               payload_bytes |-> U32(U64(w * h * hdr["bytes_per_pixel"]))]
  /\ UNCHANGED <<status, hdr, size, foreign, view>>

Next ==
  \/ \E c \in Config : create(c)
  \/ \E f \in Fields, v \in Garbage : make_foreign(f, v)
  \/ try_connect
  \/ \E w, h \in Sizes : begin_write(w, h)

Spec == Init /\ [][Next]_vars

-----------------------------------------------------------------------------
(* Properties                                                               *)

\* What create admits stays within 32 and 64 bits, and fits the segment.
TypeOK ==
  /\ status \in {"none", "invalid", "ok"} /\ foreign \in BOOLEAN
  /\ hdr \in [Fields -> Nat] /\ size \in 0..kMaxSegment
  /\ view.at \in {"none", "refused", "attached"} /\ frame.at \in {"none", "open"}

\* A named, half-open range of bytes
Part(kind, ring, i, from, bytes) ==
  [id |-> <<kind, ring, i>>, from |-> from, to |-> from + bytes]
Apart(a, b) == a.to <= b.from \/ b.to <= a.from

\* The parts of a segment of configuration c laid out by L that somebody
\* writes: header, slot headers and payloads, ring headers, cells.
Slots(c)    == 0..c.slot_count - 1
Cells(c)    == 0..c.command_slots - 1
Rings       == {"down", "up"}
RingAt(L, r) == IF r = "down" THEN L.downstream_offset ELSE L.upstream_offset
Parts(c, L) ==
  {Part("header", "none", 0, 0, HeaderBytes)}
  \union {Part("slot", "none", i, SlotAt(L, i), SlotHeaderBytes) : i \in Slots(c)}
  \union {Part("pixels", "none", i, SlotPayload(L, i),
               c.max_width * c.max_height * c.bytes_per_pixel) : i \in Slots(c)}
  \union {Part("ring", r, 0, RingAt(L, r), RingHeaderBytes) : r \in Rings}
  \union {Part("cell", r, k, CmdAt(L, RingAt(L, r), k), CmdHeaderBytes) :
             r \in Rings, k \in Cells(c)}
  \union {Part("data", r, k, CmdPayload(L, RingAt(L, r), k), c.max_command_bytes) :
             r \in Rings, k \in Cells(c)}

\* Where the atomics are: they need a line of their own.
Lines(c, L) ==
  {SlotAt(L, i) : i \in Slots(c)} \union {RingAt(L, r) : r \in Rings}
  \union {CmdAt(L, RingAt(L, r), k) : r \in Rings, k \in Cells(c)}

\* No two parts of an adopted segment overlap, all of them lie inside the
\* mapping and the atomics are aligned, also when the header is not one that
\* create wrote: what passes validate_header can be addressed safely.
AdoptedIsSafe ==
  view.at = "attached" =>
    LET P == Parts(view.c, view.L) IN
    /\ \A a \in P : a.to <= size
    /\ \A a, b \in P : a # b => Apart(a, b)
    /\ \A a \in Lines(view.c, view.L) : a % kLine = 0

\* A subscriber is never refused the segment of a publisher of its own build.
OwnSegmentAccepted == view.at = "refused" => foreign

\* A frame that begin_write admits fits the payload of a slot, and the 32-bit
\* fields of the slot say what it really measures, as long as the size of the
\* frame in bytes is a 64-bit number.  (2^31 x 2^31 pixels of 4 bytes are not:
\* they are taken for 0 bytes and admitted.)
AcceptedFits ==
  frame.at = "open" =>
    LET bytes == frame.width * frame.height * hdr["bytes_per_pixel"] IN
    U64(bytes) = bytes =>
      /\ bytes <= hdr["max_width"] * hdr["max_height"] * hdr["bytes_per_pixel"]
      /\ frame.payload_bytes = bytes
      /\ frame.stride * frame.height = bytes
=============================================================================
