---------------------------- MODULE LayoutProofs ----------------------------
(***************************************************************************)
(* Proofs about Layout, for every size of the structs, every line and      *)
(* every limit for which a segment at all limits is smaller than 2^64      *)
(* (LimitsAssumption).  The main lemma is about compute_layout: for a      *)
(* valid configuration none of its sums wraps (LayoutFacts), so every part *)
(* lies in a box of its own (PartBoxes) and the boxes follow each other    *)
(* (PartsApart, PartsInside).                                              *)
(***************************************************************************)
EXTENDS Layout, TLAPS

-----------------------------------------------------------------------------
(* Arithmetic                                                               *)

\* Quotient and remainder of a division by a positive number.
LEMMA DivMod ==
  \A a \in Nat, w \in Nat \ {0} :
    a \div w \in Nat /\ a % w \in 0 .. w - 1 /\ a = w * (a \div w) + (a % w)
OBVIOUS

\* A number below the modulus is its own remainder.
LEMMA Unwrapped ==
  ASSUME NEW w \in Nat \ {0}, NEW x \in Nat, x < w
  PROVE  x % w = x
OBVIOUS

\* Products grow with their factors.
LEMMA MulGrows ==
  ASSUME NEW a \in Nat, NEW b \in Nat, NEW m \in Nat, NEW n \in Nat, a <= m, b <= n
  PROVE  a * b \in Nat /\ a * b <= m * n /\ m * n \in Nat
<1>1. a * b <= m * b
  BY ONLY a \in Nat, b \in Nat, m \in Nat, a <= m
<1>2. m * b <= m * n
  BY ONLY m \in Nat, b \in Nat, n \in Nat, b <= n
<1> QED
  BY <1>1, <1>2

\* The i-th of several strides ends where the next one begins, or earlier.
LEMMA StridesFollow ==
  ASSUME NEW s \in Nat, NEW i \in Nat, NEW j \in Nat, i < j
  PROVE  i * s \in Nat /\ j * s \in Nat /\ i * s + s <= j * s
<1> DEFINE d == j - i - 1
<1>1. d \in Nat /\ j = i + 1 + d
  OBVIOUS
<1> HIDE DEF d
<1>2. d * s \in Nat
  BY <1>1
<1>3. j * s = i * s + s + d * s
  BY <1>1
<1> QED
  BY <1>2, <1>3

\* A multiple of the line
Aligned(x) == \E k \in Nat : x = k * kLine

LEMMA AlignedMod ==
  ASSUME NEW x, Aligned(x)
  PROVE  x \in Nat /\ x % kLine = 0
<1>1. PICK k \in Nat : x = k * kLine
  BY DEF Aligned
<1>2. kLine \in Nat \ {0}
  BY LayoutAssumption
<1>3. (k * kLine) % kLine = 0 /\ k * kLine \in Nat
  BY <1>2
<1> QED
  BY <1>1, <1>3

LEMMA AlignedSum ==
  ASSUME NEW x, NEW y, Aligned(x), Aligned(y)
  PROVE  Aligned(x + y)
<1>1. PICK k \in Nat : x = k * kLine
  BY DEF Aligned
<1>2. PICK m \in Nat : y = m * kLine
  BY DEF Aligned
<1>3. kLine \in Nat
  BY LayoutAssumption
<1>4. x + y = (k + m) * kLine
  BY <1>1, <1>2, <1>3
<1> QED
  BY <1>4 DEF Aligned

LEMMA AlignedTimes ==
  ASSUME NEW x, Aligned(x), NEW n \in Nat
  PROVE  Aligned(n * x)
<1>1. PICK k \in Nat : x = k * kLine
  BY DEF Aligned
<1>2. kLine \in Nat
  BY LayoutAssumption
<1>3. n * x = (n * k) * kLine /\ n * k \in Nat
  BY <1>1, <1>2
<1> QED
  BY <1>3 DEF Aligned

\* align_up returns the next multiple of the line, unless it wraps.
LEMMA AlignUp ==
  ASSUME NEW v \in Nat, v + kLine <= Word64
  PROVE  /\ align_up(v) \in Nat /\ Aligned(align_up(v))
         /\ v <= align_up(v) /\ align_up(v) < v + kLine
<1>1. kLine \in Nat \ {0} /\ Word64 \in Nat \ {0}
  BY LayoutAssumption, PowerAssumption
<1> DEFINE x == v + kLine - 1
           q == x \div kLine
           r == x % kLine
<1>2. x \in Nat /\ x < Word64
  BY <1>1
<1>3. U64(x) = x
  BY <1>1, <1>2, Unwrapped DEF U64
<1>4. q \in Nat /\ r \in 0 .. kLine - 1 /\ x = kLine * q + r
  BY <1>1, <1>2, DivMod
<1>5. align_up(v) = q * kLine
  BY <1>3 DEF align_up
<1>6. x = v + kLine - 1
  OBVIOUS
<1> HIDE DEF x, q, r
<1>7. q * kLine = kLine * q /\ q * kLine \in Nat
  BY <1>1, <1>4
<1>8. Aligned(align_up(v))
  BY <1>4, <1>5 DEF Aligned
<1> QED
  BY <1>1, <1>4, <1>5, <1>6, <1>7, <1>8

-----------------------------------------------------------------------------
(* The layout of a valid configuration                                      *)

\* What the layout of a configuration promises: L is compute_layout(c) with
\* sums that have not wrapped.
Fits(c, L) ==
  /\ L.slots_offset \in Nat /\ L.slot_payload_off \in Nat /\ L.slot_stride \in Nat
  /\ L.ring_payload_off \in Nat /\ L.cmd_stride \in Nat /\ L.ring_stride \in Nat
  /\ L.slots_offset >= HeaderBytes
  /\ L.slot_payload_off >= SlotHeaderBytes
  /\ L.slot_stride >= L.slot_payload_off + c.max_width * c.max_height * c.bytes_per_pixel
  /\ L.ring_payload_off >= RingHeaderBytes
  /\ L.cmd_stride >= CmdHeaderBytes + c.max_command_bytes
  /\ L.ring_stride >= L.ring_payload_off + c.command_slots * L.cmd_stride
  /\ L.downstream_offset = L.slots_offset + c.slot_count * L.slot_stride
  /\ L.upstream_offset = L.downstream_offset + L.ring_stride
  /\ L.total_size = L.upstream_offset + L.ring_stride

LinesFit(L) ==
  /\ Aligned(L.slots_offset) /\ Aligned(L.slot_stride)
  /\ Aligned(L.ring_payload_off) /\ Aligned(L.cmd_stride) /\ Aligned(L.ring_stride)

\* The fields of a valid configuration are numbers within the limits.
LEMMA ValidFields ==
  ASSUME NEW c, config_valid(c)
  PROVE  /\ c.max_width \in Nat \ {0} /\ c.max_width <= kMaxDimension
         /\ c.max_height \in Nat \ {0} /\ c.max_height <= kMaxDimension
         /\ c.bytes_per_pixel \in Nat \ {0} /\ c.bytes_per_pixel <= MaxBpp
         /\ c.slot_count \in Nat \ {0} /\ c.slot_count <= kMaxSlots
         /\ c.command_slots \in Nat \ {0} /\ c.command_slots <= Word32
         /\ c.max_command_bytes \in Nat \ {0} /\ c.max_command_bytes <= MaxCommandBytes
<1>1. PICK k \in 0..(WordBits - 1) : c.command_slots = 2^k
  BY DEF config_valid, PowerOfTwo
<1>2. 2^k \in 1..(Word32 - 1) /\ Word32 \in Nat
  BY PowerAssumption
<1>3. c.command_slots \in 1..(Word32 - 1)
  BY <1>1, <1>2
<1> QED
  BY <1>2, <1>3, LayoutAssumption DEF config_valid

\* The bytes of a frame at the limits of a valid configuration.
LEMMA PayloadLimit ==
  ASSUME NEW c, config_valid(c)
  PROVE  /\ c.max_width * c.max_height * c.bytes_per_pixel \in Nat
         /\ c.max_width * c.max_height * c.bytes_per_pixel
              <= kMaxDimension * kMaxDimension * MaxBpp
         /\ kMaxDimension * kMaxDimension * MaxBpp \in Nat
<1> DEFINE a == c.max_width * c.max_height
           m == kMaxDimension * kMaxDimension
<1>1. kMaxDimension \in Nat /\ MaxBpp \in Nat
  BY LayoutAssumption
<1>2. a \in Nat /\ a <= m /\ m \in Nat
  BY <1>1, ValidFields, MulGrows
<1> HIDE DEF a, m
<1>3. a * c.bytes_per_pixel \in Nat /\ a * c.bytes_per_pixel <= m * MaxBpp /\ m * MaxBpp \in Nat
  BY <1>1, <1>2, ValidFields, MulGrows
<1> QED
  BY <1>3 DEF a, m

\* No sum of compute_layout wraps for a valid configuration.
LEMMA LayoutFacts ==
  ASSUME NEW c, config_valid(c)
  PROVE  /\ Fits(c, compute_layout(c)) /\ LinesFit(compute_layout(c))
         /\ MaxPayload(c) = c.max_width * c.max_height * c.bytes_per_pixel
         /\ compute_layout(c).total_size \in Nat
<1> DEFINE payload == c.max_width * c.max_height * c.bytes_per_pixel
           pixels  == kMaxDimension * kMaxDimension * MaxBpp
           slot    == SlotHeaderBytes + pixels + 2 * kLine
           cmd     == CmdHeaderBytes + MaxCommandBytes + kLine
           cmds    == Word32 * cmd
           ring    == RingHeaderBytes + cmds + 2 * kLine
           poff    == align_up(SlotHeaderBytes)
           ss      == align_up(U64(poff + MaxPayload(c)))
           roff    == align_up(RingHeaderBytes)
           cs      == align_up(U64(CmdHeaderBytes + c.max_command_bytes))
           rs      == align_up(U64(roff + c.command_slots * cs))
           so      == align_up(HeaderBytes)
           down    == U64(so + c.slot_count * ss)
           up      == U64(down + rs)
           L       == compute_layout(c)
<1>1. /\ L.slots_offset = so /\ L.slot_stride = ss /\ L.slot_payload_off = poff
      /\ L.downstream_offset = down /\ L.upstream_offset = up /\ L.ring_stride = rs
      /\ L.ring_payload_off = roff /\ L.cmd_stride = cs /\ L.total_size = U64(up + rs)
  BY DEF compute_layout
<1>2. /\ kLine \in Nat \ {0} /\ HeaderBytes \in Nat \ {0} /\ SlotHeaderBytes \in Nat \ {0}
      /\ RingHeaderBytes \in Nat \ {0} /\ CmdHeaderBytes \in Nat \ {0}
      /\ kMaxSlots \in Nat \ {0} /\ MaxCommandBytes \in Nat \ {0}
      /\ Word32 \in Nat \ {0} /\ Word64 \in Nat \ {0}
  BY LayoutAssumption, PowerAssumption
<1>3. payload \in Nat /\ pixels \in Nat /\ payload <= pixels
  BY PayloadLimit
<1>4. HeaderBytes + kLine + kMaxSlots * slot + 2 * ring < Word64
  BY LimitsAssumption
<1>5. cmd \in Nat /\ cmds \in Nat
  BY <1>2
<1>6. slot \in Nat /\ ring \in Nat /\ kMaxSlots * slot \in Nat /\ slot <= kMaxSlots * slot
  <2>1. slot \in Nat /\ ring \in Nat
    BY <1>2, <1>3, <1>5
  <2> HIDE DEF slot, ring
  <2>2. 1 \in Nat /\ 1 <= kMaxSlots /\ slot <= slot
    BY <1>2, <2>1
  <2>3. 1 * slot <= kMaxSlots * slot /\ kMaxSlots * slot \in Nat
    BY <1>2, <2>1, <2>2, MulGrows
  <2> QED
    BY <2>1, <2>3
<1>7. \A x \in Nat : x < Word64 => U64(x) = x
  BY <1>2, Unwrapped DEF U64
<1>8. /\ slot = SlotHeaderBytes + pixels + 2 * kLine
      /\ cmd = CmdHeaderBytes + MaxCommandBytes + kLine
      /\ ring = RingHeaderBytes + cmds + 2 * kLine
  OBVIOUS
<1> HIDE DEF pixels, slot, cmds, cmd, ring
<1>10. MaxPayload(c) = payload
  <2>1. payload < Word64
    BY <1>2, <1>3, <1>4, <1>6, <1>8
  <2> QED
    BY <1>3, <1>7, <2>1 DEF MaxPayload
<1> HIDE DEF payload
<1>11. so \in Nat /\ Aligned(so) /\ HeaderBytes <= so /\ so < HeaderBytes + kLine
  BY <1>2, <1>4, <1>6, AlignUp
<1>12. poff \in Nat /\ Aligned(poff) /\ SlotHeaderBytes <= poff /\ poff < SlotHeaderBytes + kLine
  <2>1. SlotHeaderBytes + kLine <= Word64
    BY <1>2, <1>3, <1>4, <1>6, <1>8
  <2> QED
    BY <1>2, <2>1, AlignUp
<1>13. roff \in Nat /\ Aligned(roff) /\ RingHeaderBytes <= roff /\ roff < RingHeaderBytes + kLine
  <2>1. RingHeaderBytes + kLine <= Word64
    BY <1>2, <1>5, <1>4, <1>6, <1>8
  <2> QED
    BY <1>2, <2>1, AlignUp
<1> HIDE DEF so, poff, roff
<1>14. ss \in Nat /\ Aligned(ss) /\ poff + payload <= ss /\ ss < slot
  <2> DEFINE x == poff + payload
  <2>1. x \in Nat /\ x + kLine < slot
    BY <1>2, <1>3, <1>8, <1>12
  <2>2. x + kLine <= Word64 /\ x < Word64
    BY <1>2, <1>4, <1>6, <2>1
  <2>3. U64(poff + MaxPayload(c)) = x
    BY <1>7, <1>10, <2>1, <2>2
  <2> HIDE DEF x
  <2>4. ss = align_up(x)
    BY <2>3
  <2>5. align_up(x) \in Nat /\ Aligned(align_up(x)) /\ x <= align_up(x) /\ align_up(x) < x + kLine
    BY <2>1, <2>2, AlignUp
  <2>6. ss \in Nat /\ Aligned(ss) /\ x <= ss /\ ss < x + kLine
    BY <2>4, <2>5
  <2> HIDE DEF ss
  <2> QED
    BY <1>2, <1>6, <2>1, <2>6 DEF x
<1>15. cs \in Nat /\ Aligned(cs) /\ CmdHeaderBytes + c.max_command_bytes <= cs /\ cs < cmd
  <2> DEFINE x == CmdHeaderBytes + c.max_command_bytes
  <2>1. x \in Nat /\ x + kLine <= cmd
    BY <1>2, <1>8, ValidFields
  <2>2. cmd <= cmds
    <3>1. 1 \in Nat /\ 1 <= Word32 /\ cmd <= cmd
      BY <1>2, <1>5
    <3>2. 1 * cmd <= Word32 * cmd
      BY <1>2, <1>5, <3>1, MulGrows
    <3> QED
      BY <1>5, <3>2 DEF cmds
  <2>3. x + kLine <= Word64 /\ x < Word64
    BY <1>2, <1>4, <1>5, <1>6, <1>8, <2>1, <2>2
  <2>4. U64(CmdHeaderBytes + c.max_command_bytes) = x
    BY <1>7, <2>1, <2>3
  <2> HIDE DEF x
  <2>5. cs = align_up(x)
    BY <2>4
  <2>6. align_up(x) \in Nat /\ Aligned(align_up(x)) /\ x <= align_up(x) /\ align_up(x) < x + kLine
    BY <2>1, <2>3, AlignUp
  <2>7. cs \in Nat /\ Aligned(cs) /\ x <= cs /\ cs < x + kLine
    BY <2>5, <2>6
  <2> HIDE DEF cs
  <2> QED
    BY <1>2, <1>5, <2>1, <2>7 DEF x
<1> HIDE DEF ss, cs
<1>16. c.command_slots * cs \in Nat /\ c.command_slots * cs <= cmds
  BY <1>2, <1>5, <1>15, ValidFields, MulGrows DEF cmds
<1>17. rs \in Nat /\ Aligned(rs) /\ roff + c.command_slots * cs <= rs /\ rs < ring
  <2> DEFINE y == c.command_slots * cs
             x == roff + y
  <2>1. y \in Nat /\ y <= cmds
    BY <1>16
  <2> HIDE DEF y
  <2>2. x \in Nat /\ x + kLine < ring
    BY <1>2, <1>5, <1>8, <1>13, <2>1
  <2>3. x + kLine <= Word64 /\ x < Word64
    BY <1>2, <1>4, <1>6, <2>2
  <2>4. U64(roff + y) = x
    BY <1>7, <2>2, <2>3
  <2> HIDE DEF x
  <2>5. rs = align_up(x)
    BY <2>4 DEF y
  <2>6. align_up(x) \in Nat /\ Aligned(align_up(x)) /\ x <= align_up(x) /\ align_up(x) < x + kLine
    BY <2>2, <2>3, AlignUp
  <2>7. rs \in Nat /\ Aligned(rs) /\ x <= rs /\ rs < x + kLine
    BY <2>5, <2>6
  <2> HIDE DEF rs
  <2> QED
    BY <1>2, <1>6, <2>2, <2>7 DEF x, y
<1> HIDE DEF rs
<1>18. c.slot_count * ss \in Nat /\ c.slot_count * ss <= kMaxSlots * slot
  BY <1>2, <1>6, <1>14, ValidFields, MulGrows
<1>19. down = so + c.slot_count * ss /\ up = down + rs /\ U64(up + rs) = up + rs
  <2> DEFINE y == c.slot_count * ss
             top == kMaxSlots * slot
  <2>1. y \in Nat /\ y <= top /\ top \in Nat
    BY <1>18, <1>6
  <2>2. HeaderBytes + kLine + top + 2 * ring < Word64
    BY <1>4
  <2> HIDE DEF y, top
  <2>3. so + y \in Nat /\ so + y < Word64
    BY <1>2, <1>6, <1>11, <2>1, <2>2
  <2>4. down = so + y
    BY <1>7, <2>3 DEF y
  <2> HIDE DEF down
  <2>5. down + rs \in Nat /\ down + rs < Word64
    BY <1>2, <1>6, <1>11, <1>17, <2>1, <2>2, <2>4
  <2>6. up = down + rs
    BY <1>7, <2>5
  <2> HIDE DEF up
  <2>7. up + rs \in Nat /\ up + rs < Word64
    BY <1>2, <1>6, <1>11, <1>17, <2>1, <2>2, <2>4, <2>6
  <2> QED
    BY <1>7, <2>4, <2>6, <2>7 DEF y
<1> HIDE DEF L, down, up
<1>20. Fits(c, L)
  BY <1>1, <1>11, <1>12, <1>13, <1>14, <1>15, <1>17, <1>19 DEF Fits, payload
<1>21. LinesFit(L)
  BY <1>1, <1>11, <1>13, <1>14, <1>15, <1>17 DEF LinesFit
<1>22. L.total_size \in Nat
  BY <1>1, <1>11, <1>17, <1>18, <1>19
<1> QED
  BY <1>10, <1>20, <1>21, <1>22 DEF L, payload

-----------------------------------------------------------------------------
(* The parts of a segment                                                   *)

\* The range a is inside lo .. hi - 1
Within(a, lo, hi) ==
  a.from \in Nat /\ a.to \in Nat /\ lo <= a.from /\ a.from <= a.to /\ a.to <= hi

HeaderPart       == Part("header", "none", 0, 0, HeaderBytes)
SlotPart(L, i)   == Part("slot", "none", i, SlotAt(L, i), SlotHeaderBytes)
PixelPart(c, L, i) ==
  Part("pixels", "none", i, SlotPayload(L, i), c.max_width * c.max_height * c.bytes_per_pixel)
RingPart(L, r)    == Part("ring", r, 0, RingAt(L, r), RingHeaderBytes)
CellPart(L, r, k) == Part("cell", r, k, CmdAt(L, RingAt(L, r), k), CmdHeaderBytes)
DataPart(c, L, r, k) ==
  Part("data", r, k, CmdPayload(L, RingAt(L, r), k), c.max_command_bytes)

\* A part of slot i, and of cell k of ring r
OfSlot(c, L, i, a)    == a \in {SlotPart(L, i), PixelPart(c, L, i)}
OfCell(c, L, r, k, a) == a \in {CellPart(L, r, k), DataPart(c, L, r, k)}

LEMMA PartKinds ==
  ASSUME NEW c, NEW L, NEW a \in Parts(c, L)
  PROVE  \/ a = HeaderPart
         \/ \E i \in Slots(c) : OfSlot(c, L, i, a)
         \/ \E r \in Rings : a = RingPart(L, r)
         \/ \E r \in Rings, k \in Cells(c) : OfCell(c, L, r, k, a)
BY DEF Parts, HeaderPart, SlotPart, PixelPart, RingPart, CellPart, DataPart, OfSlot, OfCell

\* Slot i occupies its stride; its header comes before its pixels.
LEMMA SlotBox ==
  ASSUME NEW c, NEW L, config_valid(c), Fits(c, L), NEW i \in Slots(c)
  PROVE  /\ i \in Nat /\ SlotAt(L, i) \in Nat
         /\ L.slots_offset <= SlotAt(L, i)
         /\ SlotAt(L, i) + L.slot_stride <= L.downstream_offset
         /\ \A a : OfSlot(c, L, i, a) => Within(a, SlotAt(L, i), SlotAt(L, i) + L.slot_stride)
         /\ Apart(SlotPart(L, i), PixelPart(c, L, i))
         /\ Apart(PixelPart(c, L, i), SlotPart(L, i))
<1> DEFINE payload == c.max_width * c.max_height * c.bytes_per_pixel
           off == i * L.slot_stride
           n == c.slot_count * L.slot_stride
<1>1. payload \in Nat
  BY PayloadLimit
<1>2. /\ i \in Nat /\ c.slot_count \in Nat /\ i < c.slot_count
      /\ SlotHeaderBytes \in Nat
  BY ValidFields, LayoutAssumption DEF Slots
<1>3. /\ L.slots_offset \in Nat /\ L.slot_payload_off \in Nat /\ L.slot_stride \in Nat
      /\ L.slot_payload_off >= SlotHeaderBytes
      /\ L.slot_stride >= L.slot_payload_off + payload
      /\ L.downstream_offset = L.slots_offset + n
  BY DEF Fits
<1>4. off \in Nat /\ n \in Nat /\ off + L.slot_stride <= n
  BY <1>2, <1>3, StridesFollow
<1> DEFINE sp == SlotPart(L, i)
           pp == PixelPart(c, L, i)
<1>5. /\ SlotAt(L, i) = L.slots_offset + off
      /\ sp.from = L.slots_offset + off /\ sp.to = L.slots_offset + off + SlotHeaderBytes
      /\ pp.from = L.slots_offset + off + L.slot_payload_off
      /\ pp.to = L.slots_offset + off + L.slot_payload_off + payload
  BY DEF SlotPart, PixelPart, Part, SlotAt, SlotPayload
<1>6. \A a : OfSlot(c, L, i, a) => a = sp \/ a = pp
  BY DEF OfSlot
<1> HIDE DEF payload, off, n, sp, pp
<1>7. /\ Within(sp, SlotAt(L, i), SlotAt(L, i) + L.slot_stride)
      /\ Within(pp, SlotAt(L, i), SlotAt(L, i) + L.slot_stride)
  BY <1>1, <1>2, <1>3, <1>4, <1>5 DEF Within
<1>8. Apart(sp, pp) /\ Apart(pp, sp)
  BY <1>1, <1>2, <1>3, <1>4, <1>5 DEF Apart
<1>9. \A a : OfSlot(c, L, i, a) => Within(a, SlotAt(L, i), SlotAt(L, i) + L.slot_stride)
  BY <1>6, <1>7
<1> QED
  BY <1>2, <1>3, <1>4, <1>5, <1>8, <1>9 DEF sp, pp

\* A ring begins after the slots and ends with the segment at the latest, the
\* second after the first.
LEMMA RingBox ==
  ASSUME NEW c, NEW L, config_valid(c), Fits(c, L), NEW r \in Rings
  PROVE  /\ RingAt(L, r) \in Nat /\ L.downstream_offset \in Nat /\ L.total_size \in Nat
         /\ HeaderBytes <= L.downstream_offset
         /\ L.downstream_offset <= RingAt(L, r)
         /\ RingAt(L, r) + L.ring_stride <= L.total_size
         /\ \A q \in Rings : q = r \/ \/ RingAt(L, r) + L.ring_stride <= RingAt(L, q)
                                      \/ RingAt(L, q) + L.ring_stride <= RingAt(L, r)
<1>1. c.slot_count * L.slot_stride \in Nat
  BY ValidFields DEF Fits
<1>2. L.downstream_offset \in Nat /\ HeaderBytes <= L.downstream_offset
  BY <1>1, LayoutAssumption DEF Fits
<1>3. L.ring_stride \in Nat /\ L.upstream_offset = L.downstream_offset + L.ring_stride
      /\ L.total_size = L.upstream_offset + L.ring_stride
  BY DEF Fits
<1> QED
  BY <1>2, <1>3 DEF Rings, RingAt

\* Cell k of a ring lies behind the header of the ring and occupies its stride.
LEMMA CellBox ==
  ASSUME NEW c, NEW L, config_valid(c), Fits(c, L), NEW r \in Rings, NEW k \in Cells(c)
  PROVE  /\ k \in Nat /\ CmdAt(L, RingAt(L, r), k) \in Nat
         /\ CmdAt(L, RingAt(L, r), k) = RingAt(L, r) + L.ring_payload_off + k * L.cmd_stride
         /\ RingAt(L, r) + L.ring_payload_off <= CmdAt(L, RingAt(L, r), k)
         /\ CmdAt(L, RingAt(L, r), k) + L.cmd_stride <= RingAt(L, r) + L.ring_stride
         /\ \A a : OfCell(c, L, r, k, a) =>
              Within(a, CmdAt(L, RingAt(L, r), k), CmdAt(L, RingAt(L, r), k) + L.cmd_stride)
         /\ Apart(CellPart(L, r, k), DataPart(c, L, r, k))
         /\ Apart(DataPart(c, L, r, k), CellPart(L, r, k))
<1> DEFINE off == k * L.cmd_stride
           n == c.command_slots * L.cmd_stride
           base == RingAt(L, r)
           cell == CellPart(L, r, k)
           data == DataPart(c, L, r, k)
<1>1. /\ k \in Nat /\ c.command_slots \in Nat /\ k < c.command_slots
      /\ CmdHeaderBytes \in Nat /\ c.max_command_bytes \in Nat
  BY ValidFields, LayoutAssumption DEF Cells
<1>2. /\ L.ring_payload_off \in Nat /\ L.cmd_stride \in Nat /\ L.ring_stride \in Nat
      /\ L.cmd_stride >= CmdHeaderBytes + c.max_command_bytes
      /\ L.ring_stride >= L.ring_payload_off + n
  BY DEF Fits
<1>3. off \in Nat /\ n \in Nat /\ off + L.cmd_stride <= n
  BY <1>1, <1>2, StridesFollow
<1>4. base \in Nat
  BY RingBox
<1>5. /\ CmdAt(L, base, k) = base + L.ring_payload_off + off
      /\ cell.from = base + L.ring_payload_off + off
      /\ cell.to = base + L.ring_payload_off + off + CmdHeaderBytes
      /\ data.from = base + L.ring_payload_off + off + CmdHeaderBytes
      /\ data.to = base + L.ring_payload_off + off + CmdHeaderBytes + c.max_command_bytes
  BY DEF CellPart, DataPart, Part, CmdAt, CmdPayload
<1>6. \A a : OfCell(c, L, r, k, a) => a = cell \/ a = data
  BY DEF OfCell
<1> HIDE DEF off, n, base, cell, data
<1>7. /\ Within(cell, CmdAt(L, base, k), CmdAt(L, base, k) + L.cmd_stride)
      /\ Within(data, CmdAt(L, base, k), CmdAt(L, base, k) + L.cmd_stride)
  BY <1>1, <1>2, <1>3, <1>4, <1>5 DEF Within
<1>8. Apart(cell, data) /\ Apart(data, cell)
  BY <1>1, <1>2, <1>3, <1>4, <1>5 DEF Apart
<1>9. \A a : OfCell(c, L, r, k, a) =>
        Within(a, CmdAt(L, base, k), CmdAt(L, base, k) + L.cmd_stride)
  BY <1>6, <1>7
<1>10. /\ CmdAt(L, base, k) \in Nat
       /\ base + L.ring_payload_off <= CmdAt(L, base, k)
       /\ CmdAt(L, base, k) + L.cmd_stride <= base + L.ring_stride
  BY <1>1, <1>2, <1>3, <1>4, <1>5
<1> QED
  BY <1>1, <1>5, <1>8, <1>9, <1>10 DEF base, cell, data, off

LEMMA RingHeadBox ==
  ASSUME NEW c, NEW L, config_valid(c), Fits(c, L), NEW r \in Rings
  PROVE  /\ Within(RingPart(L, r), RingAt(L, r), RingAt(L, r) + L.ring_payload_off)
         /\ L.ring_payload_off \in Nat /\ L.ring_stride \in Nat
         /\ L.ring_payload_off <= L.ring_stride
<1> DEFINE base == RingAt(L, r)
           p == RingPart(L, r)
<1>1. c.command_slots * L.cmd_stride \in Nat
  BY ValidFields DEF Fits
<1>2. /\ L.ring_payload_off \in Nat /\ L.ring_stride \in Nat /\ RingHeaderBytes \in Nat
      /\ RingHeaderBytes <= L.ring_payload_off /\ L.ring_payload_off <= L.ring_stride
  BY <1>1, LayoutAssumption DEF Fits
<1>3. base \in Nat
  BY RingBox
<1>4. p.from = base /\ p.to = base + RingHeaderBytes
  BY DEF RingPart, Part
<1> HIDE DEF base, p
<1>5. Within(p, base, base + L.ring_payload_off)
  BY <1>2, <1>3, <1>4 DEF Within
<1> QED
  BY <1>2, <1>5 DEF base, p

\* The parts of ring r
OfRing(c, L, r, a) == a = RingPart(L, r) \/ \E k \in Cells(c) : OfCell(c, L, r, k, a)

\* Where the three areas of a segment are.
LEMMA Areas ==
  ASSUME NEW c, NEW L, config_valid(c), Fits(c, L), NEW a
  PROVE  /\ a = HeaderPart => Within(a, 0, L.slots_offset)
         /\ \A i \in Slots(c) : OfSlot(c, L, i, a) =>
              Within(a, L.slots_offset, L.downstream_offset)
         /\ \A r \in Rings : OfRing(c, L, r, a) =>
              Within(a, RingAt(L, r), RingAt(L, r) + L.ring_stride)
<1>1. a = HeaderPart => Within(a, 0, L.slots_offset)
  BY LayoutAssumption DEF HeaderPart, Part, Within, Fits
<1>2. ASSUME NEW i \in Slots(c), OfSlot(c, L, i, a)
      PROVE  Within(a, L.slots_offset, L.downstream_offset)
  <2>1. /\ SlotAt(L, i) \in Nat /\ L.slots_offset <= SlotAt(L, i)
        /\ SlotAt(L, i) + L.slot_stride <= L.downstream_offset
        /\ Within(a, SlotAt(L, i), SlotAt(L, i) + L.slot_stride)
    BY <1>2, SlotBox
  <2>2. L.slots_offset \in Nat /\ L.slot_stride \in Nat /\ L.downstream_offset \in Nat
    <3>1. "down" \in Rings
      BY DEF Rings
    <3> QED
      BY <3>1, RingBox DEF Fits
  <2> QED
    BY <2>1, <2>2 DEF Within
<1>3. ASSUME NEW r \in Rings, OfRing(c, L, r, a)
      PROVE  Within(a, RingAt(L, r), RingAt(L, r) + L.ring_stride)
  <2>1. RingAt(L, r) \in Nat /\ L.ring_stride \in Nat /\ L.ring_payload_off \in Nat
        /\ L.ring_payload_off <= L.ring_stride /\ L.cmd_stride \in Nat
    BY RingBox, RingHeadBox DEF Fits
  <2>2. CASE a = RingPart(L, r)
    <3>1. Within(a, RingAt(L, r), RingAt(L, r) + L.ring_payload_off)
      BY <2>2, RingHeadBox
    <3> QED
      BY <2>1, <3>1 DEF Within
  <2>3. ASSUME NEW k \in Cells(c), OfCell(c, L, r, k, a)
        PROVE  Within(a, RingAt(L, r), RingAt(L, r) + L.ring_stride)
    <3> DEFINE at == CmdAt(L, RingAt(L, r), k)
    <3>1. /\ at \in Nat /\ RingAt(L, r) + L.ring_payload_off <= at
          /\ at + L.cmd_stride <= RingAt(L, r) + L.ring_stride
          /\ Within(a, at, at + L.cmd_stride)
      BY <2>3, CellBox
    <3> HIDE DEF at
    <3> QED
      BY <2>1, <3>1 DEF Within
  <2> QED
    BY <1>3, <2>2, <2>3 DEF OfRing
<1> QED
  BY <1>1, <1>2, <1>3

\* Ranges within bounds that follow each other are apart.
LEMMA WithinApart ==
  ASSUME NEW a, NEW b, NEW l \in Nat, NEW m \in Nat, NEW h \in Nat, NEW n \in Nat,
         Within(a, l, m), Within(b, h, n), m <= h \/ n <= l
  PROVE  Apart(a, b) /\ Apart(b, a)
BY DEF Within, Apart

LEMMA SlotsApart ==
  ASSUME NEW c, NEW L, config_valid(c), Fits(c, L), NEW i \in Slots(c), NEW j \in Slots(c),
         NEW a, NEW b, OfSlot(c, L, i, a), OfSlot(c, L, j, b), a # b
  PROVE  Apart(a, b)
<1>1. CASE i = j
  BY <1>1, SlotBox DEF OfSlot
<1>2. ASSUME NEW u \in Slots(c), NEW v \in Slots(c), u < v
      PROVE  SlotAt(L, u) + L.slot_stride <= SlotAt(L, v)
  <2>1. u \in Nat /\ v \in Nat /\ L.slot_stride \in Nat /\ L.slots_offset \in Nat
    BY SlotBox DEF Fits
  <2>2. u * L.slot_stride \in Nat /\ v * L.slot_stride \in Nat
        /\ u * L.slot_stride + L.slot_stride <= v * L.slot_stride
    BY <1>2, <2>1, StridesFollow
  <2> QED
    BY <2>1, <2>2 DEF SlotAt
<1>3. CASE i # j
  <2>1. i \in Nat /\ j \in Nat /\ SlotAt(L, i) \in Nat /\ SlotAt(L, j) \in Nat
        /\ L.slot_stride \in Nat
    BY SlotBox DEF Fits
  <2>2. \/ SlotAt(L, i) + L.slot_stride <= SlotAt(L, j)
        \/ SlotAt(L, j) + L.slot_stride <= SlotAt(L, i)
    BY <1>2, <1>3, <2>1
  <2>3. /\ Within(a, SlotAt(L, i), SlotAt(L, i) + L.slot_stride)
        /\ Within(b, SlotAt(L, j), SlotAt(L, j) + L.slot_stride)
    BY SlotBox
  <2> QED
    BY <2>1, <2>2, <2>3, WithinApart
<1> QED
  BY <1>1, <1>3

LEMMA CellsApart ==
  ASSUME NEW c, NEW L, config_valid(c), Fits(c, L), NEW r \in Rings,
         NEW i \in Cells(c), NEW j \in Cells(c),
         NEW a, NEW b, OfCell(c, L, r, i, a), OfCell(c, L, r, j, b), a # b
  PROVE  Apart(a, b)
<1> DEFINE at(k) == CmdAt(L, RingAt(L, r), k)
<1>1. CASE i = j
  BY <1>1, CellBox DEF OfCell
<1>2. ASSUME NEW u \in Cells(c), NEW v \in Cells(c), u < v
      PROVE  at(u) + L.cmd_stride <= at(v)
  <2>1. u \in Nat /\ v \in Nat /\ L.cmd_stride \in Nat /\ L.ring_payload_off \in Nat
        /\ RingAt(L, r) \in Nat
    BY CellBox, RingBox DEF Fits
  <2>2. u * L.cmd_stride \in Nat /\ v * L.cmd_stride \in Nat
        /\ u * L.cmd_stride + L.cmd_stride <= v * L.cmd_stride
    BY <1>2, <2>1, StridesFollow
  <2>3. /\ at(u) = RingAt(L, r) + L.ring_payload_off + u * L.cmd_stride
        /\ at(v) = RingAt(L, r) + L.ring_payload_off + v * L.cmd_stride
    BY CellBox
  <2> HIDE DEF at
  <2> QED
    BY <2>1, <2>2, <2>3
<1>3. CASE i # j
  <2>1. i \in Nat /\ j \in Nat /\ at(i) \in Nat /\ at(j) \in Nat /\ L.cmd_stride \in Nat
    BY CellBox DEF Fits
  <2>2. Within(a, at(i), at(i) + L.cmd_stride) /\ Within(b, at(j), at(j) + L.cmd_stride)
    BY CellBox
  <2> HIDE DEF at
  <2>3. at(i) + L.cmd_stride <= at(j) \/ at(j) + L.cmd_stride <= at(i)
    BY <1>2, <1>3, <2>1
  <2> QED
    BY <2>1, <2>2, <2>3, WithinApart
<1> QED
  BY <1>1, <1>3

\* The parts of one ring: its header comes before its cells.
LEMMA RingPartsApart ==
  ASSUME NEW c, NEW L, config_valid(c), Fits(c, L), NEW r \in Rings,
         NEW a, NEW b, OfRing(c, L, r, a), OfRing(c, L, r, b), a # b
  PROVE  Apart(a, b)
<1>1. ASSUME NEW k \in Cells(c), NEW d, OfCell(c, L, r, k, d)
      PROVE  Apart(RingPart(L, r), d) /\ Apart(d, RingPart(L, r))
  <2> DEFINE at == CmdAt(L, RingAt(L, r), k)
  <2>1. /\ at \in Nat /\ RingAt(L, r) + L.ring_payload_off <= at
        /\ Within(d, at, at + L.cmd_stride)
    BY <1>1, CellBox
  <2>2. /\ Within(RingPart(L, r), RingAt(L, r), RingAt(L, r) + L.ring_payload_off)
        /\ RingAt(L, r) \in Nat /\ L.ring_payload_off \in Nat /\ L.cmd_stride \in Nat
    BY RingHeadBox, RingBox DEF Fits
  <2> HIDE DEF at
  <2> QED
    BY <2>1, <2>2, WithinApart
<1>2. CASE a = RingPart(L, r)
  BY <1>1, <1>2 DEF OfRing
<1>3. CASE b = RingPart(L, r)
  BY <1>1, <1>3 DEF OfRing
<1>4. ASSUME NEW i \in Cells(c), NEW j \in Cells(c),
             OfCell(c, L, r, i, a), OfCell(c, L, r, j, b)
      PROVE  Apart(a, b)
  BY <1>4, CellsApart
<1> QED
  BY <1>2, <1>3, <1>4 DEF OfRing

\* No two parts of a segment overlap.
LEMMA PartsApart ==
  ASSUME NEW c, NEW L, config_valid(c), Fits(c, L),
         NEW a \in Parts(c, L), NEW b \in Parts(c, L), a # b
  PROVE  Apart(a, b)
<1> DEFINE InHeader(x) == x = HeaderPart
           InSlots(x)  == \E i \in Slots(c) : OfSlot(c, L, i, x)
           InRings(x)  == \E r \in Rings : OfRing(c, L, r, x)
<1>1. \A x \in Parts(c, L) : InHeader(x) \/ InSlots(x) \/ InRings(x)
  BY PartKinds DEF OfRing
<1>2. /\ L.slots_offset \in Nat /\ L.downstream_offset \in Nat
      /\ L.slots_offset <= L.downstream_offset /\ L.ring_stride \in Nat
      /\ \A r \in Rings : RingAt(L, r) \in Nat /\ L.downstream_offset <= RingAt(L, r)
  <2>1. c.slot_count * L.slot_stride \in Nat
    BY ValidFields DEF Fits
  <2> QED
    BY <2>1, RingBox DEF Fits
<1>3. ASSUME NEW x, NEW y, InHeader(x), InSlots(y)
      PROVE  Apart(x, y) /\ Apart(y, x)
  <2>1. Within(x, 0, L.slots_offset) /\ Within(y, L.slots_offset, L.downstream_offset)
    BY <1>3, Areas
  <2> QED
    BY <1>2, <2>1, WithinApart
<1>4. ASSUME NEW x, NEW y, InHeader(x) \/ InSlots(x), InRings(y)
      PROVE  Apart(x, y) /\ Apart(y, x)
  <2>1. PICK r \in Rings : OfRing(c, L, r, y)
    BY <1>4
  <2>2. Within(y, RingAt(L, r), RingAt(L, r) + L.ring_stride)
    BY <2>1, Areas
  <2>3. Within(x, 0, L.slots_offset) \/ Within(x, L.slots_offset, L.downstream_offset)
    BY <1>4, Areas
  <2>4. Within(x, 0, L.downstream_offset)
    BY <1>2, <2>3 DEF Within
  <2> QED
    BY <1>2, <2>2, <2>4, WithinApart
<1>5. CASE InSlots(a) /\ InSlots(b)
  BY <1>5, SlotsApart
<1>6. CASE InRings(a) /\ InRings(b)
  <2>1. PICK r \in Rings : OfRing(c, L, r, a)
    BY <1>6
  <2>2. PICK q \in Rings : OfRing(c, L, q, b)
    BY <1>6
  <2>3. CASE r = q
    BY <2>1, <2>2, <2>3, RingPartsApart
  <2>4. CASE r # q
    <3>1. /\ Within(a, RingAt(L, r), RingAt(L, r) + L.ring_stride)
          /\ Within(b, RingAt(L, q), RingAt(L, q) + L.ring_stride)
      BY <2>1, <2>2, Areas
    <3>2. \/ RingAt(L, r) + L.ring_stride <= RingAt(L, q)
          \/ RingAt(L, q) + L.ring_stride <= RingAt(L, r)
      BY <2>4, RingBox
    <3> QED
      BY <1>2, <3>1, <3>2, WithinApart
  <2> QED
    BY <2>3, <2>4
<1> QED
  BY <1>1, <1>3, <1>4, <1>5, <1>6

\* All parts lie within the computed size.
LEMMA PartsInside ==
  ASSUME NEW c, NEW L, config_valid(c), Fits(c, L), NEW a \in Parts(c, L)
  PROVE  a.to \in Nat /\ L.total_size \in Nat /\ a.to <= L.total_size
<1>1. \A r \in Rings : /\ RingAt(L, r) \in Nat /\ L.downstream_offset \in Nat
                       /\ L.total_size \in Nat /\ HeaderBytes <= L.downstream_offset
                       /\ L.downstream_offset <= RingAt(L, r)
                       /\ RingAt(L, r) + L.ring_stride <= L.total_size
  BY RingBox
<1>2. L.ring_stride \in Nat /\ HeaderBytes \in Nat
  BY LayoutAssumption DEF Fits
<1>3. "down" \in Rings
  BY DEF Rings
<1>4. L.downstream_offset <= L.total_size /\ L.downstream_offset \in Nat /\ L.total_size \in Nat
  BY <1>1, <1>2, <1>3
<1>5. CASE a = HeaderPart
  <2>1. a.to = HeaderBytes
    BY <1>5, LayoutAssumption DEF HeaderPart, Part
  <2> QED
    BY <1>1, <1>2, <1>3, <1>4, <2>1
<1>6. CASE \E i \in Slots(c) : OfSlot(c, L, i, a)
  <2>1. Within(a, L.slots_offset, L.downstream_offset)
    BY <1>6, Areas
  <2> QED
    BY <1>4, <2>1 DEF Within
<1>7. ASSUME NEW r \in Rings, OfRing(c, L, r, a)
      PROVE  a.to \in Nat /\ a.to <= L.total_size
  <2>1. Within(a, RingAt(L, r), RingAt(L, r) + L.ring_stride)
    BY <1>7, Areas
  <2> QED
    BY <1>1, <1>2, <2>1 DEF Within
<1> QED
  BY <1>4, <1>5, <1>6, <1>7, PartKinds DEF OfRing

\* The atomics are aligned.
LEMMA LinesAligned ==
  ASSUME NEW c, NEW L, config_valid(c), Fits(c, L), LinesFit(L), NEW x \in Lines(c, L)
  PROVE  x % kLine = 0
<1>1. ASSUME NEW i \in Slots(c) PROVE Aligned(SlotAt(L, i))
  <2>1. i \in Nat
    BY SlotBox
  <2> QED
    BY <2>1, AlignedTimes, AlignedSum DEF SlotAt, LinesFit
<1>2. ASSUME NEW r \in Rings PROVE Aligned(RingAt(L, r))
  <2>1. Aligned(L.downstream_offset)
    <3>1. Aligned(c.slot_count * L.slot_stride)
      BY ValidFields, AlignedTimes DEF LinesFit
    <3> QED
      BY <3>1, AlignedSum DEF Fits, LinesFit
  <2>2. Aligned(L.upstream_offset)
    BY <2>1, AlignedSum DEF Fits, LinesFit
  <2> QED
    BY <2>1, <2>2 DEF RingAt
<1>3. ASSUME NEW r \in Rings, NEW k \in Cells(c) PROVE Aligned(CmdAt(L, RingAt(L, r), k))
  <2>1. k \in Nat
    BY CellBox
  <2>2. Aligned(k * L.cmd_stride)
    BY <2>1, AlignedTimes DEF LinesFit
  <2>3. Aligned(RingAt(L, r) + L.ring_payload_off)
    BY <1>2, AlignedSum DEF LinesFit
  <2> QED
    BY <2>2, <2>3, AlignedSum DEF CmdAt
<1>4. Aligned(x)
  BY <1>1, <1>2, <1>3 DEF Lines
<1> QED
  BY <1>4, AlignedMod

-----------------------------------------------------------------------------
(* The inductive invariant                                                  *)

\* A segment that nobody tampered with has the header of a valid configuration
\* and exactly the size it computes.
OwnInv ==
  status = "ok" /\ ~foreign =>
    validate_header(hdr, size) /\ size = compute_layout(ConfigOf(hdr)).total_size

\* Whoever attached found a header that was valid, and nothing has changed it.
ViewInv ==
  /\ view.at = "attached" =>
       /\ status = "ok" /\ validate_header(hdr, size)
       /\ view.c = ConfigOf(hdr) /\ view.L = compute_layout(ConfigOf(hdr))
  /\ view.at = "refused" => foreign

\* The slot records what begin_write computed from the header.
FrameInv ==
  frame.at = "open" =>
    /\ status = "ok" /\ ~foreign
    /\ frame.width \in Nat \ {0} /\ frame.height \in Nat \ {0}
    /\ U64(frame.width * frame.height * hdr["bytes_per_pixel"]) <= MaxPayload(ConfigOf(hdr))
    /\ frame.stride = U32(frame.width * hdr["bytes_per_pixel"])
    /\ frame.payload_bytes = U32(U64(frame.width * frame.height * hdr["bytes_per_pixel"]))

LInv == TypeOK /\ OwnInv /\ ViewInv /\ FrameInv

\* The configuration survives being written into a header and read from it.
LEMMA HeaderRoundTrip ==
  ASSUME NEW c \in Config
  PROVE  /\ ConfigOf(Header(c)) = c
         /\ Header(c)["magic"] = 1 /\ Header(c)["version"] = 1
         /\ \A f \in Stored : Header(c)[f] = compute_layout(c)[f]
<1>1. c = [f \in Echoed |-> c[f]]
  BY DEF Config, Echoed
<1>2. ConfigOf(Header(c)) = [f \in Echoed |-> c[f]]
  BY DEF ConfigOf, Header, Fields, Echoed, Stored
<1>3. \A f \in Stored : Header(c)[f] = compute_layout(c)[f]
  BY DEF Header, Fields, Stored, Echoed
<1>4. Header(c)["magic"] = 1 /\ Header(c)["version"] = 1
  BY DEF Header, Fields, Stored, Echoed
<1> QED
  BY <1>1, <1>2, <1>3, <1>4

\* What create writes is what validate_header asks for.
LEMMA HeaderValidates ==
  ASSUME NEW c \in Config, config_valid(c)
  PROVE  /\ Header(c) \in [Fields -> Nat]
         /\ SegmentBytes(c) \in Nat
         /\ validate_header(Header(c), SegmentBytes(c))
         /\ SegmentBytes(c) = compute_layout(ConfigOf(Header(c))).total_size
<1> DEFINE L == compute_layout(c)
<1>1. Fits(c, L) /\ L.total_size \in Nat
  BY LayoutFacts
<1>2. SegmentBytes(c) = L.total_size
  BY DEF SegmentBytes
<1> HIDE DEF L
<1>3. "down" \in Rings /\ "up" \in Rings /\ RingAt(L, "down") = L.downstream_offset
      /\ RingAt(L, "up") = L.upstream_offset
  BY DEF Rings, RingAt
<1>4. /\ L.downstream_offset \in Nat /\ L.upstream_offset \in Nat
      /\ HeaderBytes <= L.downstream_offset /\ L.ring_stride \in Nat
      /\ L.upstream_offset = L.downstream_offset + L.ring_stride
      /\ L.total_size = L.upstream_offset + L.ring_stride
      /\ L.slots_offset \in Nat /\ L.slot_stride \in Nat /\ L.cmd_stride \in Nat
  BY <1>1, <1>3, RingBox DEF Fits
<1>5. HeaderBytes <= L.total_size
  BY <1>1, <1>4, LayoutAssumption
<1>6. \A f \in Stored : L[f] \in Nat
  BY <1>1, <1>4 DEF Stored
<1>7. \A f \in Echoed : c[f] \in Nat
  BY ValidFields DEF Echoed
<1>8. Header(c) \in [Fields -> Nat]
  BY <1>6, <1>7 DEF Header, L
<1>9. validate_header(Header(c), SegmentBytes(c))
  <2>1. SegmentBytes(c) \in Nat /\ SegmentBytes(c) >= HeaderBytes
        /\ SegmentBytes(c) >= compute_layout(c).total_size
    BY <1>1, <1>2, <1>5, LayoutAssumption DEF L
  <2> QED
    BY <2>1, HeaderRoundTrip DEF validate_header
<1> QED
  BY <1>1, <1>2, <1>8, <1>9, HeaderRoundTrip DEF L

LEMMA LayoutInductive ==
  ASSUME LInv, [Next]_vars
  PROVE  LInv'
<1> USE DEF LInv
<1>1. ASSUME NEW c \in Config, create(c) PROVE LInv'
  <2>1. CASE UNCHANGED <<hdr, size>> /\ status' = "invalid"
    BY <1>1, <2>1 DEF create, TypeOK, OwnInv, ViewInv, FrameInv
  <2>2. CASE /\ SegmentBytes(c) # 0 /\ ~(SegmentBytes(c) > kMaxSegment)
             /\ status' = "ok" /\ hdr' = Header(c) /\ size' = SegmentBytes(c)
    <3>1. config_valid(c)
      BY <2>2 DEF SegmentBytes
    <3>2. hdr' \in [Fields -> Nat] /\ size' \in Nat /\ validate_header(hdr', size')
          /\ size' = compute_layout(ConfigOf(hdr')).total_size
      BY <2>2, <3>1, HeaderValidates
    <3>3. size' \in 0..kMaxSegment
      BY <2>2, <3>2, LayoutAssumption
    <3>4. status # "ok" /\ UNCHANGED <<foreign, view, frame>>
      BY <1>1 DEF create
    <3>5. TypeOK'
      BY <2>2, <3>2, <3>3, <3>4 DEF TypeOK
    <3>6. OwnInv'
      BY <3>2 DEF OwnInv
    <3>7. ViewInv' /\ FrameInv'
      BY <3>4 DEF ViewInv, FrameInv
    <3> QED
      BY <3>5, <3>6, <3>7
  <2> QED
    BY <1>1, <2>1, <2>2 DEF create
<1>2. ASSUME NEW f \in Fields, NEW v \in Garbage, make_foreign(f, v) PROVE LInv'
  <2>1. v \in Nat
    BY LayoutAssumption
  <2>2. view' = None /\ frame' = None /\ foreign' = TRUE /\ status' = status
    BY <1>2 DEF make_foreign
  <2>3. hdr' \in [Fields -> Nat] /\ size' \in 0..kMaxSegment
    BY <1>2, <2>1, LayoutAssumption DEF make_foreign, TypeOK
  <2> QED
    BY <2>2, <2>3 DEF TypeOK, OwnInv, ViewInv, FrameInv, None
<1>3. ASSUME try_connect PROVE LInv'
  <2>1. status = "ok" /\ UNCHANGED <<status, hdr, size, foreign, frame>>
    BY <1>3 DEF try_connect
  <2>2. CASE validate_header(hdr, size)
    <3>1. /\ view'.at = "attached" /\ view'.c = ConfigOf(hdr)
          /\ view'.L = compute_layout(ConfigOf(hdr))
      BY <1>3, <2>2 DEF try_connect
    <3> QED
      BY <2>1, <2>2, <3>1 DEF TypeOK, OwnInv, ViewInv, FrameInv
  <2>3. CASE ~validate_header(hdr, size)
    <3>1. view'.at = "refused"
      BY <1>3, <2>3 DEF try_connect
    <3>2. foreign
      BY <2>1, <2>3 DEF OwnInv, TypeOK
    <3> QED
      BY <2>1, <3>1, <3>2 DEF TypeOK, OwnInv, ViewInv, FrameInv
  <2> QED
    BY <2>2, <2>3
<1>4. ASSUME NEW w \in Sizes, NEW h \in Sizes, begin_write(w, h) PROVE LInv'
  <2>1. w \in Nat \ {0} /\ h \in Nat \ {0} /\ status = "ok" /\ ~foreign
        /\ UNCHANGED <<status, hdr, size, foreign, view>>
    BY <1>4, LayoutAssumption DEF begin_write
  <2>2. /\ frame'.at = "open" /\ frame'.width = w /\ frame'.height = h
        /\ frame'.stride = U32(w * hdr["bytes_per_pixel"])
        /\ frame'.payload_bytes = U32(U64(w * h * hdr["bytes_per_pixel"]))
        /\ U64(w * h * hdr["bytes_per_pixel"]) <= MaxPayload(ConfigOf(hdr))
    BY <1>4 DEF begin_write
  <2>3. FrameInv'
    BY <2>1, <2>2 DEF FrameInv
  <2>4. TypeOK' /\ OwnInv' /\ ViewInv'
    BY <2>1, <2>2 DEF TypeOK, OwnInv, ViewInv
  <2> QED
    BY <2>3, <2>4
<1>5. CASE UNCHANGED vars
  BY <1>5 DEF vars, TypeOK, OwnInv, ViewInv, FrameInv
<1> QED
  BY <1>1, <1>2, <1>3, <1>4, <1>5 DEF Next

LEMMA LayoutInvariant == Spec => []LInv
<1>1. Init => LInv
  <2> SUFFICES ASSUME Init PROVE LInv
    OBVIOUS
  <2>1. /\ status = "none" /\ foreign = FALSE /\ view.at = "none" /\ frame.at = "none"
        /\ hdr \in [Fields -> Nat] /\ size = 0
    BY DEF Init, None
  <2>2. 0 \in 0..kMaxSegment
    BY LayoutAssumption
  <2> QED
    BY <2>1, <2>2 DEF LInv, TypeOK, OwnInv, ViewInv, FrameInv
<1>2. LInv /\ [Next]_vars => LInv'
  BY LayoutInductive
<1> QED
  BY <1>1, <1>2, PTL DEF Spec

-----------------------------------------------------------------------------
(* Theorems                                                                 *)

\* Types: what create admits has fields that are numbers and a size within the
\* limit of a segment.
THEOREM LayoutTypes == Spec => []TypeOK
<1>1. LInv => TypeOK
  BY DEF LInv
<1> QED
  BY <1>1, LayoutInvariant, PTL

\* Whatever header validate_header accepts, its own or a foreign one, the parts
\* that the subscriber goes on to address are inside the mapping, disjoint, and
\* aligned where they hold atomics.
THEOREM AdoptedSegmentIsSafe == Spec => []AdoptedIsSafe
<1>1. ASSUME LInv PROVE AdoptedIsSafe
  <2> SUFFICES ASSUME view.at = "attached"
               PROVE  /\ \A a \in Parts(view.c, view.L) : a.to <= size
                      /\ \A a, b \in Parts(view.c, view.L) : a # b => Apart(a, b)
                      /\ \A a \in Lines(view.c, view.L) : a % kLine = 0
    BY DEF AdoptedIsSafe
  <2> DEFINE c == view.c
             L == view.L
  <2>1. config_valid(c) /\ L = compute_layout(c) /\ size >= L.total_size /\ size \in Nat
    BY <1>1 DEF LInv, ViewInv, TypeOK, validate_header
  <2> HIDE DEF c, L
  <2>2. Fits(c, L) /\ LinesFit(L)
    BY <2>1, LayoutFacts
  <2>3. \A a \in Parts(c, L) : a.to <= size
    BY <2>1, <2>2, PartsInside
  <2>4. \A a, b \in Parts(c, L) : a # b => Apart(a, b)
    BY <2>1, <2>2, PartsApart
  <2>5. \A a \in Lines(c, L) : a % kLine = 0
    BY <2>1, <2>2, LinesAligned
  <2> QED
    BY <2>3, <2>4, <2>5 DEF c, L
<1> QED
  BY <1>1, LayoutInvariant, PTL

\* A segment as create left it is never refused: deriving the layout from the
\* header's configuration gives the stored offsets, and the mapping is as long
\* as they say.
THEOREM OwnSegmentIsAccepted == Spec => []OwnSegmentAccepted
<1>1. LInv => OwnSegmentAccepted
  BY DEF LInv, ViewInv, OwnSegmentAccepted
<1> QED
  BY <1>1, LayoutInvariant, PTL

\* Whatever geometry begin_write admits fits the payload of a slot, and the
\* 32-bit fields of the slot are not truncated, unless the frame's size in bytes
\* overflows 64 bits.
THEOREM AcceptedFrameFits == Spec => []AcceptedFits
<1>1. ASSUME LInv PROVE AcceptedFits
  <2> DEFINE w == frame.width
             h == frame.height
             bpp == hdr["bytes_per_pixel"]
             c == ConfigOf(hdr)
             room == hdr["max_width"] * hdr["max_height"] * bpp
             bytes == w * h * bpp
             line == w * bpp
  <2> SUFFICES ASSUME frame.at = "open", U64(bytes) = bytes
               PROVE  bytes <= room /\ frame.payload_bytes = bytes /\ frame.stride * h = bytes
    BY DEF AcceptedFits
  <2>1. /\ w \in Nat \ {0} /\ h \in Nat \ {0}
        /\ U64(bytes) <= MaxPayload(c)
        /\ frame.stride = U32(line) /\ frame.payload_bytes = U32(U64(bytes))
    BY <1>1 DEF LInv, FrameInv
  <2>2. /\ config_valid(c) /\ size = compute_layout(c).total_size
        /\ size \in 0..kMaxSegment
    BY <1>1 DEF LInv, FrameInv, OwnInv, TypeOK, validate_header
  <2>3. c.max_width = hdr["max_width"] /\ c.max_height = hdr["max_height"]
        /\ c.bytes_per_pixel = bpp
    BY DEF ConfigOf, Echoed
  <2>4. MaxPayload(c) = room /\ Fits(c, compute_layout(c))
    BY <2>2, <2>3, LayoutFacts
  <2>5. bpp \in Nat \ {0} /\ room \in Nat
    BY <2>2, <2>3, ValidFields, PayloadLimit
  <2>6. room <= size
    <3> DEFINE L == compute_layout(c)
               n == c.slot_count * L.slot_stride
    <3>1. 1 \in Nat /\ c.slot_count \in Nat /\ 1 <= c.slot_count
      BY <2>2, ValidFields
    <3>2. L.slot_stride \in Nat
      BY <2>4 DEF Fits
    <3>3. 1 * L.slot_stride <= n /\ n \in Nat
      BY <3>1, <3>2, MulGrows
    <3>4. L.slot_stride >= L.slot_payload_off + room
      BY <2>3, <2>4 DEF Fits
    <3> HIDE DEF n, room, c, bpp
    <3>5. /\ L.downstream_offset = L.slots_offset + n /\ L.slots_offset \in Nat
          /\ L.upstream_offset = L.downstream_offset + L.ring_stride /\ L.ring_stride \in Nat
          /\ L.total_size = L.upstream_offset + L.ring_stride /\ L.slot_payload_off \in Nat
      BY <2>4 DEF Fits, n
    <3>6. size = L.total_size
      BY <2>2
    <3> HIDE DEF L
    <3> QED
      BY <2>5, <3>2, <3>3, <3>4, <3>5, <3>6
  <2>7. bytes \in Nat /\ line \in Nat /\ line <= bytes /\ line * h = bytes
    <3>1. line \in Nat
      BY <2>1, <2>5
    <3>2. line * h = bytes
      BY <2>1, <2>5
    <3> HIDE DEF line, bytes
    <3>3. 1 \in Nat /\ 1 <= h /\ line <= line /\ h \in Nat
      BY <2>1, <3>1
    <3>4. line * 1 <= line * h /\ line * h \in Nat
      BY <3>1, <3>3, MulGrows
    <3> QED
      BY <3>1, <3>2, <3>4
  <2> HIDE DEF bytes, line, room, bpp, c
  <2>8. bytes <= room
    BY <2>1, <2>4
  <2>9. bytes < Word32 /\ line < Word32 /\ Word32 \in Nat \ {0}
    BY <2>2, <2>5, <2>6, <2>7, <2>8, LayoutAssumption, PowerAssumption
  <2>10. U32(bytes) = bytes /\ U32(line) = line
    BY <2>7, <2>9, Unwrapped DEF U32
  <2> QED
    BY <2>1, <2>7, <2>8, <2>10
<1> QED
  BY <1>1, LayoutInvariant, PTL
=============================================================================
