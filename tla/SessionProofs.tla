---------------------------- MODULE SessionProofs ----------------------------
(***************************************************************************)
(* Proofs about Session, for any number of publishers, subscribers and     *)
(* segments and any windows.  What a subscriber knows about a session      *)
(* (HeaderComplete, ShutdownIsTrue) holds whatever the timing; it rests on *)
(* headers that only ever gain (SegGrows).  That a live publisher keeps    *)
(* its name (LiveNameKept, which leaves out an age that wrapped) needs      *)
(* publishers that take turns and a window longer than a publisher's       *)
(* silence and a judgement together (Prompt).                              *)
(***************************************************************************)
EXTENDS Session, TLAPS

SegRec == [sized : BOOLEAN, magic : BOOLEAN, session_id : Segs,
           heartbeat : Ages, latest : 0..MaxFrames, shutdown : BOOLEAN]
PubRec == [pc : {"out", "live", "unlinking", "truncate", "init", "magic",
                 "open", "validate", "age", "unlink", "recreate"},
           seg : Segs, first : Operands, t : Ages, busy : 0..MaxStall]
SubRec == [pc : {"none", "idle", "map", "validate", "beat", "again",
                 "latest", "shutdown"},
           caller : {"open", "poll"}, seg : Segs, session : Segs,
           last_frame : 0..MaxFrames, peer_shutdown : BOOLEAN,
           last_progress : 0..SubStale, last_attempt : 0..RetryOld, last_read : 0..MinRead,
           now : 0..MaxStall, candidate : Segs, first : Operands, t : Ages]

\* The header of segment i names its session before it is valid.
SegInv == \A i \in 1..MaxSegs : seg[i].magic => seg[i].session_id = i

\* A publisher that has a segment mapped, and one that has filled in its header
Mapped(me)  == me.pc \in {"truncate", "init", "magic", "live", "unlinking", "validate", "age"}
Filled(me)  == me.pc \in {"magic", "live", "unlinking"}
PubInv ==
  \A p \in Pubs : /\ Mapped(pub[p]) => pub[p].seg # 0
                  /\ Filled(pub[p]) => seg[pub[p].seg].session_id = pub[p].seg

\* What a subscriber knows, wherever it is in its call
Informed(me) ==
  /\ me \in SubRec
  /\ me.seg # 0 => me.session = me.seg /\ seg[me.seg].magic
  /\ me.peer_shutdown => me.seg # 0 /\ seg[me.seg].shutdown

\* Where it may be in its call
Placed(me) ==
  /\ me.pc \in {"beat", "again", "latest", "shutdown"} => me.seg # 0
  /\ me.pc = "validate" => me.candidate # 0

SubInv == \A s \in Subs : Informed(sub[s]) /\ Placed(sub[s])

SInv == TypeOK /\ SegInv /\ PubInv /\ SubInv

-----------------------------------------------------------------------------
(* Constants and ages                                                       *)

LEMMA ConstantTypes ==
  /\ ProducerStale \in Nat \ {0} /\ SubStale \in Nat \ {0} /\ Retry \in Nat \ {0}
  /\ MaxQuiet \in Nat \ {0} /\ MaxStall \in Nat /\ MinRead \in Nat
  /\ MaxSegs \in Nat /\ MaxFrames \in Nat
  /\ Old \in Nat /\ RetryOld \in Nat /\ MaxStall <= RetryOld
  /\ ProducerStale + MaxStall <= Old /\ SubStale + MaxStall <= Old
BY SessionAssumption DEF Old, RetryOld

LEMMA AtMostType ==
  ASSUME NEW age \in Nat, NEW old \in Nat
  PROVE  AtMost(age, old) \in 0..old /\ Older(age, old) \in 0..old
BY DEF AtMost, Older

LEMMA TypeParts ==
  TypeOK <=> /\ name \in Segs /\ made \in Segs
             /\ seg \in [1..MaxSegs -> SegRec]
             /\ pub \in [Pubs -> PubRec] /\ sub \in [Subs -> SubRec]
             /\ wrapped \in BOOLEAN
BY DEF TypeOK, SegRec, PubRec, SubRec

LEMMA OperandType ==
  ASSUME TypeOK, NEW i \in Segs, i # 0, NEW first \in Operands
  PROVE  Operand(first, i) \in Ages
<1>1. i \in 1..MaxSegs
  BY ConstantTypes DEF Segs
<1>2. seg[i] \in SegRec
  BY <1>1, TypeParts
<1> QED
  BY <1>2, ConstantTypes DEF Operand, SegRec, Ages

-----------------------------------------------------------------------------
(* The steps of a subscriber                                                *)

LEMMA GateGood ==
  ASSUME NEW me, Informed(me)
  PROVE  Informed(Gate(me)) /\ Placed(Gate(me))
<1>1. me.now \in 0..RetryOld /\ 0 \in 0..MaxStall /\ 0 \in Ages /\ "hb" \in Operands
  BY ConstantTypes DEF Informed, SubRec, Ages, Operands
<1> DEFINE a == Return(me)
           b == [me EXCEPT !.pc = "map", !.last_attempt = me.now, !.first = "hb", !.t = 0]
<1>2. a \in SubRec /\ a.seg = me.seg /\ a.session = me.session
      /\ a.peer_shutdown = me.peer_shutdown /\ a.pc = "idle"
  BY <1>1 DEF Informed, SubRec, Return
<1>3. b \in SubRec /\ b.seg = me.seg /\ b.session = me.session
      /\ b.peer_shutdown = me.peer_shutdown /\ b.pc = "map"
  BY <1>1 DEF Informed, SubRec
<1>4. Gate(me) = a \/ Gate(me) = b
  BY DEF Gate
<1> HIDE DEF a, b
<1>5. Informed(a) /\ Placed(a)
  BY <1>2 DEF Informed, Placed
<1>6. Informed(b) /\ Placed(b)
  BY <1>3 DEF Informed, Placed
<1> QED
  BY <1>4, <1>5, <1>6

LEMMA ReadGateGood ==
  ASSUME NEW me, Informed(me), me.seg # 0
  PROVE  Informed(ReadGate(me)) /\ Placed(ReadGate(me))
<1>1. 0 \in 0..MinRead /\ 0 \in 0..MaxStall /\ 0 \in Ages /\ "hb" \in Operands
  BY ConstantTypes DEF Ages, Operands
<1> DEFINE a == Return(me)
           b == [me EXCEPT !.pc = "latest", !.first = "hb", !.t = 0, !.last_read = 0]
<1>2. a \in SubRec /\ a.seg = me.seg /\ a.session = me.session
      /\ a.peer_shutdown = me.peer_shutdown /\ a.pc = "idle"
  BY <1>1 DEF Informed, SubRec, Return
<1>3. b \in SubRec /\ b.seg = me.seg /\ b.session = me.session
      /\ b.peer_shutdown = me.peer_shutdown /\ b.pc = "latest"
  BY <1>1 DEF Informed, SubRec
<1>4. ReadGate(me) = a \/ ReadGate(me) = b
  BY DEF ReadGate
<1> HIDE DEF a, b
<1>5. Informed(a) /\ Placed(a)
  BY <1>2 DEF Informed, Placed
<1>6. Informed(b) /\ Placed(b)
  BY <1>3 DEF Informed, Placed
<1> QED
  BY <1>4, <1>5, <1>6

LEMMA AskGood ==
  ASSUME TypeOK, NEW me, Informed(me), me.seg # 0, NEW pc \in {"beat", "again"},
         NEW first \in Operands
  PROVE  Informed(Ask(me, pc, first)) /\ Placed(Ask(me, pc, first))
<1>1. Operand(first, me.seg) \in Ages
  BY OperandType DEF Informed, SubRec
<1> DEFINE a == Ask(me, pc, first)
<1>2. a \in SubRec /\ a.seg = me.seg /\ a.session = me.session
      /\ a.peer_shutdown = me.peer_shutdown /\ a.pc = pc
  BY <1>1 DEF Informed, SubRec, Ask
<1> HIDE DEF a
<1>3. Informed(a) /\ Placed(a)
  BY <1>2 DEF Informed, Placed
<1> QED
  BY <1>3 DEF a

LEMMA ConnectedGood ==
  ASSUME TypeOK, NEW me, Informed(me), NEW first \in Operands
  PROVE  Informed(Connected(me, first)) /\ Placed(Connected(me, first))
<1> DEFINE back == [me EXCEPT !.pc = "idle", !.last_progress = AtMost(me.now, SubStale),
                              !.now = 0, !.candidate = 0]
<1>1. AtMost(me.now, SubStale) \in 0..SubStale
  BY AtMostType, ConstantTypes DEF Informed, SubRec
<1>2. 0 \in Segs /\ 0 \in 0..MaxStall
  BY ConstantTypes DEF Segs
<1>3. back \in SubRec /\ back.seg = me.seg /\ back.session = me.session
      /\ back.peer_shutdown = me.peer_shutdown /\ back.pc = "idle"
  BY <1>1, <1>2 DEF Informed, SubRec
<1>4. Connected(me, first) =
        IF me.caller = "poll" /\ me.seg # 0 THEN Ask(back, "again", first) ELSE back
  BY DEF Connected
<1> HIDE DEF back
<1>5. Informed(back) /\ Placed(back)
  BY <1>3 DEF Informed, Placed
<1>6. CASE me.caller = "poll" /\ me.seg # 0
  BY <1>3, <1>4, <1>5, <1>6, AskGood
<1>7. CASE ~(me.caller = "poll" /\ me.seg # 0)
  BY <1>4, <1>5, <1>7
<1> QED
  BY <1>6, <1>7

\* A step that replaces one subscriber by one that is informed and placed
LEMMA SubStep ==
  ASSUME SInv, NEW s \in Subs, NEW me, Informed(me), Placed(me),
         SetSub(s, me), UNCHANGED <<name, made, seg, pub, wrapped>>
  PROVE  SInv'
<1>1. sub \in [Subs -> SubRec] /\ me \in SubRec
  BY TypeParts DEF SInv, Informed
<1>2. sub' \in [Subs -> SubRec] /\ sub'[s] = me /\ \A q \in Subs : q # s => sub'[q] = sub[q]
  BY <1>1 DEF SetSub
<1>3. TypeOK'
  BY <1>2, TypeParts DEF SInv, TypeOK, SegRec, PubRec, SubRec
<1>4. SegInv' /\ PubInv'
  BY DEF SInv, SegInv, PubInv
<1>5. SubInv'
  <2>1. \A q \in Subs : Informed(sub'[q]) /\ Placed(sub'[q])
    BY <1>2 DEF SInv, SubInv
  <2> QED
    BY <2>1 DEF SubInv, Informed
<1> QED
  BY <1>3, <1>4, <1>5 DEF SInv

\* Every step of a subscriber keeps the invariant.
LEMMA ReadsStep ==
  ASSUME SInv, NEW s \in Subs, Reads(s)
  PROVE  SInv'
<1> DEFINE me == sub[s]
<1>0. TypeOK /\ Informed(me) /\ Placed(me) /\ me \in SubRec
      /\ seg \in [1..MaxSegs -> SegRec] /\ name \in Segs
  BY TypeParts DEF SInv, SubInv, Informed
<1>00. \A i \in Segs : i # 0 => i \in 1..MaxSegs
  BY ConstantTypes DEF Segs
<1>z. 0 \in 0..MaxStall /\ 0 \in 0..SubStale /\ 0 \in 0..MaxFrames /\ 0 \in Ages
      /\ "hb" \in Operands
  BY ConstantTypes DEF Ages, Operands
<1>m. me \in SubRec /\ name \in Segs
  BY <1>0
<1> HIDE DEF me
<1>1. ASSUME open(s) PROVE SInv'
  <2> DEFINE you == [NoSub EXCEPT !.pc = "map"]
  <2>1. NoSub \in SubRec /\ NoSub.seg = 0 /\ NoSub.peer_shutdown = FALSE
    BY ConstantTypes DEF NoSub, SubRec, Segs, Ages, Operands
  <2>2. you \in SubRec /\ you.seg = 0 /\ you.peer_shutdown = FALSE /\ you.pc = "map"
    BY <2>1 DEF SubRec
  <2>3. SetSub(s, you) /\ UNCHANGED <<name, made, seg, pub, wrapped>>
    BY <1>1 DEF open
  <2> HIDE DEF you
  <2>4. Informed(you) /\ Placed(you)
    BY <2>2 DEF Informed, Placed
  <2> QED
    BY <2>3, <2>4, SubStep
<1>2. ASSUME poll(s) PROVE SInv'
  <2> DEFINE you == [me EXCEPT !.caller = "poll", !.now = 0]
             New(first) == IF you.seg = 0 THEN Gate(you)
                           ELSE IF you.last_progress < SubStale THEN ReadGate(you)
                           ELSE Ask(you, "beat", first)
  <2>1. you \in SubRec /\ you.seg = me.seg /\ you.session = me.session
        /\ you.peer_shutdown = me.peer_shutdown
    BY <1>m, <1>z DEF SubRec
  <2>2. PICK first \in Operands : SetSub(s, New(first)) /\ UNCHANGED <<name, made, seg, pub, wrapped>>
    BY <1>2 DEF poll, me
  <2> HIDE DEF you
  <2>3. Informed(you)
    BY <1>0, <2>1 DEF Informed
  <2>4. Informed(New(first)) /\ Placed(New(first))
    BY <1>0, <2>3, GateGood, ReadGateGood, AskGood
  <2> HIDE DEF New
  <2> QED
    BY <2>2, <2>4, SubStep
<1>3. ASSUME judge_producer(s) PROVE SInv'
  <2> DEFINE idle == Return(me)
             new == IF AgeFrom(me) < SubStale THEN ReadGate(me)
                    ELSE IF me.pc = "beat" THEN Gate(me) ELSE idle
  <2>1. SetSub(s, new) /\ UNCHANGED <<name, made, seg, pub, wrapped>> /\ me.seg # 0
    BY <1>0, <1>3 DEF judge_producer, me, Placed
  <2>2. idle \in SubRec /\ idle.seg = me.seg /\ idle.session = me.session
        /\ idle.peer_shutdown = me.peer_shutdown /\ idle.pc = "idle"
    BY <1>m, <1>z DEF SubRec, Return
  <2> HIDE DEF idle
  <2>3. Informed(idle) /\ Placed(idle)
    BY <1>0, <2>2 DEF Informed, Placed
  <2>4. Informed(new) /\ Placed(new)
    BY <1>0, <2>1, <2>3, GateGood, ReadGateGood
  <2> HIDE DEF new
  <2> QED
    BY <2>1, <2>4, SubStep
<1>4. ASSUME map(s) PROVE SInv'
  <2>1. CASE name # 0 /\ seg[name].sized
    <3> DEFINE you == [me EXCEPT !.pc = "validate", !.candidate = name]
    <3>1. SetSub(s, you) /\ UNCHANGED <<name, made, seg, pub, wrapped>>
      BY <1>4, <2>1 DEF map, me
    <3>2. you \in SubRec /\ you.seg = me.seg /\ you.session = me.session /\ you.pc = "validate"
          /\ you.peer_shutdown = me.peer_shutdown /\ you.candidate # 0
      BY <1>m, <2>1 DEF SubRec
    <3> HIDE DEF you
    <3>3. Informed(you) /\ Placed(you)
      BY <1>0, <3>2 DEF Informed, Placed
    <3> QED
      BY <3>1, <3>3, SubStep
  <2>2. CASE ~(name # 0 /\ seg[name].sized)
    <3>1. PICK first \in Operands : SetSub(s, Connected(me, first)) /\ UNCHANGED <<name, made, seg, pub, wrapped>>
      BY <1>4, <2>2 DEF map, me
    <3>2. Informed(Connected(me, first)) /\ Placed(Connected(me, first))
      BY <1>0, ConnectedGood
    <3> QED
      BY <3>1, <3>2, SubStep
  <2> QED
    BY <2>1, <2>2
<1>5. ASSUME validate(s) PROVE SInv'
  <2> DEFINE h == seg[me.candidate]
             known == ~h.magic \/ (me.seg # 0 /\ h.session_id = me.session)
             you == IF known THEN me ELSE Adopt(me, me.candidate)
  <2>0. PICK first \in Operands :
          SetSub(s, Connected(you, first)) /\ UNCHANGED <<name, made, seg, pub, wrapped>>
    BY <1>5 DEF validate, me
  <2>1. me.candidate # 0 /\ me.candidate \in Segs
    BY <1>0, <1>5 DEF validate, me, Placed, SubRec
  <2>2. Informed(you)
    <3>1. CASE known
      BY <1>0, <3>1
    <3>2. CASE ~known
      <4> DEFINE new == Adopt(me, me.candidate)
      <4>1. me.candidate \in 1..MaxSegs
        BY <1>00, <2>1
      <4>2. h.magic /\ h.session_id = me.candidate
        BY <3>2, <4>1 DEF SInv, SegInv
      <4>3. new \in SubRec /\ new.seg = me.candidate /\ new.session = me.candidate
            /\ new.peer_shutdown = FALSE
        BY <1>m, <1>z, <2>1, <4>2 DEF Adopt, SubRec
      <4> HIDE DEF new
      <4>4. Informed(new)
        BY <2>1, <4>2, <4>3 DEF Informed
      <4> QED
        BY <3>2, <4>4 DEF new
    <3> QED
      BY <3>1, <3>2
  <2> HIDE DEF you
  <2>3. Informed(Connected(you, first)) /\ Placed(Connected(you, first))
    BY <1>0, <2>2, ConnectedGood
  <2> QED
    BY <2>0, <2>3, SubStep
<1>6. ASSUME read_frame(s) PROVE SInv'
  <2> DEFINE you == [me EXCEPT !.pc = "idle", !.now = 0, !.last_progress = 0,
                               !.last_frame = seg[me.seg].latest]
  <2>1. SetSub(s, you) /\ UNCHANGED <<name, made, seg, pub, wrapped>> /\ me.seg # 0
    BY <1>0, <1>6 DEF read_frame, me, Placed
  <2>2. seg[me.seg].latest \in 0..MaxFrames
    BY <1>0, <1>00, <2>1 DEF SubRec, SegRec
  <2>3. you \in SubRec /\ you.seg = me.seg /\ you.session = me.session /\ you.pc = "idle"
        /\ you.peer_shutdown = me.peer_shutdown
    BY <1>m, <1>z, <2>2 DEF SubRec
  <2> HIDE DEF you
  <2>4. Informed(you) /\ Placed(you)
    BY <1>0, <2>3 DEF Informed, Placed
  <2> QED
    BY <2>1, <2>4, SubStep
<1>7. ASSUME no_frame(s) PROVE SInv'
  <2> DEFINE you == [me EXCEPT !.pc = "shutdown"]
  <2>1. SetSub(s, you) /\ UNCHANGED <<name, made, seg, pub, wrapped>> /\ me.seg # 0
    BY <1>0, <1>7 DEF no_frame, me, Placed
  <2>2. you \in SubRec /\ you.seg = me.seg /\ you.session = me.session /\ you.pc = "shutdown"
        /\ you.peer_shutdown = me.peer_shutdown
    BY <1>m DEF SubRec
  <2> HIDE DEF you
  <2>3. Informed(you) /\ Placed(you)
    BY <1>0, <2>1, <2>2 DEF Informed, Placed
  <2> QED
    BY <2>1, <2>3, SubStep
<1>8. ASSUME load_shutdown(s) PROVE SInv'
  <2> DEFINE gone == me.peer_shutdown \/ seg[me.seg].shutdown
             you == [me EXCEPT !.pc = "idle", !.now = 0, !.peer_shutdown = gone]
  <2>1. SetSub(s, you) /\ UNCHANGED <<name, made, seg, pub, wrapped>> /\ me.seg # 0
    BY <1>0, <1>8 DEF load_shutdown, me, Placed
  <2>2. gone \in BOOLEAN
    BY <1>0, <1>00, <2>1 DEF SubRec, SegRec
  <2>3. you \in SubRec /\ you.seg = me.seg /\ you.session = me.session /\ you.pc = "idle"
        /\ you.peer_shutdown = gone
    BY <1>m, <1>z, <2>2 DEF SubRec
  <2>4. gone => seg[me.seg].shutdown
    BY <1>0 DEF Informed
  <2> HIDE DEF you, gone
  <2>5. Informed(you) /\ Placed(you)
    BY <1>0, <2>1, <2>3, <2>4 DEF Informed, Placed
  <2> QED
    BY <2>1, <2>5, SubStep
<1> QED
  BY <1>1, <1>2, <1>3, <1>4, <1>5, <1>6, <1>7, <1>8 DEF Reads

-----------------------------------------------------------------------------
(* The steps of a publisher                                                 *)

\* A header only gains: once valid it stays valid, and once marked it stays marked.
SegGrows ==
  /\ seg' \in [1..MaxSegs -> SegRec] /\ SegInv'
  /\ \A i \in 1..MaxSegs : /\ seg[i].magic => seg'[i].magic
                           /\ seg[i].shutdown => seg'[i].shutdown
                           /\ seg[i].session_id = i => seg'[i].session_id = i

LEMMA SegUnchanged ==
  ASSUME SInv, seg' = seg
  PROVE  SegGrows
BY TypeParts DEF SInv, SegGrows, SegInv

\* A step that replaces one publisher, over headers that gain
LEMMA PubStep ==
  ASSUME SInv, SegGrows, NEW p \in Pubs, NEW me \in PubRec, SetPub(p, me), sub' = sub,
         name' \in Segs, made' \in Segs, wrapped' \in BOOLEAN,
         Mapped(me) => me.seg # 0,
         Filled(me) => seg'[me.seg].session_id = me.seg
  PROVE  SInv'
<1>1. /\ seg \in [1..MaxSegs -> SegRec] /\ pub \in [Pubs -> PubRec]
      /\ sub \in [Subs -> SubRec]
  BY TypeParts DEF SInv
<1>2. pub' \in [Pubs -> PubRec] /\ pub'[p] = me /\ \A q \in Pubs : q # p => pub'[q] = pub[q]
  BY <1>1 DEF SetPub
<1>3. TypeOK'
  BY <1>1, <1>2, TypeParts DEF SegGrows, TypeOK, SegRec, PubRec, SubRec
<1>4. \A i \in Segs : i # 0 => i \in 1..MaxSegs
  BY ConstantTypes DEF Segs
<1>5. PubInv'
  <2> SUFFICES ASSUME NEW q \in Pubs
               PROVE  /\ Mapped(pub'[q]) => pub'[q].seg # 0
                      /\ Filled(pub'[q]) => seg'[pub'[q].seg].session_id = pub'[q].seg
    BY DEF PubInv, Mapped, Filled
  <2>1. CASE q = p
    BY <1>2, <2>1
  <2>2. CASE q # p
    <3>1. /\ Mapped(pub[q]) => pub[q].seg # 0
          /\ Filled(pub[q]) => seg[pub[q].seg].session_id = pub[q].seg
      BY DEF SInv, PubInv
    <3>2. Filled(pub[q]) => Mapped(pub[q])
      BY DEF Filled, Mapped
    <3>3. pub[q].seg \in Segs
      BY <1>1 DEF PubRec
    <3> QED
      BY <1>2, <1>4, <2>2, <3>1, <3>2, <3>3 DEF SegGrows
  <2> QED
    BY <2>1, <2>2
<1>6. SubInv'
  <2> SUFFICES ASSUME NEW s \in Subs
               PROVE  /\ sub[s] \in SubRec
                      /\ sub[s].seg # 0 => sub[s].session = sub[s].seg /\ seg'[sub[s].seg].magic
                      /\ sub[s].peer_shutdown => sub[s].seg # 0 /\ seg'[sub[s].seg].shutdown
                      /\ Placed(sub[s])
    BY DEF SubInv, Informed, Placed
  <2>1. Informed(sub[s]) /\ Placed(sub[s]) /\ sub[s].seg \in Segs
    BY <1>1 DEF SInv, SubInv, SubRec
  <2> QED
    BY <1>1, <1>4, <2>1 DEF SegGrows, Informed
<1> QED
  BY <1>3, <1>5, <1>6 DEF SInv, SegGrows

\* Steps of a publisher that leave the segments alone
LEMMA PubQuiet ==
  ASSUME SInv, NEW p \in Pubs,
         \/ create(p) \/ truncate_fails(p) \/ open_existing(p) \/ validate_existing(p)
         \/ judge_age(p) \/ unlink(p) \/ recreate(p) \/ destroy_unlink(p) \/ crash(p)
  PROVE  SInv'
<1> DEFINE me == pub[p]
<1>1. /\ me \in PubRec /\ name \in Segs /\ made \in Segs /\ TypeOK
      /\ Mapped(me) => me.seg # 0
  BY TypeParts DEF SInv, PubInv
<1>2. 0 \in Segs /\ 0 \in Ages /\ 0 \in 0..MaxStall /\ "hb" \in Operands
  BY ConstantTypes DEF Segs, Ages, Operands
<1>3. seg' = seg /\ sub' = sub
  BY DEF create, truncate_fails, open_existing, validate_existing, judge_age, unlink,
         recreate, destroy_unlink, crash
<1>w. wrapped' \in BOOLEAN
  BY TypeParts DEF SInv, create, truncate_fails, open_existing, validate_existing, judge_age,
         unlink, recreate, destroy_unlink, crash
<1>4. SegGrows
  BY <1>3, SegUnchanged
<1>5. NoPub \in PubRec /\ ~Mapped(NoPub) /\ ~Filled(NoPub)
  BY <1>2 DEF NoPub, PubRec, Mapped, Filled
<1>6. ASSUME NewSegment(p) PROVE SInv'
  <2> DEFINE you == [NoPub EXCEPT !.pc = "truncate", !.seg = made + 1]
  <2>1. SetPub(p, you) /\ made' = made + 1 /\ name' = made + 1 /\ made < MaxSegs
    BY <1>6 DEF NewSegment
  <2>2. made + 1 \in Segs /\ made + 1 # 0
    BY <1>1, <2>1, ConstantTypes DEF Segs
  <2>3. you \in PubRec /\ you.pc = "truncate" /\ you.seg # 0
    BY <1>5, <2>2 DEF PubRec, NoPub
  <2> HIDE DEF you
  <2>4. ~Filled(you)
    BY <2>3 DEF Filled
  <2> QED
    BY <1>3, <1>4, <1>w, <2>1, <2>2, <2>3, <2>4, PubStep
<1>7. ASSUME SetPub(p, NoPub), name' \in Segs, made' = made PROVE SInv'
  BY <1>1, <1>3, <1>4, <1>w, <1>5, <1>7, PubStep
<1>8. ASSUME NEW pc \in {"out", "open", "unlink", "recreate"}, NEW you \in {me, NoPub},
             SetPub(p, [you EXCEPT !.pc = pc]), name' \in Segs, made' = made
      PROVE  SInv'
  <2> DEFINE new == [you EXCEPT !.pc = pc]
  <2>1. you \in PubRec
    BY <1>1, <1>5
  <2>2. new \in PubRec /\ new.pc = pc
    BY <2>1 DEF PubRec
  <2>3. SetPub(p, new)
    BY <1>8
  <2> HIDE DEF new
  <2>4. ~Mapped(new) /\ ~Filled(new)
    BY <2>2 DEF Mapped, Filled
  <2> QED
    BY <1>1, <1>3, <1>4, <1>w, <1>8, <2>2, <2>3, <2>4, PubStep
<1>9. CASE create(p)
  BY <1>1, <1>6, <1>8, <1>9 DEF create
<1>10. CASE truncate_fails(p)
  BY <1>1, <1>7, <1>10 DEF truncate_fails
<1>11. CASE open_existing(p)
  <2>1. CASE name # 0 /\ seg[name].sized
    <3> DEFINE you == [me EXCEPT !.pc = "validate", !.seg = name]
    <3>1. SetPub(p, you) /\ name' = name /\ made' = made
      BY <1>11, <2>1 DEF open_existing
    <3> HIDE DEF me
    <3>2. you \in PubRec /\ you.pc = "validate" /\ you.seg # 0
      BY <1>1, <2>1 DEF PubRec
    <3> HIDE DEF you
    <3>3. ~Filled(you)
      BY <3>2 DEF Filled
    <3> QED
      BY <1>1, <1>3, <1>4, <1>w, <3>1, <3>2, <3>3, PubStep
  <2>2. CASE ~(name # 0 /\ seg[name].sized)
    <3>1. SetPub(p, [me EXCEPT !.pc = "unlink"]) /\ name' = name /\ made' = made
      BY <1>11, <2>2 DEF open_existing, Goto
    <3> QED
      BY <1>1, <1>8, <3>1
  <2> QED
    BY <2>1, <2>2
<1>12. CASE validate_existing(p)
  <2>1. name' = name /\ made' = made /\ me.seg # 0
    BY <1>1, <1>12 DEF validate_existing, Mapped
  <2>2. ASSUME NEW first \in Operands,
               SetPub(p, [me EXCEPT !.pc = "age", !.first = first, !.t = Operand(first, me.seg)])
        PROVE  SInv'
    <3> DEFINE you == [me EXCEPT !.pc = "age", !.first = first, !.t = Operand(first, me.seg)]
    <3>1. Operand(first, me.seg) \in Ages
      BY <1>1, <2>1, OperandType DEF PubRec
    <3>2. SetPub(p, you)
      BY <2>2
    <3> HIDE DEF me
    <3>3. you \in PubRec /\ you.pc = "age" /\ you.seg # 0
      BY <1>1, <2>1, <3>1 DEF PubRec
    <3> HIDE DEF you
    <3>4. ~Filled(you)
      BY <3>3 DEF Filled
    <3> QED
      BY <1>1, <1>3, <1>4, <1>w, <2>1, <3>2, <3>3, <3>4, PubStep
  <2> QED
    BY <1>1, <1>8, <1>12, <2>1, <2>2 DEF validate_existing, Goto
<1>13. CASE judge_age(p)
  BY <1>1, <1>8, <1>13 DEF judge_age
<1>14. CASE unlink(p)
  BY <1>2, <1>8, <1>14 DEF unlink
<1>15. CASE recreate(p)
  BY <1>1, <1>6, <1>7, <1>15 DEF recreate
<1>16. CASE destroy_unlink(p)
  BY <1>2, <1>7, <1>16 DEF destroy_unlink
<1>17. CASE crash(p)
  BY <1>1, <1>7, <1>17 DEF crash
<1> QED
  BY <1>9, <1>10, <1>11, <1>12, <1>13, <1>14, <1>15, <1>16, <1>17

\* One header gains
LEMMA OneSegGrows ==
  ASSUME SInv, NEW i \in 1..MaxSegs, NEW h \in SegRec, seg' = [seg EXCEPT ![i] = h],
         seg[i].magic => h.magic, seg[i].shutdown => h.shutdown,
         seg[i].session_id = i => h.session_id = i, h.magic => h.session_id = i
  PROVE  SegGrows /\ seg'[i] = h
<1>1. seg \in [1..MaxSegs -> SegRec] /\ SegInv
  BY TypeParts DEF SInv
<1>2. /\ seg' \in [1..MaxSegs -> SegRec] /\ seg'[i] = h
      /\ \A k \in 1..MaxSegs : k # i => seg'[k] = seg[k]
  BY <1>1
<1>3. \A k \in 1..MaxSegs : seg'[k].magic => seg'[k].session_id = k
  BY <1>1, <1>2 DEF SegInv
<1>4. SegInv'
  BY <1>3 DEF SegInv
<1> QED
  BY <1>2, <1>4 DEF SegGrows

\* Steps of a publisher that write its header
LEMMA PubWrites ==
  ASSUME SInv, NEW p \in Pubs,
         \/ truncate(p) \/ init_header(p) \/ store_magic(p)
         \/ heartbeat(p) \/ commit(p) \/ destroy(p)
  PROVE  SInv'
<1> DEFINE me == pub[p]
           i  == pub[p].seg
           h  == seg[i]
<1>1. /\ me \in PubRec /\ name \in Segs /\ made \in Segs /\ pub \in [Pubs -> PubRec]
      /\ seg \in [1..MaxSegs -> SegRec]
      /\ Mapped(me) => i # 0
      /\ Filled(me) => h.session_id = i
  BY TypeParts DEF SInv, PubInv
<1>2. Mapped(me) /\ name' = name /\ made' = made /\ sub' = sub /\ wrapped' \in BOOLEAN
  BY TypeParts DEF SInv, truncate, init_header, store_magic, heartbeat, commit, destroy, Live, Mapped
<1>3. i \in Segs /\ i # 0 /\ i \in 1..MaxSegs
  BY <1>1, <1>2, ConstantTypes DEF PubRec, Segs
<1>4. h \in SegRec /\ (h.magic => h.session_id = i)
  BY <1>1, <1>3 DEF SInv, SegInv
<1>5. 0 \in Ages
  BY ConstantTypes DEF Ages
<1>6. ASSUME NEW pc \in {"init", "magic", "live", "unlinking"},
             SetPub(p, [me EXCEPT !.pc = pc]), SegGrows,
             pc # "init" => seg'[i].session_id = i
      PROVE  SInv'
  <2> DEFINE you == [me EXCEPT !.pc = pc]
  <2>1. you \in PubRec /\ you.pc = pc /\ you.seg = i
    BY <1>1 DEF PubRec
  <2>2. SetPub(p, you)
    BY <1>6
  <2> HIDE DEF you, me, i
  <2>3. Filled(you) => seg'[you.seg].session_id = you.seg
    BY <1>6, <2>1 DEF Filled
  <2> QED
    BY <1>1, <1>2, <1>3, <1>6, <2>1, <2>2, <2>3, PubStep
<1>7. CASE truncate(p)
  <2> DEFINE g == [h EXCEPT !.sized = TRUE]
  <2>1. seg' = [seg EXCEPT ![i] = g] /\ SetPub(p, [me EXCEPT !.pc = "init"])
    BY <1>1, <1>3, <1>7 DEF truncate, Goto
  <2> HIDE DEF h
  <2>2. g \in SegRec /\ g.magic = h.magic /\ g.shutdown = h.shutdown
        /\ g.session_id = h.session_id
    BY <1>4 DEF SegRec
  <2> HIDE DEF g
  <2>3. SegGrows
    BY <1>3, <1>4, <2>1, <2>2, OneSegGrows DEF h
  <2> QED
    BY <1>6, <2>1, <2>3
<1>8. CASE init_header(p)
  <2> DEFINE g == [h EXCEPT !.session_id = i, !.heartbeat = 0]
  <2>1. seg' = [seg EXCEPT ![i] = g] /\ SetPub(p, [me EXCEPT !.pc = "magic"])
    BY <1>1, <1>3, <1>8 DEF init_header, Goto
  <2> HIDE DEF h, i, me
  <2>2. g \in SegRec /\ g.magic = h.magic /\ g.shutdown = h.shutdown /\ g.session_id = i
    BY <1>3, <1>4, <1>5 DEF SegRec
  <2> HIDE DEF g
  <2>3. SegGrows /\ seg'[i] = g
    BY <1>3, <1>4, <2>1, <2>2, OneSegGrows DEF h
  <2> QED
    BY <1>6, <2>1, <2>2, <2>3
<1>9. CASE store_magic(p)
  <2> DEFINE g == [h EXCEPT !.magic = TRUE]
  <2>1. seg' = [seg EXCEPT ![i] = g] /\ SetPub(p, [me EXCEPT !.pc = "live"])
        /\ h.session_id = i
    BY <1>1, <1>3, <1>9 DEF store_magic, Goto, Filled
  <2> HIDE DEF h, i, me
  <2>2. g \in SegRec /\ g.magic = TRUE /\ g.shutdown = h.shutdown /\ g.session_id = i
    BY <1>4, <2>1 DEF SegRec
  <2> HIDE DEF g
  <2>3. SegGrows /\ seg'[i] = g
    BY <1>3, <1>4, <2>1, <2>2, OneSegGrows DEF h
  <2> QED
    BY <1>6, <2>1, <2>2, <2>3
<1>10. CASE destroy(p)
  <2> DEFINE g == [h EXCEPT !.shutdown = TRUE]
  <2>1. seg' = [seg EXCEPT ![i] = g] /\ SetPub(p, [me EXCEPT !.pc = "unlinking"])
        /\ h.session_id = i
    BY <1>1, <1>3, <1>10 DEF destroy, Goto, Filled, Live
  <2> HIDE DEF h, i, me
  <2>2. g \in SegRec /\ g.magic = h.magic /\ g.shutdown = TRUE /\ g.session_id = i
    BY <1>4, <2>1 DEF SegRec
  <2> HIDE DEF g
  <2>3. SegGrows /\ seg'[i] = g
    BY <1>3, <1>4, <2>1, <2>2, OneSegGrows DEF h
  <2> QED
    BY <1>6, <2>1, <2>2, <2>3
<1>11. ASSUME NEW n \in 0..MaxFrames, Live(p), pub' = pub,
              seg' = [seg EXCEPT ![i] = [h EXCEPT !.latest = n, !.heartbeat = 0]]
       PROVE  SInv'
  <2> DEFINE g == [h EXCEPT !.latest = n, !.heartbeat = 0]
  <2>1. seg' = [seg EXCEPT ![i] = g]
    BY <1>11
  <2>2. SetPub(p, me) /\ Filled(me)
    BY <1>1, <1>11 DEF SetPub, Live, Filled
  <2> HIDE DEF h, i, me
  <2>3. g \in SegRec /\ g.magic = h.magic /\ g.shutdown = h.shutdown
        /\ g.session_id = h.session_id
    BY <1>4, <1>5 DEF SegRec
  <2> HIDE DEF g
  <2>4. SegGrows /\ seg'[i] = g
    BY <1>3, <1>4, <2>1, <2>3, OneSegGrows DEF h
  <2>5. seg'[i].session_id = i
    BY <1>1, <2>2, <2>3, <2>4
  <2> QED
    BY <1>1, <1>2, <1>3, <2>2, <2>4, <2>5, PubStep DEF i, me
<1>12. CASE heartbeat(p)
  <2>1. h.latest \in 0..MaxFrames
    BY <1>4 DEF SegRec
  <2>2. seg' = [seg EXCEPT ![i] = [h EXCEPT !.latest = h.latest, !.heartbeat = 0]]
    <3>1. seg' = [seg EXCEPT ![i] = [h EXCEPT !.heartbeat = 0]]
      BY <1>1, <1>3, <1>12 DEF heartbeat
    <3>2. [h EXCEPT !.heartbeat = 0] = [h EXCEPT !.latest = h.latest, !.heartbeat = 0]
      BY <1>4 DEF SegRec
    <3> QED
      BY <3>1, <3>2
  <2> QED
    BY <1>11, <1>12, <2>1, <2>2 DEF heartbeat
<1>13. CASE commit(p)
  <2>1. h.latest \in 0..MaxFrames /\ h.latest < MaxFrames
    BY <1>4, <1>13 DEF SegRec, commit
  <2>2. h.latest + 1 \in 0..MaxFrames
    BY <2>1, ConstantTypes
  <2>3. seg' = [seg EXCEPT ![i] = [h EXCEPT !.latest = h.latest + 1, !.heartbeat = 0]]
    BY <1>1, <1>3, <1>4, <1>13 DEF commit, SegRec
  <2> QED
    BY <1>11, <1>13, <2>2, <2>3 DEF commit
<1> QED
  BY <1>7, <1>8, <1>9, <1>10, <1>12, <1>13

-----------------------------------------------------------------------------
(* Time, and the invariant                                                  *)

LEMMA TickStep ==
  ASSUME SInv, tick
  PROVE  SInv'
<1>1. /\ seg \in [1..MaxSegs -> SegRec] /\ pub \in [Pubs -> PubRec]
      /\ sub \in [Subs -> SubRec] /\ name' = name /\ made' = made
  BY TypeParts DEF SInv, tick
<1>2. \A x \in Ages : Older(x, Old) \in Ages
  BY AtMostType, ConstantTypes DEF Ages
<1>3. \A i \in 1..MaxSegs : /\ seg'[i] \in SegRec /\ seg'[i].magic = seg[i].magic
                            /\ seg'[i].shutdown = seg[i].shutdown
                            /\ seg'[i].session_id = seg[i].session_id
  <2> SUFFICES ASSUME NEW i \in 1..MaxSegs
               PROVE  /\ seg'[i] \in SegRec /\ seg'[i].magic = seg[i].magic
                      /\ seg'[i].shutdown = seg[i].shutdown
                      /\ seg'[i].session_id = seg[i].session_id
    OBVIOUS
  <2> DEFINE h == seg[i]
  <2>1. seg'[i] = [h EXCEPT !.heartbeat = Older(h.heartbeat, Old)]
    BY <1>1 DEF tick
  <2>2. h \in SegRec
    BY <1>1
  <2>3. Older(h.heartbeat, Old) \in Ages
    BY <1>2, <2>2 DEF SegRec
  <2> HIDE DEF h
  <2>4. /\ [h EXCEPT !.heartbeat = Older(h.heartbeat, Old)] \in SegRec
        /\ [h EXCEPT !.heartbeat = Older(h.heartbeat, Old)].magic = h.magic
        /\ [h EXCEPT !.heartbeat = Older(h.heartbeat, Old)].shutdown = h.shutdown
        /\ [h EXCEPT !.heartbeat = Older(h.heartbeat, Old)].session_id = h.session_id
    BY <2>2, <2>3 DEF SegRec
  <2> QED
    BY <2>1, <2>4 DEF h
<1>4. seg' \in [1..MaxSegs -> SegRec]
  <2>1. seg' = [i \in 1..MaxSegs |-> [seg[i] EXCEPT !.heartbeat = Older(@, Old)]]
    BY <1>1 DEF tick
  <2>2. \A i \in 1..MaxSegs : [seg[i] EXCEPT !.heartbeat = Older(@, Old)] \in SegRec
    BY <1>3, <2>1
  <2> QED
    BY <2>1, <2>2
<1>5. SegGrows
  <2>1. SegInv'
    BY <1>3 DEF SInv, SegInv
  <2> QED
    BY <1>3, <1>4, <2>1 DEF SegGrows
<1>6. \A p \in Pubs : pub'[p] \in PubRec /\ pub'[p].pc = pub[p].pc /\ pub'[p].seg = pub[p].seg
  <2> SUFFICES ASSUME NEW p \in Pubs
               PROVE  pub'[p] \in PubRec /\ pub'[p].pc = pub[p].pc /\ pub'[p].seg = pub[p].seg
    OBVIOUS
  <2> DEFINE me == pub[p]
  <2>1. me \in PubRec
    BY <1>1
  <2>2. pub'[p] = IF me.pc # "age" THEN me
                  ELSE [me EXCEPT !.t = Older(me.t, Old), !.busy = me.busy + 1]
    BY <1>1 DEF tick
  <2>3. me.pc = "age" => me.busy < MaxStall
    BY DEF tick
  <2> HIDE DEF me
  <2>4. me.pc = "age" => me.busy + 1 \in 0..MaxStall
    BY <2>1, <2>3, ConstantTypes DEF PubRec
  <2>5. Older(me.t, Old) \in Ages
    BY <1>2, <2>1 DEF PubRec
  <2>6. me.pc = "age" =>
          /\ [me EXCEPT !.t = Older(me.t, Old), !.busy = me.busy + 1] \in PubRec
          /\ [me EXCEPT !.t = Older(me.t, Old), !.busy = me.busy + 1].pc = me.pc
          /\ [me EXCEPT !.t = Older(me.t, Old), !.busy = me.busy + 1].seg = me.seg
    BY <2>1, <2>4, <2>5 DEF PubRec
  <2> QED
    BY <2>1, <2>2, <2>6 DEF me
<1>7. pub' \in [Pubs -> PubRec]
  <2>1. pub' = [p \in Pubs |-> pub'[p]]
    BY DEF tick
  <2> QED
    BY <1>6, <2>1
<1>8. \A s \in Subs : /\ sub'[s] \in SubRec /\ sub'[s].pc = sub[s].pc /\ sub'[s].seg = sub[s].seg
                      /\ sub'[s].session = sub[s].session
                      /\ sub'[s].candidate = sub[s].candidate
                      /\ sub'[s].peer_shutdown = sub[s].peer_shutdown
  <2> SUFFICES ASSUME NEW s \in Subs
               PROVE  /\ sub'[s] \in SubRec /\ sub'[s].pc = sub[s].pc /\ sub'[s].seg = sub[s].seg
                      /\ sub'[s].session = sub[s].session
                      /\ sub'[s].candidate = sub[s].candidate
                      /\ sub'[s].peer_shutdown = sub[s].peer_shutdown
    OBVIOUS
  <2> DEFINE me == sub[s]
             progress == Older(me.last_progress, SubStale)
             attempt  == Older(me.last_attempt, RetryOld)
             read     == Older(me.last_read, MinRead)
             now      == IF InCall(s) THEN me.now + 1 ELSE me.now
             t        == IF me.pc \in {"beat", "again"} THEN Older(me.t, Old) ELSE me.t
             new == [me EXCEPT !.last_progress = progress, !.last_attempt = attempt,
                               !.last_read = read, !.now = now, !.t = t]
  <2>1. me \in SubRec
    BY <1>1
  <2>2. sub'[s] = new
    BY <1>1 DEF tick
  <2>3. progress \in 0..SubStale /\ attempt \in 0..RetryOld /\ read \in 0..MinRead
    <3>1. me.last_progress \in Nat /\ me.last_attempt \in Nat /\ me.last_read \in Nat
      BY <2>1 DEF SubRec
    <3> HIDE DEF me
    <3> QED
      BY <3>1, AtMostType, ConstantTypes
  <2>4. now \in 0..MaxStall
    <3>1. InCall(s) => me.now < MaxStall
      BY DEF tick
    <3>2. me.now \in 0..MaxStall
      BY <2>1 DEF SubRec
    <3> HIDE DEF me
    <3> QED
      BY <3>1, <3>2, ConstantTypes
  <2>5. t \in Ages
    BY <1>2, <2>1 DEF SubRec
  <2> HIDE DEF me, progress, attempt, read, now, t
  <2>6. /\ new \in SubRec /\ new.pc = me.pc /\ new.seg = me.seg /\ new.session = me.session
        /\ new.candidate = me.candidate /\ new.peer_shutdown = me.peer_shutdown
    BY <2>1, <2>3, <2>4, <2>5 DEF SubRec
  <2> QED
    BY <2>2, <2>6 DEF me
<1>9. sub' \in [Subs -> SubRec]
  <2>1. sub' = [s \in Subs |-> sub'[s]]
    BY DEF tick
  <2> QED
    BY <1>8, <2>1
<1>w. wrapped' = wrapped /\ name' = name /\ made' = made
  BY DEF tick
<1>10. TypeOK'
  BY <1>1, <1>4, <1>7, <1>9, <1>w, TypeParts DEF SInv, TypeOK, SegRec, PubRec, SubRec
<1>11. \A i \in Segs : i # 0 => i \in 1..MaxSegs
  BY ConstantTypes DEF Segs
<1>12. PubInv'
  <2> SUFFICES ASSUME NEW p \in Pubs
               PROVE  /\ Mapped(pub'[p]) => pub'[p].seg # 0
                      /\ Filled(pub'[p]) => seg'[pub'[p].seg].session_id = pub'[p].seg
    BY DEF PubInv, Mapped, Filled
  <2>1. /\ Mapped(pub[p]) => pub[p].seg # 0
        /\ Filled(pub[p]) => seg[pub[p].seg].session_id = pub[p].seg
        /\ pub[p].seg \in Segs
    BY <1>1 DEF SInv, PubInv, PubRec
  <2> QED
    BY <1>3, <1>6, <1>11, <2>1 DEF Mapped, Filled
<1>13. SubInv'
  <2> SUFFICES ASSUME NEW s \in Subs
               PROVE  /\ sub'[s] \in SubRec
                      /\ sub'[s].seg # 0 =>
                           sub'[s].session = sub'[s].seg /\ seg'[sub'[s].seg].magic
                      /\ sub'[s].peer_shutdown => sub'[s].seg # 0 /\ seg'[sub'[s].seg].shutdown
                      /\ Placed(sub'[s])
    BY DEF SubInv, Informed, Placed
  <2>1. Informed(sub[s]) /\ Placed(sub[s]) /\ sub[s].seg \in Segs
    BY <1>1 DEF SInv, SubInv, SubRec
  <2> QED
    BY <1>3, <1>8, <1>11, <2>1 DEF Informed, Placed
<1> QED
  BY <1>5, <1>10, <1>12, <1>13 DEF SInv, SegGrows

LEMMA SessionInit ==
  ASSUME Init
  PROVE  SInv
<1>1. 0 \in Segs /\ 0 \in Ages /\ Old \in Ages /\ 0 \in 0..MaxStall /\ 0 \in 0..MaxFrames
      /\ "hb" \in Operands
  BY ConstantTypes DEF Segs, Ages, Operands
<1>2. Blank \in SegRec /\ Blank.magic = FALSE
  BY <1>1 DEF Blank, SegRec
<1>3. NoPub \in PubRec /\ NoPub.pc = "out"
  BY <1>1 DEF NoPub, PubRec
<1>4. NoSub \in SubRec /\ NoSub.pc = "none" /\ NoSub.seg = 0 /\ NoSub.peer_shutdown = FALSE
  BY <1>1, ConstantTypes DEF NoSub, SubRec
<1>5. /\ name = 0 /\ made = 0 /\ wrapped \in BOOLEAN /\ seg \in [1..MaxSegs -> SegRec]
      /\ pub \in [Pubs -> PubRec] /\ sub \in [Subs -> SubRec]
      /\ \A i \in 1..MaxSegs : seg[i] = Blank
      /\ \A p \in Pubs : pub[p] = NoPub
      /\ \A s \in Subs : sub[s] = NoSub
  BY <1>2, <1>3, <1>4 DEF Init
<1>6. TypeOK
  BY <1>1, <1>5, TypeParts
<1>7. SegInv
  BY <1>2, <1>5 DEF SegInv
<1>8. PubInv
  BY <1>3, <1>5 DEF PubInv, Mapped, Filled
<1>9. SubInv
  BY <1>4, <1>5 DEF SubInv, Informed, Placed
<1> QED
  BY <1>6, <1>7, <1>8, <1>9 DEF SInv

LEMMA SessionInductive ==
  ASSUME SInv, [Next]_vars
  PROVE  SInv'
<1>1. ASSUME NEW p \in Pubs,
             create(p) \/ heartbeat(p) \/ commit(p) \/ destroy(p) \/ crash(p) \/ Continues(p)
      PROVE  SInv'
  BY <1>1, PubQuiet, PubWrites DEF Continues
<1>2. ASSUME NEW s \in Subs, Reads(s) PROVE SInv'
  BY <1>2, ReadsStep
<1>3. CASE tick
  BY <1>3, TickStep
<1>4. CASE UNCHANGED vars
  BY <1>4 DEF vars, SInv, TypeOK, SegInv, PubInv, SubInv, Informed, Placed, Mapped, Filled
<1> QED
  BY <1>1, <1>2, <1>3, <1>4 DEF Next

LEMMA SessionInvariant == Spec => []SInv
<1>1. Init => SInv
  BY SessionInit
<1>2. SInv /\ [Next]_vars => SInv'
  BY SessionInductive
<1> QED
  BY <1>1, <1>2, PTL DEF Spec

-----------------------------------------------------------------------------
(* What a subscriber knows                                                  *)

\* Types: the ages stay within the windows the code tells apart, and every
\* segment number is that of a segment.
THEOREM SessionTypes == Spec => []TypeOK
<1>1. SInv => TypeOK
  BY DEF SInv
<1> QED
  BY <1>1, SessionInvariant, PTL

\* try_connect adopts only complete headers: the magic is stored last, so the
\* session id that goes with it is final, whoever creates, reclaims or crashes
\* meanwhile.
THEOREM AdoptedHeadersAreComplete == Spec => []HeaderComplete
<1>1. SInv => HeaderComplete
  BY DEF SInv, SubInv, Informed, HeaderComplete
<1> QED
  BY <1>1, SessionInvariant, PTL

\* producer_shutdown() speaks of the session the subscriber is on, across any
\* number of re-attaches.
THEOREM ShutdownIsOfThisSession == Spec => []ShutdownIsTrue
<1>1. SInv => ShutdownIsTrue
  BY DEF SInv, SubInv, Informed, ShutdownIsTrue
<1> QED
  BY <1>1, SessionInvariant, PTL

-----------------------------------------------------------------------------
(* Who has the name                                                         *)

\* Publishers create and destroy one at a time.
Orderly == ~Overlap

\* A live publisher is never silent for so long that a judgement, however slow,
\* would find it stale.
Prompt == Orderly /\ MaxQuiet + MaxStall < ProducerStale

Busy(p)  == Creating(p) \/ pub[p].pc = "unlinking"
Holds(p) == pub[p].pc \in {"truncate", "init", "magic", "live", "unlinking"}

\* While a create runs nobody else touches the name, so what it mapped is what
\* the name leads to; the heartbeat it loaded is not newer than the one there,
\* and the time it asked for is no older than its judgement.
Loaded(me) == IF me.first = "hb" THEN seg[me.seg].heartbeat <= me.t ELSE me.t <= me.busy

TurnInv ==
  /\ \A p, q \in Pubs : Creating(p) /\ Busy(q) => p = q
  /\ \A p \in Pubs : /\ pub[p].pc \in {"validate", "age"} => pub[p].seg = name
                     /\ pub[p].pc = "recreate" => name = 0
                     /\ pub[p].pc = "age" => Loaded(pub[p])
                     /\ pub[p].pc # "age" => pub[p].busy = 0

\* At most one publisher has a segment, and the name leads to it; nobody is
\* about to unlink it, and whoever judges its heartbeat loaded a recent one.
HoldInv ==
  /\ \A p, q \in Pubs : Holds(p) /\ Holds(q) => p = q
  /\ \A p \in Pubs : Holds(p) => name = pub[p].seg
  /\ \A p, q \in Pubs : pub[p].pc \in {"unlink", "recreate"} => ~Holds(q)
  /\ name <= made
  /\ \A i \in 1..MaxSegs : i > made => ~seg[i].shutdown
  /\ \A p \in Pubs :
       /\ Holds(p) /\ pub[p].pc # "unlinking" => ~seg[pub[p].seg].shutdown
       /\ pub[p].pc \in {"init", "magic", "live"} => seg[pub[p].seg].sized
       /\ pub[p].pc = "live" => seg[pub[p].seg].magic
       /\ pub[p].pc \in {"magic", "live"} => seg[pub[p].seg].heartbeat <= MaxQuiet
  /\ \A p, q \in Pubs : pub[p].pc = "age" /\ Live(q) => pub[p].t <= MaxQuiet + pub[p].busy

\* What the proofs below know of the state
LEMMA StateTypes ==
  ASSUME SInv
  PROVE  /\ name \in Nat /\ made \in Nat
         /\ seg \in [1..MaxSegs -> SegRec] /\ pub \in [Pubs -> PubRec]
         /\ \A i \in 1..MaxSegs : seg[i] \in SegRec /\ seg[i].heartbeat \in Nat
         /\ \A p \in Pubs : /\ pub[p] \in PubRec /\ pub[p].t \in Nat /\ pub[p].busy \in Nat
                            /\ pub[p].busy <= MaxStall
                            /\ Mapped(pub[p]) => pub[p].seg \in 1..MaxSegs
<1>1. /\ name \in Segs /\ made \in Segs /\ seg \in [1..MaxSegs -> SegRec]
      /\ pub \in [Pubs -> PubRec]
  BY TypeParts DEF SInv
<1>2. \A i \in 1..MaxSegs : seg[i] \in SegRec /\ seg[i].heartbeat \in Nat
  BY <1>1 DEF SegRec, Ages
<1>3. ASSUME NEW p \in Pubs
      PROVE  /\ pub[p] \in PubRec /\ pub[p].t \in Nat /\ pub[p].busy \in Nat
             /\ pub[p].busy <= MaxStall
             /\ Mapped(pub[p]) => pub[p].seg \in 1..MaxSegs
  <2>1. pub[p] \in PubRec
    BY <1>1
  <2>2. pub[p].t \in Nat /\ pub[p].busy \in Nat /\ pub[p].busy <= MaxStall /\ pub[p].seg \in Segs
    BY <2>1, ConstantTypes DEF PubRec, Ages
  <2>3. Mapped(pub[p]) => pub[p].seg # 0
    BY DEF SInv, PubInv
  <2> QED
    BY <2>1, <2>2, <2>3, ConstantTypes DEF Segs
<1> QED
  BY <1>1, <1>2, <1>3 DEF Segs

CreatingAt(pc) == pc \in {"truncate", "init", "magic", "open", "validate",
                          "age", "unlink", "recreate"}

\* What a step that replaces one publisher has to show of it.
LEMMA TurnSet ==
  ASSUME SInv, TurnInv, NEW p \in Pubs, NEW me, SetPub(p, me),
         \A i \in 1..MaxSegs : seg'[i].heartbeat \in Nat /\ seg'[i].heartbeat <= seg[i].heartbeat,
         name' = name \/ \A q \in Pubs : q # p => ~Creating(q),
         CreatingAt(me.pc) => \A q \in Pubs : q # p => ~Busy(q),
         me.pc = "unlinking" => \A q \in Pubs : q # p => ~Creating(q),
         me.pc \in {"validate", "age"} => me.seg = name',
         me.pc = "recreate" => name' = 0,
         me.pc = "age" => IF me.first = "hb" THEN seg'[me.seg].heartbeat <= me.t ELSE me.t <= me.busy,
         me.pc # "age" => me.busy = 0
  PROVE  TurnInv'
<1>1. pub'[p] = me /\ \A q \in Pubs : q # p => pub'[q] = pub[q]
  BY StateTypes DEF SetPub
<1>2. \A q \in Pubs : (CreatingAt(pub[q].pc) <=> Creating(q))
  BY DEF Creating, CreatingAt
<1>3. \A q, r \in Pubs :
        CreatingAt(pub'[q].pc) /\ (CreatingAt(pub'[r].pc) \/ pub'[r].pc = "unlinking") => q = r
  BY <1>1, <1>2 DEF TurnInv, Busy
<1>4. ASSUME NEW q \in Pubs
      PROVE  /\ pub'[q].pc \in {"validate", "age"} => pub'[q].seg = name'
             /\ pub'[q].pc = "recreate" => name' = 0
             /\ pub'[q].pc = "age" => IF pub'[q].first = "hb" THEN seg'[pub'[q].seg].heartbeat <= pub'[q].t
                                       ELSE pub'[q].t <= pub'[q].busy
             /\ pub'[q].pc # "age" => pub'[q].busy = 0
  <2>1. CASE q = p
    BY <1>1, <2>1
  <2>2. CASE q # p
    <3>1. pub'[q] = pub[q]
      BY <1>1, <2>2
    <3>2. pub[q].pc \in {"validate", "age", "recreate"} => name' = name
      BY <2>2 DEF Creating
    <3>3. pub[q].pc = "age" => pub[q].seg \in 1..MaxSegs /\ pub[q].t \in Nat
      BY StateTypes DEF Mapped
    <3>4. pub[q].pc = "age" => IF pub[q].first = "hb" THEN seg'[pub[q].seg].heartbeat <= pub[q].t
                               ELSE pub[q].t <= pub[q].busy
      BY <3>3, StateTypes DEF TurnInv, Loaded
    <3> QED
      BY <3>1, <3>2, <3>4 DEF TurnInv
  <2> QED
    BY <2>1, <2>2
<1> QED
  BY <1>3, <1>4 DEF TurnInv, Loaded, Creating, CreatingAt, Busy

LEMMA TurnPub ==
  ASSUME SInv, TurnInv, Orderly, NEW p \in Pubs,
         create(p) \/ heartbeat(p) \/ commit(p) \/ destroy(p) \/ crash(p) \/ Continues(p)
  PROVE  TurnInv'
<1> DEFINE me == pub[p]
           h  == seg[me.seg]
           Fresh == \A i \in 1..MaxSegs :
                      seg'[i].heartbeat \in Nat /\ seg'[i].heartbeat <= seg[i].heartbeat
           Alone == \A q \in Pubs : q # p => ~Busy(q)
           First == \A q \in Pubs : q # p => ~Creating(q)
<1>1. /\ me \in PubRec /\ (Mapped(me) => me.seg \in 1..MaxSegs)
      /\ seg \in [1..MaxSegs -> SegRec]
      /\ \A i \in 1..MaxSegs : seg[i] \in SegRec /\ seg[i].heartbeat \in Nat
  BY StateTypes
<1>2. Creating(p) => Alone /\ First
  BY DEF TurnInv, Busy
<1>3. me.pc = "unlinking" => First
  BY DEF TurnInv, Busy
<1>4. seg' = seg => Fresh
  BY <1>1
<1>5. \A pc, n : /\ [NoPub EXCEPT !.pc = pc].pc = pc
                 /\ [NoPub EXCEPT !.pc = pc].busy = 0
                 /\ [NoPub EXCEPT !.pc = pc, !.seg = n].pc = pc
                 /\ [NoPub EXCEPT !.pc = pc, !.seg = n].busy = 0
  BY DEF NoPub
<1>6. NoPub.pc = "out" /\ NoPub.busy = 0
  BY DEF NoPub
<1>7. \A pc : [me EXCEPT !.pc = pc].pc = pc /\ [me EXCEPT !.pc = pc].busy = me.busy
              /\ [me EXCEPT !.pc = pc].seg = me.seg
  BY <1>1 DEF PubRec
<1>8. me.pc # "age" => me.busy = 0
  BY DEF TurnInv
<1>9. ASSUME NewSegment(p), seg' = seg, Alone, First PROVE TurnInv'
  <2> DEFINE you == [NoPub EXCEPT !.pc = "truncate", !.seg = made + 1]
  <2>1. SetPub(p, you) /\ you.pc = "truncate" /\ you.busy = 0
    BY <1>5, <1>9 DEF NewSegment
  <2> HIDE DEF you
  <2> QED
    BY <1>4, <1>9, <2>1, TurnSet
<1>10. ASSUME SetPub(p, NoPub), seg' = seg, name' = name \/ First PROVE TurnInv'
  <2> QED
    BY <1>4, <1>6, <1>10, TurnSet DEF CreatingAt
<1>11. ASSUME NEW pc \in {"out", "open", "unlink", "recreate", "init", "magic", "live", "unlinking"},
              NEW you \in {me, NoPub}, SetPub(p, [you EXCEPT !.pc = pc]),
              you = me => me.pc # "age",
              Fresh, name' = name \/ First, CreatingAt(pc) => Alone,
              pc = "unlinking" => First, pc = "recreate" => name' = 0
       PROVE  TurnInv'
  <2> DEFINE new == [you EXCEPT !.pc = pc]
  <2>1. SetPub(p, new) /\ new.pc = pc /\ new.busy = 0
    BY <1>5, <1>7, <1>8, <1>11
  <2> HIDE DEF new
  <2> QED
    BY <1>11, <2>1, TurnSet
<1>12. CASE create(p)
  <2>1. Alone /\ First
    BY <1>12 DEF create, Orderly, Busy
  <2> QED
    BY <1>4, <1>9, <1>11, <1>12, <2>1 DEF create
<1>13. CASE truncate_fails(p)
  BY <1>10, <1>13 DEF truncate_fails
<1>14. CASE open_existing(p)
  <2>1. Alone /\ seg' = seg /\ name' = name /\ me.pc = "open"
    BY <1>2, <1>14 DEF open_existing, Creating
  <2>2. CASE name # 0 /\ seg[name].sized
    <3> DEFINE you == [me EXCEPT !.pc = "validate", !.seg = name]
    <3>1. SetPub(p, you)
      BY <1>14, <2>2 DEF open_existing
    <3>2. you.pc = "validate" /\ you.busy = 0 /\ you.seg = name
      BY <1>1, <1>8, <2>1 DEF PubRec
    <3> HIDE DEF you
    <3> QED
      BY <1>4, <2>1, <3>1, <3>2, TurnSet
  <2>3. CASE ~(name # 0 /\ seg[name].sized)
    BY <1>4, <1>11, <1>14, <2>1, <2>3 DEF open_existing, Goto
  <2> QED
    BY <2>2, <2>3
<1>15. CASE validate_existing(p)
  <2>1. /\ Alone /\ seg' = seg /\ name' = name /\ me.pc = "validate"
        /\ me.seg \in 1..MaxSegs /\ me.seg = name
    BY <1>1, <1>2, <1>15 DEF validate_existing, Creating, Mapped, TurnInv
  <2>2. ASSUME NEW first \in Operands,
               SetPub(p, [me EXCEPT !.pc = "age", !.first = first, !.t = Operand(first, me.seg)])
        PROVE  TurnInv'
    <3> DEFINE you == [me EXCEPT !.pc = "age", !.first = first, !.t = Operand(first, me.seg)]
    <3>1. SetPub(p, you)
      BY <2>2
    <3>2. /\ you.pc = "age" /\ you.seg = me.seg /\ you.busy = 0 /\ you.first = first
          /\ you.t = IF first = "hb" THEN h.heartbeat ELSE 0
      BY <1>1, <1>8, <2>1 DEF PubRec, Operand
    <3>3. seg'[me.seg].heartbeat <= h.heartbeat
      BY <1>1, <2>1
    <3> HIDE DEF you
    <3> QED
      BY <1>4, <2>1, <3>1, <3>2, <3>3, TurnSet
  <2> QED
    BY <1>4, <1>11, <1>15, <2>1, <2>2 DEF validate_existing, Goto
<1>16. CASE judge_age(p)
  <2>1. Alone /\ seg' = seg /\ name' = name
    BY <1>2, <1>16 DEF judge_age, Creating
  <2>2. NoPub # me
    BY <1>16, <1>6 DEF judge_age
  <2> QED
    BY <1>4, <1>11, <1>16, <2>1, <2>2 DEF judge_age
<1>17. CASE unlink(p)
  <2>1. Alone /\ First /\ seg' = seg /\ name' = 0
    BY <1>2, <1>17 DEF unlink, Creating
  <2>2. NoPub # me
    BY <1>17, <1>6 DEF unlink
  <2> QED
    BY <1>4, <1>11, <1>17, <2>1, <2>2 DEF unlink
<1>18. CASE recreate(p)
  <2>1. Alone /\ First /\ seg' = seg
    BY <1>2, <1>18 DEF recreate, Creating
  <2> QED
    BY <1>9, <1>10, <1>18, <2>1 DEF recreate
<1>19. CASE destroy_unlink(p)
  BY <1>3, <1>10, <1>19 DEF destroy_unlink
<1>20. CASE crash(p)
  BY <1>10, <1>20 DEF crash
<1>21. ASSUME NEW g, seg' = [seg EXCEPT ![me.seg] = g], me.seg \in 1..MaxSegs,
              g.heartbeat = 0 \/ g.heartbeat = h.heartbeat
       PROVE  Fresh
  <2>1. seg'[me.seg] = g /\ \A i \in 1..MaxSegs : i # me.seg => seg'[i] = seg[i]
    BY <1>1, <1>21
  <2> QED
    BY <1>1, <1>21, <2>1
<1>22. CASE truncate(p)
  <2> DEFINE g == [h EXCEPT !.sized = TRUE]
  <2>1. me.seg \in 1..MaxSegs /\ me.pc = "truncate" /\ Alone
    BY <1>1, <1>2, <1>22 DEF truncate, Mapped, Creating
  <2>2. seg' = [seg EXCEPT ![me.seg] = g]
    BY <1>1, <1>22, <2>1 DEF truncate
  <2>3. g.heartbeat = h.heartbeat
    BY <1>1, <2>1 DEF SegRec
  <2> HIDE DEF g
  <2>4. Fresh
    BY <1>21, <2>1, <2>2, <2>3
  <2> QED
    BY <1>11, <1>22, <2>1, <2>4 DEF truncate, Goto
<1>23. CASE init_header(p)
  <2> DEFINE g == [h EXCEPT !.session_id = me.seg, !.heartbeat = 0]
  <2>1. me.seg \in 1..MaxSegs /\ me.pc = "init" /\ Alone
    BY <1>1, <1>2, <1>23 DEF init_header, Mapped, Creating
  <2>2. seg' = [seg EXCEPT ![me.seg] = g]
    BY <1>1, <1>23, <2>1 DEF init_header
  <2>3. g.heartbeat = 0
    BY <1>1, <2>1 DEF SegRec
  <2> HIDE DEF g
  <2>4. Fresh
    BY <1>21, <2>1, <2>2, <2>3
  <2> QED
    BY <1>11, <1>23, <2>1, <2>4 DEF init_header, Goto
<1>24. CASE store_magic(p)
  <2> DEFINE g == [h EXCEPT !.magic = TRUE]
  <2>1. me.seg \in 1..MaxSegs /\ me.pc = "magic"
    BY <1>1, <1>24 DEF store_magic, Mapped
  <2>2. seg' = [seg EXCEPT ![me.seg] = g]
    BY <1>1, <1>24, <2>1 DEF store_magic
  <2>3. g.heartbeat = h.heartbeat
    BY <1>1, <2>1 DEF SegRec
  <2> HIDE DEF g
  <2>4. Fresh
    BY <1>21, <2>1, <2>2, <2>3
  <2> QED
    BY <1>11, <1>24, <2>1, <2>4 DEF store_magic, Goto, CreatingAt
<1>25. CASE destroy(p)
  <2> DEFINE g == [h EXCEPT !.shutdown = TRUE]
  <2>1. me.seg \in 1..MaxSegs /\ me.pc = "live" /\ First
    BY <1>1, <1>25 DEF destroy, Mapped, Live, Orderly
  <2>2. seg' = [seg EXCEPT ![me.seg] = g]
    BY <1>1, <1>25, <2>1 DEF destroy
  <2>3. g.heartbeat = h.heartbeat
    BY <1>1, <2>1 DEF SegRec
  <2> HIDE DEF g
  <2>4. Fresh
    BY <1>21, <2>1, <2>2, <2>3
  <2> QED
    BY <1>11, <1>25, <2>1, <2>4 DEF destroy, Goto, CreatingAt
<1>26. ASSUME Live(p), pub' = pub, name' = name, Fresh
       PROVE  TurnInv'
  <2>1. SetPub(p, me) /\ me.pc = "live" /\ me.busy = 0
    BY <1>8, <1>26, StateTypes DEF SetPub, Live
  <2> HIDE DEF me
  <2> QED
    BY <1>26, <2>1, TurnSet DEF CreatingAt
<1>27. CASE heartbeat(p)
  <2> DEFINE g == [h EXCEPT !.heartbeat = 0]
  <2>1. me.seg \in 1..MaxSegs
    BY <1>1, <1>27 DEF heartbeat, Mapped, Live
  <2>2. seg' = [seg EXCEPT ![me.seg] = g]
    BY <1>1, <1>27, <2>1 DEF heartbeat
  <2>3. g.heartbeat = 0
    BY <1>1, <2>1 DEF SegRec
  <2> HIDE DEF g
  <2>4. Fresh
    BY <1>21, <2>1, <2>2, <2>3
  <2> QED
    BY <1>26, <1>27, <2>4 DEF heartbeat
<1>28. CASE commit(p)
  <2> DEFINE g == [h EXCEPT !.latest = h.latest + 1, !.heartbeat = 0]
  <2>1. me.seg \in 1..MaxSegs
    BY <1>1, <1>28 DEF commit, Mapped, Live
  <2>2. seg' = [seg EXCEPT ![me.seg] = g]
    BY <1>1, <1>28, <2>1 DEF commit, SegRec
  <2>3. g.heartbeat = 0
    BY <1>1, <2>1 DEF SegRec
  <2> HIDE DEF g
  <2>4. Fresh
    BY <1>21, <2>1, <2>2, <2>3
  <2> QED
    BY <1>26, <1>28, <2>4 DEF commit
<1> QED
  BY <1>12, <1>13, <1>14, <1>15, <1>16, <1>17, <1>18, <1>19, <1>20, <1>22, <1>23, <1>24,
     <1>25, <1>27, <1>28 DEF Continues

LEMMA TurnTick ==
  ASSUME SInv, TurnInv, tick
  PROVE  TurnInv'
<1>1. /\ name' = name
      /\ \A p \in Pubs : pub'[p] = IF pub[p].pc # "age" THEN pub[p]
           ELSE [pub[p] EXCEPT !.t = Older(pub[p].t, Old), !.busy = pub[p].busy + 1]
  BY DEF tick
<1>2. \A p \in Pubs : /\ pub'[p].pc = pub[p].pc /\ pub'[p].seg = pub[p].seg
                      /\ pub'[p].first = pub[p].first
                      /\ pub[p].pc = "age" => /\ pub'[p].t = Older(pub[p].t, Old)
                                              /\ pub'[p].busy = pub[p].busy + 1
                      /\ pub[p].pc # "age" => pub'[p].busy = pub[p].busy
  <2> SUFFICES ASSUME NEW p \in Pubs
               PROVE  /\ pub'[p].pc = pub[p].pc /\ pub'[p].seg = pub[p].seg
                      /\ pub'[p].first = pub[p].first
                      /\ pub[p].pc = "age" => /\ pub'[p].t = Older(pub[p].t, Old)
                                              /\ pub'[p].busy = pub[p].busy + 1
                      /\ pub[p].pc # "age" => pub'[p].busy = pub[p].busy
    OBVIOUS
  <2> DEFINE me == pub[p]
             b == me.busy + 1
  <2>1. me \in PubRec
    BY StateTypes
  <2>2. pub'[p] = IF me.pc # "age" THEN me ELSE [me EXCEPT !.t = Older(me.t, Old), !.busy = b]
    BY <1>1
  <2> HIDE DEF me, b
  <2>3. /\ [me EXCEPT !.t = Older(me.t, Old), !.busy = b].pc = me.pc
        /\ [me EXCEPT !.t = Older(me.t, Old), !.busy = b].seg = me.seg
        /\ [me EXCEPT !.t = Older(me.t, Old), !.busy = b].first = me.first
        /\ [me EXCEPT !.t = Older(me.t, Old), !.busy = b].t = Older(me.t, Old)
        /\ [me EXCEPT !.t = Older(me.t, Old), !.busy = b].busy = b
    BY <2>1 DEF PubRec
  <2> QED
    BY <2>2, <2>3 DEF me, b
<1>3. \A i \in 1..MaxSegs : seg'[i].heartbeat = Older(seg[i].heartbeat, Old)
  <2> SUFFICES ASSUME NEW i \in 1..MaxSegs
               PROVE  seg'[i].heartbeat = Older(seg[i].heartbeat, Old)
    OBVIOUS
  <2>1. seg'[i] = [seg[i] EXCEPT !.heartbeat = Older(seg[i].heartbeat, Old)] /\ seg[i] \in SegRec
    BY StateTypes DEF tick
  <2> QED
    BY <2>1 DEF SegRec
<1>4. \A x, y \in Nat : /\ x <= y => Older(x, Old) <= Older(y, Old)
                        /\ x <= y => Older(x, Old) <= y + 1
  BY ConstantTypes DEF Older, AtMost
<1>5. \A p \in Pubs : pub[p].pc = "age" =>
        IF pub[p].first = "hb" THEN seg'[pub[p].seg].heartbeat <= Older(pub[p].t, Old)
        ELSE Older(pub[p].t, Old) <= pub[p].busy + 1
  BY <1>3, <1>4, StateTypes DEF Mapped, TurnInv, Loaded
<1>6. \A p \in Pubs : /\ pub'[p].pc \in {"validate", "age"} => pub'[p].seg = name'
                      /\ pub'[p].pc = "recreate" => name' = 0
                      /\ pub'[p].pc = "age" =>
                           IF pub'[p].first = "hb" THEN seg'[pub'[p].seg].heartbeat <= pub'[p].t
                           ELSE pub'[p].t <= pub'[p].busy
                      /\ pub'[p].pc # "age" => pub'[p].busy = 0
  BY <1>1, <1>2, <1>5 DEF TurnInv
<1> QED
  BY <1>2, <1>6 DEF TurnInv, Loaded, Creating, Busy

LEMMA TurnInductive ==
  ASSUME SInv, TurnInv, Orderly, [Next]_vars
  PROVE  TurnInv'
<1>1. ASSUME NEW s \in Subs, Reads(s) PROVE UNCHANGED <<name, made, seg, pub>>
  BY <1>1 DEF Reads, open, poll, judge_producer, map, validate, read_frame, no_frame, load_shutdown
<1>2. CASE UNCHANGED <<name, made, seg, pub>>
  BY <1>2 DEF TurnInv, Loaded, Creating, Busy
<1> QED
  BY <1>1, <1>2, TurnPub, TurnTick DEF Next, vars

LEMMA TurnInvariant ==
  ASSUME Orderly
  PROVE  Spec => [](SInv /\ TurnInv)
<1>1. Init => SInv /\ TurnInv
  <2> SUFFICES ASSUME Init PROVE SInv /\ TurnInv
    OBVIOUS
  <2>1. \A p \in Pubs : pub[p].pc = "out" /\ pub[p].busy = 0
    BY DEF Init, NoPub
  <2>2. TurnInv
    BY <2>1 DEF TurnInv, Creating, Busy
  <2> QED
    BY <2>2, SessionInit
<1>2. SInv /\ TurnInv /\ [Next]_vars => (SInv /\ TurnInv)'
  BY SessionInductive, TurnInductive
<1> QED
  BY <1>1, <1>2, PTL DEF Spec

\* A create that is refused was refused by a live publisher, or by one that gave
\* its last heartbeat less than stale_producer_ms before the judgement began.
\* Hypothesis: publishers create and destroy one at a time.  The judgement may
\* be slow, and may evaluate its operands in either order.
THEOREM RefusalsAreRecent ==
  ASSUME Orderly
  PROVE  Spec => RefusedOnlyIfRecent
<1>1. ASSUME SInv, TurnInv, [Next]_vars
      PROVE  [\A p \in Pubs :
                (judge_age(p) \/ recreate(p)) /\ pub'[p].pc = "out" =>
                  \/ \E q \in Pubs : Live(q)
                  \/ name # 0 /\ seg[name].heartbeat - pub[p].busy < ProducerStale]_vars
  <2> SUFFICES ASSUME NEW p \in Pubs, judge_age(p) \/ recreate(p), pub'[p].pc = "out"
               PROVE  name # 0 /\ seg[name].heartbeat - pub[p].busy < ProducerStale
    OBVIOUS
  <2>1. CASE judge_age(p)
    <3>1. pub[p].pc = "age"
      BY <2>1 DEF judge_age
    <3>2. /\ pub[p].seg = name /\ Loaded(pub[p]) /\ pub[p].busy \in Nat
          /\ pub[p].seg \in 1..MaxSegs /\ pub[p].t \in Nat /\ seg[pub[p].seg].heartbeat \in Nat
      BY <1>1, <3>1, StateTypes DEF TurnInv, Mapped
    <3> DEFINE pc == IF AgeFrom(pub[p]) >= ProducerStale THEN "unlink" ELSE "out"
    <3>3. pub'[p].pc = pc
      <4>1. pub' = [pub EXCEPT ![p] = [NoPub EXCEPT !.pc = pc]]
        BY <2>1 DEF judge_age, SetPub
      <4> HIDE DEF pc
      <4>2. pub'[p] = [NoPub EXCEPT !.pc = pc]
        BY <1>1, <4>1, StateTypes
      <4> QED
        BY <4>2 DEF NoPub
    <3>4. ~(AgeFrom(pub[p]) >= ProducerStale)
      BY <3>3
    <3> QED
      BY <3>2, <3>4, ConstantTypes DEF AgeFrom, Wraps, Loaded
  <2>2. CASE recreate(p)
    <3>1. name = 0
      BY <1>1, <2>2 DEF recreate, TurnInv
    <3> DEFINE n == made + 1
    <3>2. pub' = [pub EXCEPT ![p] = [NoPub EXCEPT !.pc = "truncate", !.seg = n]]
      BY <2>2, <3>1 DEF recreate, NewSegment, SetPub
    <3> HIDE DEF n
    <3>3. pub'[p] = [NoPub EXCEPT !.pc = "truncate", !.seg = n]
      BY <1>1, <3>2, StateTypes
    <3>4. pub'[p].pc = "truncate"
      BY <3>3 DEF NoPub
    <3>5. "truncate" # "out"
      OBVIOUS
    <3> QED
      BY <3>4, <3>5
  <2> QED
    BY <2>1, <2>2
<1> QED
  BY <1>1, TurnInvariant, PTL DEF Spec, RefusedOnlyIfRecent

HoldsAt(pc) == pc \in {"truncate", "init", "magic", "live", "unlinking"}

\* What the header of a publisher at pc holds
HeaderAt(pc, h) ==
  /\ HoldsAt(pc) /\ pc # "unlinking" => ~h.shutdown
  /\ pc \in {"init", "magic", "live"} => h.sized
  /\ pc = "live" => h.magic
  /\ pc \in {"magic", "live"} => h.heartbeat <= MaxQuiet

\* What a step that replaces one publisher has to show of it.
LEMMA HoldSet ==
  ASSUME SInv, HoldInv, NEW p \in Pubs, NEW me, SetPub(p, me),
         name' <= made', \A i \in 1..MaxSegs : i > made' => ~seg'[i].shutdown,
         (name' = name /\ seg' = seg) \/ \A q \in Pubs : q # p => ~Holds(q),
         HoldsAt(me.pc) => /\ name' = me.seg
                           /\ \A q \in Pubs : q # p => ~Holds(q)
                           /\ Live(p) \/ \A q \in Pubs : q # p => ~Creating(q),
         me.pc \in {"unlink", "recreate"} => \A q \in Pubs : q # p => ~Holds(q),
         HoldsAt(me.pc) => HeaderAt(me.pc, seg'[me.seg]),
         me.pc = "age" => \A q \in Pubs : q # p /\ Live(q) => me.t <= MaxQuiet + me.busy
  PROVE  HoldInv'
<1>1. pub'[p] = me /\ \A q \in Pubs : q # p => pub'[q] = pub[q]
  BY StateTypes DEF SetPub
<1>2. \A q \in Pubs : Holds(q) <=> HoldsAt(pub[q].pc)
  BY DEF Holds, HoldsAt
<1>3. \A q \in Pubs : Holds(q)' <=> HoldsAt(pub'[q].pc)
  BY DEF Holds, HoldsAt
<1>4. \A q, r \in Pubs : HoldsAt(pub'[q].pc) /\ HoldsAt(pub'[r].pc) => q = r
  BY <1>1, <1>2 DEF HoldInv
<1>5. \A q \in Pubs : HoldsAt(pub'[q].pc) => name' = pub'[q].seg
  BY <1>1, <1>2 DEF HoldInv
<1>6. \A q, r \in Pubs : pub'[q].pc \in {"unlink", "recreate"} => ~HoldsAt(pub'[r].pc)
  <2>1. \A q, r \in Pubs : pub[q].pc \in {"unlink", "recreate"} => ~HoldsAt(pub[r].pc)
    BY <1>2 DEF HoldInv
  <2>2. \A q \in Pubs : pub[q].pc \in {"unlink", "recreate"} => Creating(q)
    BY DEF Creating
  <2>3. Live(p) => HoldsAt(pub[p].pc)
    BY DEF Live, HoldsAt
  <2>4. me.pc \in {"unlink", "recreate"} => ~HoldsAt(me.pc)
    BY DEF HoldsAt
  <2> QED
    BY <1>1, <1>2, <2>1, <2>2, <2>3, <2>4
<1>7. \A q \in Pubs : HoldsAt(pub'[q].pc) => HeaderAt(pub'[q].pc, seg'[pub'[q].seg])
  <2> SUFFICES ASSUME NEW q \in Pubs, q # p, HoldsAt(pub[q].pc)
               PROVE  HeaderAt(pub[q].pc, seg'[pub[q].seg])
    BY <1>1
  <2>1. seg' = seg
    BY <1>2
  <2> QED
    BY <1>2, <2>1 DEF HoldInv, HeaderAt
<1>8. \A q, r \in Pubs : pub'[q].pc = "age" /\ pub'[r].pc = "live" =>
                           pub'[q].t <= MaxQuiet + pub'[q].busy
  <2>1. \A q, r \in Pubs : pub[q].pc = "age" /\ pub[r].pc = "live" =>
                             pub[q].t <= MaxQuiet + pub[q].busy
    BY DEF HoldInv, Live
  <2>2. \A q \in Pubs : pub[q].pc = "age" => Creating(q)
    BY DEF Creating
  <2>3. \A q \in Pubs : Live(q) <=> pub[q].pc = "live"
    BY DEF Live
  <2>4. me.pc = "live" => HoldsAt(me.pc) /\ me.pc # "age"
    BY DEF HoldsAt
  <2> QED
    BY <1>1, <2>1, <2>2, <2>3, <2>4
<1>9. \A q \in Pubs : Live(q)' <=> pub'[q].pc = "live"
  BY DEF Live
<1>10. \A q \in Pubs :
         /\ HoldsAt(pub'[q].pc) /\ pub'[q].pc # "unlinking" => ~seg'[pub'[q].seg].shutdown
         /\ pub'[q].pc \in {"init", "magic", "live"} => seg'[pub'[q].seg].sized
         /\ pub'[q].pc = "live" => seg'[pub'[q].seg].magic
         /\ pub'[q].pc \in {"magic", "live"} => seg'[pub'[q].seg].heartbeat <= MaxQuiet
  BY <1>7 DEF HeaderAt, HoldsAt
<1> QED
  BY <1>3, <1>4, <1>5, <1>6, <1>8, <1>9, <1>10 DEF HoldInv

\* The one header a holder writes
LEMMA HoldWrite ==
  ASSUME SInv, TurnInv, HoldInv, NEW p \in Pubs, Holds(p), NEW me, SetPub(p, me),
         me.seg = pub[p].seg, HoldsAt(me.pc), Creating(p) \/ Live(p), UNCHANGED <<name, made>>,
         NEW g, seg' = [seg EXCEPT ![pub[p].seg] = g], HeaderAt(me.pc, g)
  PROVE  HoldInv'
<1>1. pub[p].seg \in 1..MaxSegs /\ name = pub[p].seg /\ name <= made
      /\ name \in Nat /\ made \in Nat
  BY StateTypes DEF HoldInv, Holds, Mapped
<1>2. seg'[me.seg] = g /\ \A i \in 1..MaxSegs : i # me.seg => seg'[i] = seg[i]
  BY <1>1, StateTypes
<1>3. \A i \in 1..MaxSegs : i > made' => ~seg'[i].shutdown
  BY <1>1, <1>2 DEF HoldInv
<1>4. \A q \in Pubs : q # p => ~Holds(q)
  BY DEF HoldInv
<1>5. Live(p) \/ \A q \in Pubs : q # p => ~Creating(q)
  BY DEF TurnInv, Busy
<1>6. ~(me.pc \in {"unlink", "recreate", "age"})
  BY DEF HoldsAt
<1> QED
  BY <1>1, <1>2, <1>3, <1>4, <1>5, <1>6, HoldSet

LEMMA HoldPub ==
  ASSUME SInv, TurnInv, HoldInv, Prompt, ~wrapped', NEW p \in Pubs,
         create(p) \/ heartbeat(p) \/ commit(p) \/ destroy(p) \/ crash(p) \/ Continues(p)
  PROVE  HoldInv'
<1> DEFINE me == pub[p]
           h  == seg[me.seg]
           Others == \A q \in Pubs : q # p => ~Holds(q)
           Last == \A i \in 1..MaxSegs : i > made' => ~seg'[i].shutdown
           First == \A q \in Pubs : q # p => ~Creating(q)
<1>1. /\ me \in PubRec /\ (Mapped(me) => me.seg \in 1..MaxSegs)
      /\ name \in Nat /\ made \in Nat /\ name <= made
      /\ seg \in [1..MaxSegs -> SegRec]
      /\ \A i \in 1..MaxSegs : seg[i] \in SegRec /\ seg[i].heartbeat \in Nat
  BY StateTypes DEF HoldInv
<1>2. Creating(p) => First /\ \A q \in Pubs : q # p /\ Holds(q) => Live(q)
  <2>1. \A q \in Pubs : Holds(q) => Busy(q) \/ Live(q)
    BY DEF Holds, Busy, Creating, Live
  <2> QED
    BY <2>1 DEF TurnInv, Busy
<1>3. Holds(p) => Others
  BY DEF HoldInv
<1>4. ASSUME UNCHANGED <<seg, made>> PROVE Last
  BY <1>4 DEF HoldInv
<1>5. \A pc, n : /\ [NoPub EXCEPT !.pc = pc].pc = pc
                 /\ [NoPub EXCEPT !.pc = pc, !.seg = n].pc = pc
                 /\ [NoPub EXCEPT !.pc = pc, !.seg = n].seg = n
  BY DEF NoPub
<1>6. NoPub.pc = "out"
  BY DEF NoPub
<1>7. \A pc : [me EXCEPT !.pc = pc].pc = pc /\ [me EXCEPT !.pc = pc].seg = me.seg
  BY <1>1 DEF PubRec
<1>9. ASSUME NewSegment(p), seg' = seg, Others, First PROVE HoldInv'
  <2> DEFINE n == made + 1
             you == [NoPub EXCEPT !.pc = "truncate", !.seg = n]
  <2>1. SetPub(p, you) /\ name' = n /\ made' = n /\ made < MaxSegs
    BY <1>9 DEF NewSegment
  <2>2. n \in 1..MaxSegs /\ n > made /\ n <= n
    BY <1>1, <2>1, ConstantTypes
  <2> HIDE DEF n
  <2>3. you.pc = "truncate" /\ you.seg = n
    BY <1>5
  <2> HIDE DEF you
  <2>4. \A i \in 1..MaxSegs : i > made' => ~seg'[i].shutdown
    BY <1>1, <1>9, <2>1, <2>2 DEF HoldInv
  <2>5. HeaderAt(you.pc, seg'[you.seg])
    BY <1>9, <2>2, <2>3 DEF HoldInv, HeaderAt
  <2>6. ~(you.pc \in {"unlink", "recreate", "age"})
    BY <2>3
  <2> QED
    BY <1>9, <2>1, <2>2, <2>3, <2>4, <2>5, <2>6, HoldSet
<1>10. ASSUME NEW you, SetPub(p, you), UNCHANGED <<seg, made>>,
              name' = name \/ (name' = 0 /\ Others),
              you.pc \in {"out", "open", "validate", "unlink", "recreate"},
              you.pc \in {"unlink", "recreate"} => Others
       PROVE  HoldInv'
  <2>1. ~HoldsAt(you.pc) /\ you.pc # "age"
    BY <1>10 DEF HoldsAt
  <2>2. name' <= made'
    BY <1>1, <1>10
  <2> QED
    BY <1>4, <1>10, <2>1, <2>2, HoldSet
<1>11. CASE create(p)
  <2>1. First
    BY <1>11 DEF create, Orderly, Prompt
  <2>2. CASE name = 0 /\ NewSegment(p)
    <3>1. \A q \in Pubs : ~Holds(q)
      <4> SUFFICES ASSUME NEW q \in Pubs, Holds(q) PROVE FALSE
        OBVIOUS
      <4>1. Mapped(pub[q])
        BY DEF Holds, Mapped
      <4>2. pub[q].seg \in 1..MaxSegs
        BY <4>1, StateTypes
      <4>3. pub[q].seg = 0
        BY <2>2 DEF HoldInv
      <4> QED
        BY <4>2, <4>3
    <3> QED
      BY <1>9, <1>11, <2>1, <2>2, <3>1 DEF create
  <2>3. CASE SetPub(p, [NoPub EXCEPT !.pc = "open"]) /\ UNCHANGED <<name, made>>
    <3>1. seg' = seg /\ [NoPub EXCEPT !.pc = "open"].pc = "open"
      BY <1>5, <1>11 DEF create
    <3> QED
      BY <1>10, <2>3, <3>1
  <2> QED
    BY <1>11, <2>2, <2>3 DEF create
<1>12. CASE truncate_fails(p)
  BY <1>6, <1>10, <1>12 DEF truncate_fails
<1>13. CASE open_existing(p)
  <2>1. CASE name # 0 /\ seg[name].sized
    <3> DEFINE you == [me EXCEPT !.pc = "validate", !.seg = name]
    <3>1. SetPub(p, you) /\ UNCHANGED <<name, made, seg>>
      BY <1>13, <2>1 DEF open_existing
    <3>2. you.pc = "validate"
      BY <1>1 DEF PubRec
    <3> HIDE DEF you
    <3> QED
      BY <1>10, <3>1, <3>2
  <2>2. CASE ~(name # 0 /\ seg[name].sized)
    <3>1. SetPub(p, [me EXCEPT !.pc = "unlink"]) /\ UNCHANGED <<name, made, seg>> /\ Creating(p)
      BY <1>13, <2>2 DEF open_existing, Goto, Creating
    <3>2. Others
      <4> SUFFICES ASSUME NEW q \in Pubs, q # p, Holds(q) PROVE FALSE
        OBVIOUS
      <4>1. Live(q) /\ name = pub[q].seg
        BY <1>2, <3>1 DEF HoldInv
      <4>2. pub[q].seg \in 1..MaxSegs /\ seg[pub[q].seg].sized
        BY <4>1, StateTypes DEF Live, Mapped, HoldInv
      <4> QED
        BY <2>2, <4>1, <4>2
    <3> QED
      BY <1>7, <1>10, <3>1, <3>2
  <2> QED
    BY <2>1, <2>2
<1>14. CASE validate_existing(p)
  <2>1. /\ UNCHANGED <<name, made, seg>> /\ Creating(p) /\ me.pc = "validate" /\ me.seg = name
        /\ me.busy = 0 /\ me.seg \in 1..MaxSegs
    BY <1>1, <1>14 DEF validate_existing, Creating, TurnInv, Mapped
  <2>2. CASE h.magic /\ ~h.shutdown
    <3>0. PICK first \in Operands :
            SetPub(p, [me EXCEPT !.pc = "age", !.first = first, !.t = Operand(first, me.seg)])
      BY <1>14, <2>2 DEF validate_existing
    <3> DEFINE you == [me EXCEPT !.pc = "age", !.first = first, !.t = Operand(first, me.seg)]
    <3>1. SetPub(p, you)
      BY <3>0
    <3>2. you.pc = "age" /\ you.t \in {h.heartbeat, 0} /\ you.busy = 0
      BY <1>1, <2>1 DEF PubRec, Operand
    <3> HIDE DEF you
    <3>3. \A q \in Pubs : q # p /\ Live(q) => you.t <= MaxQuiet + you.busy
      <4> SUFFICES ASSUME NEW q \in Pubs, Live(q) PROVE h.heartbeat <= MaxQuiet
        BY <3>2, ConstantTypes, <2>1, <1>1
      <4>1. name = pub[q].seg /\ seg[pub[q].seg].heartbeat <= MaxQuiet
        BY DEF HoldInv, Live, Holds
      <4> QED
        BY <2>1, <4>1
    <3>4. ~HoldsAt(you.pc)
      BY <3>2 DEF HoldsAt
    <3> QED
      BY <1>1, <1>4, <2>1, <3>1, <3>2, <3>3, <3>4, HoldSet
  <2>3. CASE ~(h.magic /\ ~h.shutdown)
    <3>1. SetPub(p, [me EXCEPT !.pc = "unlink"])
      BY <1>14, <2>3 DEF validate_existing, Goto
    <3>2. Others
      <4> SUFFICES ASSUME NEW q \in Pubs, q # p, Holds(q) PROVE FALSE
        OBVIOUS
      <4>1. Live(q) /\ name = pub[q].seg
        BY <1>2, <2>1 DEF HoldInv
      <4>2. seg[pub[q].seg].magic /\ ~seg[pub[q].seg].shutdown
        BY <4>1 DEF Live, HoldInv, Holds
      <4> QED
        BY <2>1, <2>3, <4>1, <4>2
    <3> QED
      BY <1>7, <1>10, <2>1, <3>1, <3>2
  <2> QED
    BY <2>2, <2>3
<1>15. CASE judge_age(p)
  <2> DEFINE old == AgeFrom(me) >= ProducerStale
             pc == IF old THEN "unlink" ELSE "out"
  <2>1. SetPub(p, [NoPub EXCEPT !.pc = pc]) /\ UNCHANGED <<name, made, seg>> /\ Creating(p)
        /\ me.pc = "age"
    BY <1>15 DEF judge_age, Creating
  <2>2. ASSUME old PROVE Others
    <3> SUFFICES ASSUME NEW q \in Pubs, q # p, Holds(q) PROVE FALSE
      OBVIOUS
    <3>1. Live(q)
      BY <1>2, <2>1
    <3>2. me.t <= MaxQuiet + me.busy /\ me.t \in Nat /\ me.busy \in Nat /\ me.busy <= MaxStall
      BY <2>1, <3>1, StateTypes DEF HoldInv
    <3>3. me.seg = name /\ name = pub[q].seg /\ h.heartbeat <= MaxQuiet /\ h.heartbeat \in Nat
      BY <2>1, <3>1, StateTypes DEF TurnInv, HoldInv, Live, Mapped
    <3>4. ~Wraps(me)
      BY <1>15 DEF judge_age
    <3> QED
      BY <2>2, <3>2, <3>3, <3>4, ConstantTypes DEF AgeFrom, Wraps, Prompt
  <2>3. pc \in {"unlink", "out"} /\ (pc = "unlink" => Others)
    BY <2>2
  <2> HIDE DEF pc
  <2>4. [NoPub EXCEPT !.pc = pc].pc = pc
    BY <1>5
  <2> QED
    BY <1>10, <2>1, <2>3, <2>4
<1>16. CASE unlink(p)
  <2>1. Others
    BY <1>16 DEF unlink, HoldInv
  <2> QED
    BY <1>5, <1>10, <1>16, <2>1 DEF unlink
<1>17. CASE recreate(p)
  <2>1. Others /\ First
    BY <1>2, <1>17 DEF recreate, HoldInv, Creating
  <2> QED
    BY <1>6, <1>9, <1>10, <1>17, <2>1 DEF recreate
<1>18. CASE destroy_unlink(p)
  <2>1. Others
    BY <1>3, <1>18 DEF destroy_unlink, Holds
  <2> QED
    BY <1>6, <1>10, <1>18, <2>1 DEF destroy_unlink
<1>19. CASE crash(p)
  BY <1>6, <1>10, <1>19 DEF crash
<1>20. ASSUME Holds(p)
       PROVE  me.seg \in 1..MaxSegs /\ h \in SegRec /\ HeaderAt(me.pc, h) /\ HoldsAt(me.pc)
  <2>1. me.seg \in 1..MaxSegs
    BY <1>1, <1>20 DEF Holds, Mapped
  <2> QED
    BY <1>1, <1>20, <2>1 DEF HoldInv, HeaderAt, Holds, HoldsAt
<1>21. CASE truncate(p)
  <2> DEFINE g == [h EXCEPT !.sized = TRUE]
             you == [me EXCEPT !.pc = "init"]
  <2>1. Holds(p) /\ Creating(p) /\ me.pc = "truncate"
    BY <1>21 DEF truncate, Holds, Creating
  <2>2. seg' = [seg EXCEPT ![me.seg] = g] /\ SetPub(p, you) /\ UNCHANGED <<name, made>>
    BY <1>1, <1>20, <1>21, <2>1 DEF truncate, Goto
  <2>3. g.sized = TRUE /\ g.shutdown = h.shutdown
    BY <1>20, <2>1 DEF SegRec
  <2>4. you.pc = "init" /\ you.seg = me.seg
    BY <1>7
  <2> HIDE DEF g, you
  <2>5. HeaderAt(you.pc, g) /\ HoldsAt(you.pc)
    BY <1>20, <2>1, <2>3, <2>4 DEF HeaderAt, HoldsAt
  <2> QED
    BY <2>1, <2>2, <2>4, <2>5, HoldWrite
<1>22. CASE init_header(p)
  <2> DEFINE g == [h EXCEPT !.session_id = me.seg, !.heartbeat = 0]
             you == [me EXCEPT !.pc = "magic"]
  <2>1. Holds(p) /\ Creating(p) /\ me.pc = "init"
    BY <1>22 DEF init_header, Holds, Creating
  <2>2. seg' = [seg EXCEPT ![me.seg] = g] /\ SetPub(p, you) /\ UNCHANGED <<name, made>>
    BY <1>1, <1>20, <1>22, <2>1 DEF init_header, Goto
  <2>3. g.sized = h.sized /\ g.shutdown = h.shutdown /\ g.heartbeat = 0
    BY <1>20, <2>1 DEF SegRec
  <2>4. you.pc = "magic" /\ you.seg = me.seg
    BY <1>7
  <2> HIDE DEF g, you
  <2>5. HeaderAt(you.pc, g) /\ HoldsAt(you.pc)
    BY <1>20, <2>1, <2>3, <2>4, ConstantTypes DEF HeaderAt, HoldsAt
  <2> QED
    BY <2>1, <2>2, <2>4, <2>5, HoldWrite
<1>23. CASE store_magic(p)
  <2> DEFINE g == [h EXCEPT !.magic = TRUE]
             you == [me EXCEPT !.pc = "live"]
  <2>1. Holds(p) /\ Creating(p) /\ me.pc = "magic"
    BY <1>23 DEF store_magic, Holds, Creating
  <2>2. seg' = [seg EXCEPT ![me.seg] = g] /\ SetPub(p, you) /\ UNCHANGED <<name, made>>
    BY <1>1, <1>20, <1>23, <2>1 DEF store_magic, Goto
  <2>3. g.sized = h.sized /\ g.shutdown = h.shutdown /\ g.heartbeat = h.heartbeat /\ g.magic = TRUE
    BY <1>20, <2>1 DEF SegRec
  <2>4. you.pc = "live" /\ you.seg = me.seg
    BY <1>7
  <2> HIDE DEF g, you
  <2>5. HeaderAt(you.pc, g) /\ HoldsAt(you.pc)
    BY <1>20, <2>1, <2>3, <2>4 DEF HeaderAt, HoldsAt
  <2> QED
    BY <2>1, <2>2, <2>4, <2>5, HoldWrite
<1>24. CASE destroy(p)
  <2> DEFINE g == [h EXCEPT !.shutdown = TRUE]
             you == [me EXCEPT !.pc = "unlinking"]
  <2>1. Holds(p) /\ Live(p)
    BY <1>24 DEF destroy, Holds, Live
  <2>2. seg' = [seg EXCEPT ![me.seg] = g] /\ SetPub(p, you) /\ UNCHANGED <<name, made>>
    BY <1>1, <1>20, <1>24, <2>1 DEF destroy, Goto
  <2>3. you.pc = "unlinking" /\ you.seg = me.seg
    BY <1>7
  <2> HIDE DEF g, you
  <2>4. HeaderAt(you.pc, g) /\ HoldsAt(you.pc)
    BY <2>3 DEF HeaderAt, HoldsAt
  <2> QED
    BY <2>1, <2>2, <2>3, <2>4, HoldWrite
<1>25. ASSUME NEW n, heartbeat(p) \/ commit(p),
              seg' = [seg EXCEPT ![me.seg] = [h EXCEPT !.latest = n, !.heartbeat = 0]]
       PROVE  HoldInv'
  <2> DEFINE g == [h EXCEPT !.latest = n, !.heartbeat = 0]
  <2>1. Holds(p) /\ Live(p) /\ me.pc = "live" /\ UNCHANGED <<name, made, pub>>
    BY <1>25 DEF heartbeat, commit, Holds, Live
  <2>2. seg' = [seg EXCEPT ![me.seg] = g] /\ SetPub(p, me)
    BY <1>25, <2>1, StateTypes DEF SetPub
  <2>3. g.sized = h.sized /\ g.shutdown = h.shutdown /\ g.heartbeat = 0 /\ g.magic = h.magic
    BY <1>20, <2>1 DEF SegRec
  <2> HIDE DEF g
  <2>4. HeaderAt(me.pc, g) /\ HoldsAt(me.pc)
    BY <1>20, <2>1, <2>3, ConstantTypes DEF HeaderAt, HoldsAt
  <2> QED
    BY <2>1, <2>2, <2>4, HoldWrite
<1>26. CASE heartbeat(p)
  <2>1. me.seg \in 1..MaxSegs /\ h \in SegRec
    BY <1>20, <1>26 DEF heartbeat, Live, Holds
  <2>2. seg' = [seg EXCEPT ![me.seg] = [h EXCEPT !.heartbeat = 0]]
    BY <1>1, <1>26, <2>1 DEF heartbeat
  <2>3. [h EXCEPT !.heartbeat = 0] = [h EXCEPT !.latest = h.latest, !.heartbeat = 0]
    BY <2>1 DEF SegRec
  <2> QED
    BY <1>25, <1>26, <2>2, <2>3
<1>27. CASE commit(p)
  <2>1. me.seg \in 1..MaxSegs /\ h \in SegRec
    BY <1>20, <1>27 DEF commit, Live, Holds
  <2>2. seg' = [seg EXCEPT ![me.seg] = [h EXCEPT !.latest = h.latest + 1, !.heartbeat = 0]]
    BY <1>1, <1>27, <2>1 DEF commit, SegRec
  <2> QED
    BY <1>25, <1>27, <2>2
<1> QED
  BY <1>11, <1>12, <1>13, <1>14, <1>15, <1>16, <1>17, <1>18, <1>19, <1>21, <1>22, <1>23,
     <1>24, <1>26, <1>27 DEF Continues

LEMMA HoldTick ==
  ASSUME SInv, HoldInv, tick
  PROVE  HoldInv'
<1>1. name' = name /\ made' = made
  BY DEF tick
<1>2. \A p \in Pubs : /\ pub'[p].pc = pub[p].pc /\ pub'[p].seg = pub[p].seg
                      /\ pub[p].pc = "age" => /\ pub'[p].t <= pub[p].t + 1
                                              /\ pub'[p].busy = pub[p].busy + 1
                                              /\ pub'[p].t \in Nat
  <2> SUFFICES ASSUME NEW p \in Pubs
               PROVE  /\ pub'[p].pc = pub[p].pc /\ pub'[p].seg = pub[p].seg
                      /\ pub[p].pc = "age" => /\ pub'[p].t <= pub[p].t + 1
                                              /\ pub'[p].busy = pub[p].busy + 1
                                              /\ pub'[p].t \in Nat
    OBVIOUS
  <2> DEFINE me == pub[p]
             b == me.busy + 1
             t == Older(me.t, Old)
  <2>1. me \in PubRec /\ me.t \in Nat
    BY StateTypes
  <2>2. pub'[p] = IF me.pc # "age" THEN me ELSE [me EXCEPT !.t = t, !.busy = b]
    BY DEF tick
  <2>3. t \in Nat /\ t <= me.t + 1
    BY <2>1, ConstantTypes DEF Older, AtMost
  <2> HIDE DEF me, b, t
  <2>4. /\ [me EXCEPT !.t = t, !.busy = b].pc = me.pc
        /\ [me EXCEPT !.t = t, !.busy = b].seg = me.seg
        /\ [me EXCEPT !.t = t, !.busy = b].t = t
        /\ [me EXCEPT !.t = t, !.busy = b].busy = b
    BY <2>1 DEF PubRec
  <2> QED
    BY <2>2, <2>3, <2>4 DEF me, b
<1>3. \A i \in 1..MaxSegs : /\ seg'[i].heartbeat \in Nat /\ seg'[i].heartbeat <= seg[i].heartbeat + 1
                            /\ seg'[i].sized = seg[i].sized /\ seg'[i].magic = seg[i].magic
                            /\ seg'[i].shutdown = seg[i].shutdown
  <2> SUFFICES ASSUME NEW i \in 1..MaxSegs
               PROVE  /\ seg'[i].heartbeat \in Nat /\ seg'[i].heartbeat <= seg[i].heartbeat + 1
                      /\ seg'[i].sized = seg[i].sized /\ seg'[i].magic = seg[i].magic
                      /\ seg'[i].shutdown = seg[i].shutdown
    OBVIOUS
  <2> DEFINE h == seg[i]
             b == Older(h.heartbeat, Old)
  <2>1. h \in SegRec /\ h.heartbeat \in Nat
    BY StateTypes
  <2>2. seg'[i] = [h EXCEPT !.heartbeat = b]
    BY StateTypes DEF tick
  <2>3. b \in Nat /\ b <= h.heartbeat + 1
    BY <2>1, ConstantTypes DEF Older, AtMost
  <2> HIDE DEF h, b
  <2>4. /\ [h EXCEPT !.heartbeat = b].heartbeat = b
        /\ [h EXCEPT !.heartbeat = b].sized = h.sized
        /\ [h EXCEPT !.heartbeat = b].magic = h.magic
        /\ [h EXCEPT !.heartbeat = b].shutdown = h.shutdown
    BY <2>1 DEF SegRec
  <2> QED
    BY <2>2, <2>3, <2>4 DEF h
<1>4. \A p \in Pubs : Holds(p) => pub[p].seg \in 1..MaxSegs
  BY StateTypes DEF Holds, Mapped
<1>5. \A p \in Pubs : pub[p].pc \in {"magic", "live"} => seg'[pub[p].seg].heartbeat <= MaxQuiet
  <2> SUFFICES ASSUME NEW p \in Pubs, pub[p].pc \in {"magic", "live"}
               PROVE  seg'[pub[p].seg].heartbeat <= MaxQuiet
    OBVIOUS
  <2>1. seg[pub[p].seg].heartbeat < MaxQuiet
    BY DEF tick
  <2>2. pub[p].seg \in 1..MaxSegs
    BY <1>4 DEF Holds
  <2> QED
    BY <1>3, <2>1, <2>2, StateTypes, ConstantTypes
<1>6. \A p, q \in Pubs : pub[p].pc = "age" /\ pub[q].pc = "live" =>
                           pub'[p].t <= MaxQuiet + pub'[p].busy
  <2> SUFFICES ASSUME NEW p \in Pubs, NEW q \in Pubs, pub[p].pc = "age", pub[q].pc = "live"
               PROVE  pub'[p].t <= MaxQuiet + pub'[p].busy
    OBVIOUS
  <2>1. pub[p].t <= MaxQuiet + pub[p].busy /\ pub[p].t \in Nat /\ pub[p].busy \in Nat
    BY StateTypes DEF HoldInv, Live
  <2> QED
    BY <1>2, <2>1, ConstantTypes
<1>7. \A p \in Pubs :
        /\ HoldsAt(pub[p].pc) /\ pub[p].pc # "unlinking" => ~seg'[pub[p].seg].shutdown
        /\ pub[p].pc \in {"init", "magic", "live"} => seg'[pub[p].seg].sized
        /\ pub[p].pc = "live" => seg'[pub[p].seg].magic
  <2> SUFFICES ASSUME NEW p \in Pubs, Holds(p)
               PROVE  /\ pub[p].pc # "unlinking" => ~seg'[pub[p].seg].shutdown
                      /\ pub[p].pc \in {"init", "magic", "live"} => seg'[pub[p].seg].sized
                      /\ pub[p].pc = "live" => seg'[pub[p].seg].magic
    BY DEF Holds, HoldsAt
  <2>1. pub[p].seg \in 1..MaxSegs
    BY <1>4
  <2> QED
    BY <1>3, <2>1 DEF HoldInv
<1>8. \A i \in 1..MaxSegs : i > made' => ~seg'[i].shutdown
  BY <1>1, <1>3 DEF HoldInv
<1>9. \A p \in Pubs : (Holds(p)' <=> Holds(p)) /\ (Holds(p) <=> HoldsAt(pub[p].pc))
                      /\ (Live(p)' <=> pub[p].pc = "live")
  BY <1>2 DEF Holds, HoldsAt, Live
<1> QED
  BY <1>1, <1>2, <1>5, <1>6, <1>7, <1>8, <1>9 DEF HoldInv

LEMMA HoldInductive ==
  ASSUME SInv, TurnInv, wrapped \/ HoldInv, Prompt, [Next]_vars
  PROVE  wrapped' \/ HoldInv'
<1>1. ASSUME NEW s \in Subs, Reads(s) PROVE UNCHANGED <<name, made, seg, pub, wrapped>>
  BY <1>1 DEF Reads, open, poll, judge_producer, map, validate, read_frame, no_frame, load_shutdown
<1>2. CASE UNCHANGED <<name, made, seg, pub, wrapped>>
  BY <1>2 DEF HoldInv, Holds, Live
<1>3. ASSUME NEW p \in Pubs,
             create(p) \/ heartbeat(p) \/ commit(p) \/ destroy(p) \/ crash(p) \/ Continues(p)
      PROVE  wrapped => wrapped'
  BY <1>3 DEF Continues, create, heartbeat, commit, destroy, crash, truncate, truncate_fails,
       open_existing, validate_existing, judge_age, unlink, recreate, init_header, store_magic,
       destroy_unlink
<1>4. tick => wrapped' = wrapped
  BY DEF tick
<1> QED
  BY <1>1, <1>2, <1>3, <1>4, HoldPub, HoldTick DEF Next, vars

\* A live publisher keeps its name, unless a heartbeat came between the two
\* operands of the age a create computed (LiveNameKept says so itself).
\* Hypotheses: creates and destructors take turns, and no live publisher is
\* silent for so long that stale_producer_ms passes before a judgement of its
\* last heartbeat ends.
THEOREM LiveNameIsKept ==
  ASSUME Prompt
  PROVE  Spec => []LiveNameKept
<1> DEFINE Kept == wrapped \/ HoldInv
<1>1. Init => Kept
  <2> SUFFICES ASSUME Init PROVE HoldInv
    OBVIOUS
  <2>1. \A p \in Pubs : pub[p].pc = "out"
    BY DEF Init, NoPub
  <2>2. \A p \in Pubs : ~Holds(p) /\ ~Live(p)
    BY <2>1 DEF Holds, Live
  <2>3. name = 0 /\ made = 0 /\ \A i \in 1..MaxSegs : ~seg[i].shutdown
    BY DEF Init, Blank
  <2> QED
    BY <2>1, <2>2, <2>3 DEF HoldInv
<1>2. SInv /\ TurnInv /\ Kept /\ [Next]_vars => Kept'
  BY HoldInductive
<1>3. Kept => LiveNameKept
  BY DEF HoldInv, LiveNameKept, NeverStolen, Live, Holds
<1>4. Orderly
  BY DEF Prompt
<1>5. Spec => [](SInv /\ TurnInv)
  BY <1>4, TurnInvariant
<1> HIDE DEF Kept
<1> QED
  BY <1>1, <1>2, <1>3, <1>5, PTL DEF Spec
=============================================================================
