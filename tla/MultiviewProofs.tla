-------------------------- MODULE MultiviewProofs --------------------------
(***************************************************************************)
(* Proofs about Multiview, for any number of consumers, views, cells and   *)
(* colours.  On top of the types (TypeInv) there are three separate        *)
(* invariants, each about its own fields of a slot:                        *)
(*  - what is on the canvas (PictureInv);                                  *)
(*  - whose the control channel and the views are (Silence, PromiseInv),   *)
(*    as long as no window ended for a live consumer (late = 0) and nobody *)
(*    abandoned a request;                                                 *)
(*  - where the URL of an owner is (UrlInv): in the ring, or in the colour.*)
(***************************************************************************)
EXTENDS Multiview, TLAPS

Requests == [id : {1}, from : Consumers]
Replies  == [type : {"kSlotAssigned", "kSlotUnavailable"}, index : Slots, reply_to : {1},
             from : Consumers]

CtlRec == [owner : Owners, silent : BOOLEAN, up : Seq(Requests), down : Seq(Replies)]
SlotRec ==
  [pub : BOOLEAN, owner : Owners, silent : BOOLEAN, cmds : Seq(Commands), width : 1..kMaxSize,
   canvas : 0..kMaxSize, drawn : BOOLEAN, color : Colors, dirty : BOOLEAN,
   had_subscriber : BOOLEAN, idle : BOOLEAN, early : BOOLEAN, latest : 0..kMaxSize,
   blank : BOOLEAN]
ProdRec == [pc : {"control", "look", "attend", "drain"}, i : Slots, has_sub : BOOLEAN]
ConRec ==
  [pc : {"gone", "claim", "send", "wait", "assigned", "url", "init", "run"}, index : Slots,
   mine : BOOLEAN, attached : BOOLEAN, url : Urls \union {"none"},
   texture : WindowSizes \union {kDefaultSize}, have : BOOLEAN, lost : BOOLEAN]

TypeInv ==
  /\ ctl \in CtlRec /\ Len(ctl.up) <= ControlCells /\ Len(ctl.down) <= ControlCells
  /\ slot \in [Slots -> SlotRec] /\ \A i \in Slots : Len(slot[i].cmds) <= RingCells
  /\ prod \in ProdRec /\ con \in [Consumers -> ConRec] /\ abandoned \in BOOLEAN

\* The bound that events and late windows share
Counters == events \in Nat /\ late \in Nat /\ events + late <= MaxEvents

\* The canvas of a view has the size of the view and has been drawn, or will be
\* before it is published; a frame the consumer has fits the limit.
Picture(s) == (s.pub => s.canvas = s.width) /\ (s.dirty \/ s.drawn) /\ ~s.blank

\* The slot the producer works on is in use.
AtWork == prod.pc \in {"attend", "drain"} => slot[prod.i].pub

PictureInv == (\A i \in Slots : Picture(slot[i])) /\ AtWork /\ DrawnFits

\* Only the dead are silent for long.
Silence ==
  /\ ctl.silent => ctl.owner = "dead"
  /\ \A i \in Slots : slot[i].silent => slot[i].owner = "dead"

\* A consumer holds the control channel while it asks.
Asking(c) == con[c].pc \in {"send", "wait"}

\* c has been told, or is being told, that view i is its own.
Told(c, i) ==
  \/ con[c].pc = "assigned" /\ con[c].index = i
  \/ /\ con[c].pc = "wait" /\ ctl.down # <<>>
     /\ ctl.down[1].type = "kSlotAssigned" /\ ctl.down[1].index = i

Attached(c) == con[c].pc \in {"url", "init", "run"}

\* The requester owns the channel.
Holder == \A c \in Consumers : Asking(c) => ctl.owner = c

\* At most one request or reply is under way, that of the consumer that waits.
Single ==
  /\ ctl.up # <<>> => ctl.down = <<>> /\ Len(ctl.up) = 1 /\ con[ctl.up[1].from].pc = "wait"
  /\ ctl.down # <<>> => Len(ctl.down) = 1 /\ con[ctl.down[1].from].pc = "wait"

\* A view that somebody is told is there and free for it, and told to nobody
\* else; one that somebody has is its own.  Neither is idle.
Promised ==
  /\ \A c \in Consumers, i \in Slots :
       Told(c, i) => slot[i].pub /\ slot[i].owner = "nobody" /\ ~slot[i].idle
  /\ \A c, d \in Consumers, i \in Slots : Told(c, i) /\ Told(d, i) => c = d
  /\ \A c \in Consumers : con[c].pc = "assigned" => con[c].mine
Had ==
  \A c \in Consumers :
    Attached(c) => Owns(c) /\ slot[con[c].index].pub /\ ~slot[con[c].index].idle

PromiseInv == Holder /\ (~abandoned => Single /\ Promised /\ Had)

IsUrl(cmd) == cmd.type = "kSetUrl"

\* The last URL in ring q is u; q holds no URL.
Pending(q, u) ==
  \E k \in DOMAIN q : /\ IsUrl(q[k]) /\ q[k].arg = u
                      /\ \A j \in DOMAIN q : j > k => ~IsUrl(q[j])
NoUrl(q) == \A k \in DOMAIN q : ~IsUrl(q[k])

\* The colour is that of u, and the owner is known to the producer: no colour
\* will be drawn by lot.
Shown(i, u) ==
  /\ slot[i].color = u /\ slot[i].had_subscriber
  /\ prod.pc \in {"attend", "drain"} /\ prod.i = i => prod.has_sub

\* Where the URL of c is: on its way, overruled or shown
UrlAt(c) ==
  con[c].url # "none" /\ Owns(c) =>
    LET i == con[c].index IN
    \/ Pending(slot[i].cmds, con[c].url)
    \/ NoUrl(slot[i].cmds) /\ (slot[i].early \/ Shown(i, con[c].url))

\* A consumer without a view has sent no URL.
Unattached(c) ==
  con[c].pc \in {"gone", "claim", "send", "wait", "assigned"} =>
    ~con[c].attached /\ con[c].url = "none"

\* While commands are carried out, had_subscriber is up to date.
Noticed == prod.pc = "drain" => slot[prod.i].had_subscriber = prod.has_sub

UrlInv == (\A c \in Consumers : UrlAt(c) /\ Unattached(c)) /\ Noticed

-----------------------------------------------------------------------------
(* Types                                                                    *)

LEMMA ConstantTypes ==
  /\ SlotCount \in Nat \ {0} /\ ControlCells \in Nat \ {0} /\ RingCells \in Nat \ {0}
  /\ kMaxSize \in Nat /\ kDefaultSize \in 1..kMaxSize /\ WindowSizes \subseteq Nat
  /\ Green \in Colors /\ 0 \in Slots
  /\ Urls \subseteq Colors /\ MaxEvents \in Nat
  /\ Consumers \subseteq Owners /\ {"nobody", "dead"} \subseteq Owners
  /\ \A c \in Consumers : c \notin {"nobody", "dead"}
BY MultiviewAssumption DEF Slots, Owners, NoOwners

\* What a ring does: append at the end, take from the front.
LEMMA AppendFacts ==
  ASSUME NEW S, NEW q \in Seq(S), NEW e \in S
  PROVE  /\ Append(q, e) \in Seq(S) /\ Len(Append(q, e)) = Len(q) + 1
         /\ Append(q, e) # <<>> /\ DOMAIN Append(q, e) = 1..Len(q) + 1
         /\ \A k \in 1..Len(q) : Append(q, e)[k] = q[k]
         /\ Append(q, e)[Len(q) + 1] = e
OBVIOUS

LEMMA TailFacts ==
  ASSUME NEW S, NEW q \in Seq(S), q # <<>>
  PROVE  /\ Len(q) \in Nat /\ Len(q) >= 1 /\ q[1] \in S /\ Head(q) = q[1]
         /\ Tail(q) \in Seq(S) /\ Len(Tail(q)) = Len(q) - 1
         /\ DOMAIN Tail(q) = 1..Len(q) - 1
         /\ \A k \in 1..Len(q) - 1 : Tail(q)[k] = q[k + 1]
         /\ Len(q) = 1 => Tail(q) = <<>>
<1>1. Len(q) \in Nat /\ Len(q) # 0
  OBVIOUS
<1>2. /\ q[1] \in S /\ Head(q) = q[1] /\ Tail(q) \in Seq(S) /\ Len(Tail(q)) = Len(q) - 1
      /\ DOMAIN Tail(q) = 1..Len(q) - 1
      /\ \A k \in 1..Len(q) - 1 : Tail(q)[k] = q[k + 1]
  BY <1>1
<1> QED
  BY <1>1, <1>2

LEMMA CommandCases ==
  ASSUME NEW cmd \in Commands
  PROVE  \/ cmd.type = "kSetUrl" /\ cmd.arg \in Colors
         \/ cmd.type = "kResize" /\ cmd.arg \in WindowSizes
         \/ cmd.type = "kMouse" /\ cmd.arg = 0
BY ConstantTypes DEF Commands

LEMMA Constructed ==
  /\ FreeSlot \in SlotRec /\ FreeSlot.cmds = <<>>
  /\ allocate_slot \in SlotRec /\ allocate_slot.cmds = <<>>
  /\ NoConsumer \in ConRec
<1>1. FreeSlot \in SlotRec
  BY ConstantTypes DEF FreeSlot, SlotRec
<1>2. allocate_slot \in SlotRec
  <2>1. kDefaultSize \in 0..kMaxSize
    BY ConstantTypes
  <2> QED
    BY <1>1, <2>1 DEF SlotRec, allocate_slot
<1>3. NoConsumer \in ConRec
  BY ConstantTypes DEF NoConsumer, ConRec
<1>4. FreeSlot.cmds = <<>> /\ allocate_slot.cmds = <<>>
  BY DEF FreeSlot, allocate_slot
<1> QED
  BY <1>1, <1>2, <1>3, <1>4

LEMMA ClampedType == \A w \in Nat \ {0} : Clamped(w) \in 1..kMaxSize
BY ConstantTypes DEF Clamped

LEMMA ExecutedType ==
  ASSUME NEW s \in SlotRec, NEW cmd \in Commands
  PROVE  Executed(s, cmd) \in SlotRec /\ Executed(s, cmd).cmds = s.cmds
<1>1. CASE cmd.type = "kSetUrl" /\ cmd.arg \in Colors
  BY <1>1 DEF Executed, SlotRec
<1>2. CASE cmd.type = "kResize" /\ cmd.arg \in WindowSizes
  <2>1. CASE cmd.arg = 0 \/ Clamped(cmd.arg) = s.width
    BY <1>2, <2>1 DEF Executed, Resized
  <2>2. CASE ~(cmd.arg = 0 \/ Clamped(cmd.arg) = s.width)
    <3> DEFINE w == Clamped(cmd.arg)
    <3>a. cmd.arg \in Nat \ {0}
      BY <1>2, <2>2, ConstantTypes
    <3>1. w \in 1..kMaxSize /\ w \in 0..kMaxSize
      BY <3>a, ClampedType, ConstantTypes
    <3>2. Executed(s, cmd) = [s EXCEPT !.width = w, !.canvas = w, !.drawn = FALSE, !.dirty = TRUE]
      BY <1>2, <2>2 DEF Executed, Resized
    <3> HIDE DEF w
    <3> QED
      BY <3>1, <3>2 DEF SlotRec
  <2> QED
    BY <2>1, <2>2
<1>3. CASE cmd.type = "kMouse" /\ cmd.arg = 0
  BY <1>3 DEF Executed
<1> QED
  BY <1>1, <1>2, <1>3, CommandCases

LEMMA GreetedType ==
  ASSUME NEW s \in SlotRec, NEW color \in Colors
  PROVE  Greeted(s, color) \in SlotRec /\ Greeted(s, color).cmds = s.cmds
BY DEF Greeted, SlotRec

LEMMA FinishedType ==
  ASSUME NEW s \in SlotRec
  PROVE  /\ Regenerated(s) \in SlotRec /\ Regenerated(s).cmds = s.cmds
         /\ Published(s) \in SlotRec /\ Published(s).cmds = s.cmds
<1>1. Regenerated(s) \in SlotRec /\ Regenerated(s).cmds = s.cmds
  BY DEF Regenerated, SlotRec
<1>2. s.width \in 0..kMaxSize
  BY ConstantTypes DEF SlotRec
<1>3. Published(s) \in SlotRec /\ Published(s).cmds = s.cmds
  BY <1>2 DEF Published, SlotRec
<1> QED
  BY <1>1, <1>3

\* One slot is replaced.
LEMMA SlotSet ==
  ASSUME TypeInv, NEW i \in Slots, NEW s \in SlotRec, Len(s.cmds) <= RingCells,
         slot' = [slot EXCEPT ![i] = s]
  PROVE  /\ slot' \in [Slots -> SlotRec] /\ \A j \in Slots : Len(slot'[j].cmds) <= RingCells
         /\ slot'[i] = s /\ \A j \in Slots : j # i => slot'[j] = slot[j]
BY DEF TypeInv

\* One consumer is replaced.
LEMMA ConSet ==
  ASSUME TypeInv, NEW c \in Consumers, NEW me \in ConRec, Set(c, me)
  PROVE  /\ con' \in [Consumers -> ConRec] /\ con'[c] = me
         /\ \A d \in Consumers : d # c => con'[d] = con[d]
BY DEF TypeInv, Set

\* What the proofs know of the fields
LEMMA FieldTypes ==
  ASSUME TypeInv
  PROVE  /\ ctl.owner \in Owners /\ ctl.silent \in BOOLEAN /\ ctl.up \in Seq(Requests) /\ ctl.down \in Seq(Replies)
         /\ \A i \in Slots : /\ slot[i] \in SlotRec /\ slot[i].owner \in Owners
                             /\ slot[i].silent \in BOOLEAN /\ slot[i].cmds \in Seq(Commands)
                             /\ Len(slot[i].cmds) <= RingCells
         /\ prod.i \in Slots /\ prod.has_sub \in BOOLEAN
         /\ prod.pc \in {"control", "look", "attend", "drain"}
         /\ \A c \in Consumers : /\ con[c] \in ConRec /\ con[c].index \in Slots
                                 /\ con[c].attached \in BOOLEAN
BY DEF TypeInv, CtlRec, SlotRec, ProdRec, ConRec

LEMMA NextSlotType ==
  ASSUME TypeInv
  PROVE  NextSlot \in ProdRec /\ NextSlot.pc \in {"look", "control"}
BY FieldTypes, ConstantTypes DEF NextSlot, ProdRec, Slots

-----------------------------------------------------------------------------
(* What a step does to a consumer                                           *)

\* con[c] but for `lost`, which only the liveness properties look at
Becomes(c, pc, index, mine, attached, url, texture, have) ==
  /\ con' \in [Consumers -> ConRec] /\ \A d \in Consumers : d # c => con'[d] = con[d]
  /\ con'[c].pc = pc /\ con'[c].index = index /\ con'[c].mine = mine
  /\ con'[c].attached = attached /\ con'[c].url = url
  /\ con'[c].texture = texture /\ con'[c].have = have

\* It goes on, and knows no more than before.
Moves(c, pc) == Becomes(c, pc, con[c].index, con[c].mine, con[c].attached, con[c].url,
                        con[c].texture, con[c].have)

\* Its process ends, or has just begun.
Fresh(c, pc) == Becomes(c, pc, 0, TRUE, FALSE, "none", kDefaultSize, FALSE)

UrlAfter(c, color) == IF Accepted(c) THEN color ELSE con[c].url

\* The request gets into the ring.
Sends(c) == ctl.owner = c /\ Room(ctl.up, ControlCells)

LEMMA FreshFields ==
  ASSUME TypeInv, NEW c \in Consumers, NEW pc \in {"gone", "claim"},
         Set(c, [NoConsumer EXCEPT !.pc = pc])
  PROVE  Fresh(c, pc)
<1> DEFINE me == [NoConsumer EXCEPT !.pc = pc]
<1>1. me \in ConRec /\ me.pc = pc /\ me.index = 0 /\ me.mine = TRUE /\ me.attached = FALSE
      /\ me.url = "none" /\ me.texture = kDefaultSize /\ me.have = FALSE
  BY ConstantTypes DEF NoConsumer, ConRec
<1>2. Set(c, me)
  OBVIOUS
<1> HIDE DEF me
<1> QED
  BY <1>1, <1>2, ConSet DEF Fresh, Becomes

LEMMA GoneFields ==
  ASSUME TypeInv, NEW c \in Consumers, Set(c, NoConsumer)
  PROVE  Fresh(c, "gone")
<1>1. NoConsumer \in ConRec
  BY Constructed
<1>2. con' \in [Consumers -> ConRec] /\ con'[c] = NoConsumer
      /\ \A d \in Consumers : d # c => con'[d] = con[d]
  BY <1>1, ConSet
<1> QED
  BY <1>2 DEF Fresh, Becomes, NoConsumer

LEMMA Connecting ==
  ASSUME TypeInv, NEW c \in Consumers
  PROVE  /\ launch(c) => Fresh(c, "claim")
         /\ claim(c) => Moves(c, "send")
         /\ busy(c) \/ timeout(c) \/ close(c) \/ crash(c) => Fresh(c, "gone")
         /\ request(c) => \/ Sends(c) /\ Moves(c, "wait")
                          \/ ~Sends(c) /\ Fresh(c, "gone")
         /\ take_reply(c) =>
              \/ /\ Head(ctl.down).type = "kSlotAssigned"
                 /\ Becomes(c, "assigned", Head(ctl.down).index, Head(ctl.down).from = c,
                            con[c].attached, con[c].url, con[c].texture, con[c].have)
              \/ Head(ctl.down).type # "kSlotAssigned" /\ Fresh(c, "gone")
         /\ open_view(c) =>
              \/ /\ slot[con[c].index].pub /\ Claimable(slot[con[c].index])
                 /\ Becomes(c, "url", con[c].index, con[c].mine, TRUE, con[c].url,
                            con[c].texture, con[c].have)
              \/ /\ ~(slot[con[c].index].pub /\ Claimable(slot[con[c].index]))
                 /\ Fresh(c, "gone")
<1> DEFINE me == con[c]
<1>1. me \in ConRec
  BY FieldTypes
<1>2. ASSUME NEW pc \in {"send", "wait"}, Set(c, [me EXCEPT !.pc = pc])
      PROVE  Moves(c, pc)
  <2> DEFINE you == [me EXCEPT !.pc = pc]
  <2>1. you \in ConRec /\ you.pc = pc /\ you.index = me.index /\ you.mine = me.mine
        /\ you.attached = me.attached /\ you.url = me.url /\ you.texture = me.texture
        /\ you.have = me.have
    <3> HIDE DEF me
    <3> QED
      BY <1>1 DEF ConRec
  <2>2. Set(c, you)
    BY <1>2
  <2> HIDE DEF you
  <2> QED
    BY <2>1, <2>2, ConSet DEF Moves, Becomes
<1>3. launch(c) => Fresh(c, "claim")
  BY FreshFields DEF launch
<1>4. claim(c) => Moves(c, "send")
  BY <1>2 DEF claim
<1>5. busy(c) \/ timeout(c) \/ close(c) \/ crash(c) => Fresh(c, "gone")
  BY GoneFields DEF busy, timeout, close, crash
<1>6. request(c) => \/ Sends(c) /\ Moves(c, "wait")
                    \/ ~Sends(c) /\ Fresh(c, "gone")
  BY <1>2, GoneFields DEF request, Sends
<1>7. ASSUME take_reply(c), Head(ctl.down).type = "kSlotAssigned"
      PROVE  Becomes(c, "assigned", Head(ctl.down).index, Head(ctl.down).from = c,
                     con[c].attached, con[c].url, con[c].texture, con[c].have)
  <2> DEFINE reply == Head(ctl.down)
             b     == reply.from = c
             you   == [me EXCEPT !.pc = "assigned", !.index = reply.index, !.mine = b]
  <2>1. reply.index \in Slots
    <3>1. ctl.down # <<>> /\ ctl.down \in Seq(Replies)
      BY <1>7, FieldTypes DEF take_reply
    <3>2. Head(ctl.down) \in Replies
      BY <3>1, TailFacts
    <3> QED
      BY <3>2 DEF Replies
  <2>2. Set(c, you)
    BY <1>7 DEF take_reply
  <2>3. b \in BOOLEAN
    OBVIOUS
  <2> HIDE DEF b, reply
  <2>4. you \in ConRec /\ you.pc = "assigned" /\ you.index = reply.index /\ you.mine = b
        /\ you.attached = me.attached /\ you.url = me.url /\ you.texture = me.texture
        /\ you.have = me.have
    <3> HIDE DEF me
    <3> QED
      BY <1>1, <2>1, <2>3 DEF ConRec
  <2> HIDE DEF you
  <2>5. Becomes(c, "assigned", reply.index, b, me.attached, me.url, me.texture, me.have)
    BY <2>2, <2>4, ConSet DEF Becomes
  <2> QED
    BY <2>5 DEF b, reply
<1>8. take_reply(c) /\ Head(ctl.down).type # "kSlotAssigned" => Fresh(c, "gone")
  BY GoneFields DEF take_reply
<1>9. ASSUME open_view(c), slot[me.index].pub, Claimable(slot[me.index])
      PROVE  Becomes(c, "url", me.index, me.mine, TRUE, me.url, me.texture, me.have)
  <2> DEFINE you == [me EXCEPT !.pc = "url", !.attached = TRUE]
  <2>1. Set(c, you)
    BY <1>9 DEF open_view
  <2>2. you \in ConRec /\ you.pc = "url" /\ you.index = me.index /\ you.mine = me.mine
        /\ you.attached = TRUE /\ you.url = me.url /\ you.texture = me.texture
        /\ you.have = me.have
    <3> HIDE DEF me
    <3> QED
      BY <1>1 DEF ConRec
  <2> HIDE DEF you
  <2> QED
    BY <2>1, <2>2, ConSet DEF Becomes
<1>10. open_view(c) /\ ~(slot[me.index].pub /\ Claimable(slot[me.index])) => Fresh(c, "gone")
  BY GoneFields DEF open_view
<1> QED
  BY <1>3, <1>4, <1>5, <1>6, <1>7, <1>8, <1>9, <1>10

LEMMA Using ==
  ASSUME TypeInv, NEW c \in Consumers
  PROVE  /\ start_url(c) =>
              \/ Moves(c, "init") /\ UNCHANGED slot
              \/ \E color \in Urls :
                   /\ slot' = Sent(c, [type |-> "kSetUrl", arg |-> color])
                   /\ Becomes(c, "init", con[c].index, con[c].mine, con[c].attached,
                              UrlAfter(c, color), con[c].texture, con[c].have)
         /\ keyCallback(c) =>
              \E color \in Urls :
                /\ slot' = Sent(c, [type |-> "kSetUrl", arg |-> color])
                /\ Becomes(c, "run", con[c].index, con[c].mine, con[c].attached,
                           UrlAfter(c, color), con[c].texture, con[c].have)
         /\ init(c) \/ resize(c) =>
              \E w \in WindowSizes :
                /\ slot' = Sent(c, [type |-> "kResize", arg |-> w])
                /\ Becomes(c, "run", con[c].index, con[c].mine, con[c].attached, con[c].url,
                           w, FALSE)
         /\ update(c) =>
              /\ \E have \in BOOLEAN :
                   /\ have => con[c].have \/ slot[con[c].index].latest = con[c].texture
                   /\ Becomes(c, "run", con[c].index, con[c].mine, con[c].attached, con[c].url,
                              con[c].texture, have)
              /\ slot' = Beaten(c)
         /\ reattach(c) =>
              Becomes(c, "run", con[c].index, con[c].mine, TRUE, "none", con[c].texture,
                      con[c].have)
<1> DEFINE me == con[c]
<1>1. me \in ConRec
  BY FieldTypes
<1>2. ASSUME NEW color \in Urls, NEW pc \in {"init", "run"}, SendUrl(c, color, pc)
      PROVE  /\ slot' = Sent(c, [type |-> "kSetUrl", arg |-> color])
             /\ Becomes(c, pc, me.index, me.mine, me.attached, UrlAfter(c, color), me.texture,
                        me.have)
  <2> DEFINE u   == UrlAfter(c, color)
             you == [me EXCEPT !.pc = pc, !.url = u]
  <2>1. u \in Urls \union {"none"}
    BY <1>1 DEF UrlAfter, ConRec
  <2>2. Set(c, you) /\ slot' = Sent(c, [type |-> "kSetUrl", arg |-> color])
    BY <1>2 DEF SendUrl, UrlAfter
  <2> HIDE DEF u
  <2>3. you \in ConRec /\ you.pc = pc /\ you.index = me.index /\ you.mine = me.mine
        /\ you.attached = me.attached /\ you.url = u /\ you.texture = me.texture
        /\ you.have = me.have
    <3> HIDE DEF me
    <3> QED
      BY <1>1, <2>1 DEF ConRec
  <2> HIDE DEF you
  <2>4. Becomes(c, pc, me.index, me.mine, me.attached, u, me.texture, me.have)
    BY <2>2, <2>3, ConSet DEF Becomes
  <2> QED
    BY <2>2, <2>4 DEF u
<1>3. ASSUME Set(c, [me EXCEPT !.pc = "init"])
      PROVE  Moves(c, "init")
  <2> DEFINE you == [me EXCEPT !.pc = "init"]
  <2>1. you \in ConRec /\ you.pc = "init" /\ you.index = me.index /\ you.mine = me.mine
        /\ you.attached = me.attached /\ you.url = me.url /\ you.texture = me.texture
        /\ you.have = me.have
    <3> HIDE DEF me
    <3> QED
      BY <1>1 DEF ConRec
  <2>2. Set(c, you)
    BY <1>3
  <2> HIDE DEF you
  <2> QED
    BY <2>1, <2>2, ConSet DEF Moves, Becomes
<1>4. ASSUME start_url(c)
      PROVE  \/ Moves(c, "init") /\ UNCHANGED slot
             \/ \E color \in Urls :
                  /\ slot' = Sent(c, [type |-> "kSetUrl", arg |-> color])
                  /\ Becomes(c, "init", me.index, me.mine, me.attached, UrlAfter(c, color),
                             me.texture, me.have)
  <2>1. CASE Set(c, [me EXCEPT !.pc = "init"]) /\ UNCHANGED slot
    BY <1>3, <2>1
  <2>2. CASE \E color \in Urls : SendUrl(c, color, "init")
    BY <1>2, <2>2
  <2> QED
    BY <1>4, <2>1, <2>2 DEF start_url
<1>5. ASSUME keyCallback(c)
      PROVE  \E color \in Urls :
               /\ slot' = Sent(c, [type |-> "kSetUrl", arg |-> color])
               /\ Becomes(c, "run", me.index, me.mine, me.attached, UrlAfter(c, color),
                          me.texture, me.have)
  <2>1. PICK color \in Urls : SendUrl(c, color, "run")
    BY <1>5 DEF keyCallback
  <2> QED
    BY <1>2, <2>1
<1>6. ASSUME init(c) \/ resize(c)
      PROVE  \E w \in WindowSizes :
               /\ slot' = Sent(c, [type |-> "kResize", arg |-> w])
               /\ Becomes(c, "run", me.index, me.mine, me.attached, me.url, w, FALSE)
  <2>1. PICK w \in WindowSizes : resizeCallback(c, w)
    BY <1>6 DEF init, resize
  <2> DEFINE b   == ~Accepted(c)
             you == [me EXCEPT !.pc = "run", !.texture = w, !.have = FALSE, !.lost = b]
  <2>2. Set(c, you) /\ slot' = Sent(c, [type |-> "kResize", arg |-> w])
    BY <2>1 DEF resizeCallback, NewTexture
  <2>3. b \in BOOLEAN
    OBVIOUS
  <2> HIDE DEF b
  <2>4. you \in ConRec /\ you.pc = "run" /\ you.index = me.index /\ you.mine = me.mine
        /\ you.attached = me.attached /\ you.url = me.url /\ you.texture = w
        /\ you.have = FALSE
    <3> HIDE DEF me
    <3> QED
      BY <1>1, <2>3 DEF ConRec
  <2> HIDE DEF you
  <2>5. Becomes(c, "run", me.index, me.mine, me.attached, me.url, w, FALSE)
    BY <2>2, <2>4, ConSet DEF Becomes
  <2> QED
    BY <2>2, <2>5
<1>7. ASSUME update(c)
      PROVE  \E have \in BOOLEAN :
               /\ have => me.have \/ slot[me.index].latest = me.texture
               /\ Becomes(c, "run", me.index, me.mine, me.attached, me.url, me.texture, have)
  <2>1. CASE slot[me.index].latest = 0
    <3>1. Set(c, me) /\ me.pc = "run" /\ me.have \in BOOLEAN
      BY <1>1, <1>7, <2>1 DEF update, ConRec
    <3> HIDE DEF me
    <3>2. con' \in [Consumers -> ConRec] /\ con'[c] = me
          /\ \A d \in Consumers : d # c => con'[d] = con[d]
      BY <1>1, <3>1, ConSet
    <3>3. Becomes(c, "run", me.index, me.mine, me.attached, me.url, me.texture, me.have)
      BY <3>1, <3>2 DEF Becomes
    <3> QED
      BY <3>1, <3>3
  <2>2. CASE slot[me.index].latest # 0
    <3> DEFINE b   == slot[me.index].latest = me.texture
               you == [me EXCEPT !.have = b]
    <3>1. Set(c, you) /\ me.pc = "run"
      BY <1>7, <2>2 DEF update
    <3>2. b \in BOOLEAN /\ (b => slot[me.index].latest = me.texture)
      OBVIOUS
    <3> HIDE DEF b
    <3>3. you \in ConRec /\ you.pc = me.pc /\ you.index = me.index /\ you.mine = me.mine
          /\ you.attached = me.attached /\ you.url = me.url /\ you.texture = me.texture
          /\ you.have = b
      <4> HIDE DEF me
      <4> QED
        BY <1>1, <3>2 DEF ConRec
    <3> HIDE DEF you
    <3>4. Becomes(c, "run", me.index, me.mine, me.attached, me.url, me.texture, b)
      BY <3>1, <3>3, ConSet DEF Becomes
    <3> QED
      BY <3>2, <3>4
  <2> QED
    BY <2>1, <2>2
<1>8. ASSUME reattach(c)
      PROVE  Becomes(c, "run", me.index, me.mine, TRUE, "none", me.texture, me.have)
  <2> DEFINE you == [me EXCEPT !.attached = TRUE, !.url = "none", !.lost = TRUE]
  <2>1. Set(c, you) /\ me.pc = "run"
    BY <1>8 DEF reattach
  <2>2. you \in ConRec /\ you.pc = me.pc /\ you.index = me.index /\ you.mine = me.mine
        /\ you.attached = TRUE /\ you.url = "none" /\ you.texture = me.texture
        /\ you.have = me.have
    <3> HIDE DEF me
    <3> QED
      BY <1>1 DEF ConRec
  <2> HIDE DEF you
  <2> QED
    BY <2>1, <2>2, ConSet DEF Becomes
<1>9. update(c) => slot' = Beaten(c)
  BY DEF update
<1> QED
  BY <1>4, <1>5, <1>6, <1>7, <1>8, <1>9

-----------------------------------------------------------------------------
(* What a step does to a slot                                               *)

\* The picture, the claim, and what has come of commands, unchanged
Painted(s, t) ==
  /\ t.pub = s.pub /\ t.width = s.width /\ t.canvas = s.canvas /\ t.drawn = s.drawn
  /\ t.dirty = s.dirty /\ t.blank = s.blank /\ t.latest = s.latest
Claimed(s, t) ==
  t.pub = s.pub /\ t.owner = s.owner /\ t.idle = s.idle /\ (t.silent => s.silent)
Obeyed(s, t) ==
  t.color = s.color /\ t.early = s.early /\ t.had_subscriber = s.had_subscriber

\* One field is set.
LEMMA SilentField ==
  ASSUME NEW s \in SlotRec, NEW b \in BOOLEAN
  PROVE  LET t == [s EXCEPT !.silent = b] IN
         /\ t \in SlotRec /\ t.owner = s.owner /\ t.silent = b /\ t.cmds = s.cmds
         /\ t.idle = s.idle /\ Painted(s, t) /\ Obeyed(s, t)
BY DEF SlotRec, Painted, Obeyed

LEMMA IdleField ==
  ASSUME NEW s \in SlotRec
  PROVE  LET t == [s EXCEPT !.idle = TRUE] IN
         /\ t \in SlotRec /\ t.owner = s.owner /\ t.silent = s.silent /\ t.cmds = s.cmds
         /\ t.idle /\ Painted(s, t) /\ Obeyed(s, t)
BY DEF SlotRec, Painted, Obeyed

LEMMA CmdsField ==
  ASSUME NEW s \in SlotRec, NEW q \in Seq(Commands)
  PROVE  LET t == [s EXCEPT !.cmds = q] IN
         t \in SlotRec /\ t.cmds = q /\ Claimed(s, t) /\ Painted(s, t) /\ Obeyed(s, t)
BY DEF SlotRec, Painted, Obeyed, Claimed

LEMMA GreetedFields ==
  ASSUME NEW s \in SlotRec, NEW color \in Colors
  PROVE  LET t == Greeted(s, color) IN
         /\ t \in SlotRec /\ t.cmds = s.cmds /\ t.early = s.early
         /\ t.pub = s.pub /\ t.owner = s.owner /\ t.silent = s.silent /\ (t.idle => s.idle)
         /\ t.width = s.width /\ t.canvas = s.canvas /\ t.drawn = s.drawn
         /\ (s.dirty => t.dirty) /\ t.blank = s.blank
         /\ t.had_subscriber = prod.has_sub \/ prod.has_sub \notin BOOLEAN
         /\ (s.had_subscriber \/ ~prod.has_sub => t.color = s.color)
BY DEF Greeted, SlotRec

\* The canvas has the size of the view, and is drawn or will be.
Good(s) == s.canvas = s.width /\ (s.dirty \/ s.drawn)

LEMMA ExecutedFields ==
  ASSUME NEW s \in SlotRec, NEW cmd \in Commands
  PROVE  LET t == Executed(s, cmd) IN
         /\ t \in SlotRec /\ t.cmds = s.cmds /\ Claimed(s, t)
         /\ t.had_subscriber = s.had_subscriber /\ t.blank = s.blank
         /\ (Good(s) => Good(t))
         /\ (cmd.type = "kSetUrl" => t.color = cmd.arg /\ t.early = ~s.had_subscriber)
         /\ (cmd.type # "kSetUrl" => t.color = s.color /\ t.early = s.early)
<1> DEFINE t == Executed(s, cmd)
<1>0. t \in SlotRec /\ t.cmds = s.cmds
  BY ExecutedType
<1>1. CASE cmd.type = "kSetUrl" /\ cmd.arg \in Colors
  <2>1. t = [s EXCEPT !.color = cmd.arg, !.dirty = TRUE, !.early = ~s.had_subscriber]
    BY <1>1 DEF Executed
  <2> HIDE DEF t
  <2> QED
    BY <1>0, <1>1, <2>1 DEF SlotRec, Claimed, Good, t
<1>2. CASE cmd.type = "kResize" /\ cmd.arg \in WindowSizes
  <2>1. CASE cmd.arg = 0 \/ Clamped(cmd.arg) = s.width
    <3>1. t = s
      BY <1>2, <2>1 DEF Executed, Resized
    <3> QED
      BY <1>0, <1>2, <3>1 DEF Claimed
  <2>2. CASE ~(cmd.arg = 0 \/ Clamped(cmd.arg) = s.width)
    <3> DEFINE w == Clamped(cmd.arg)
    <3>1. t = [s EXCEPT !.width = w, !.canvas = w, !.drawn = FALSE, !.dirty = TRUE]
      BY <1>2, <2>2 DEF Executed, Resized
    <3> HIDE DEF t, w
    <3> QED
      BY <1>0, <1>2, <3>1 DEF SlotRec, Claimed, Good, t
  <2> QED
    BY <2>1, <2>2
<1>3. CASE cmd.type = "kMouse" /\ cmd.arg = 0
  <2>1. t = s
    BY <1>3 DEF Executed
  <2> QED
    BY <1>0, <1>3, <2>1 DEF Claimed
<1> QED
  BY <1>1, <1>2, <1>3, CommandCases

LEMMA FinishedFields ==
  ASSUME NEW s \in SlotRec, NEW publishing \in BOOLEAN
  PROVE  LET t == IF publishing THEN Published(Regenerated(s)) ELSE Regenerated(s) IN
         /\ t \in SlotRec /\ t.cmds = s.cmds /\ Claimed(s, t) /\ Obeyed(s, t)
         /\ (Good(s) /\ ~s.blank => Good(t) /\ ~t.blank)
<1> DEFINE r == Regenerated(s)
<1>1. r \in SlotRec /\ r.cmds = s.cmds /\ Claimed(s, r) /\ Obeyed(s, r)
      /\ r.canvas = s.canvas /\ r.width = s.width /\ r.blank = s.blank
      /\ r.drawn = (s.drawn \/ s.dirty) /\ r.dirty = FALSE
  BY DEF Regenerated, SlotRec, Claimed, Obeyed
<1> HIDE DEF r
<1> DEFINE t == Published(r)
           b == ~r.drawn \/ r.canvas # r.width
<1>2. t \in SlotRec
  BY <1>1, FinishedType
<1>3. b \in BOOLEAN /\ t = [r EXCEPT !.latest = r.width, !.blank = b]
  BY DEF Published
<1> HIDE DEF b, t
<1>4. t.cmds = r.cmds /\ Claimed(r, t) /\ Obeyed(r, t) /\ t.canvas = r.canvas
      /\ t.width = r.width /\ t.drawn = r.drawn /\ t.dirty = r.dirty /\ t.blank = b
  BY <1>1, <1>3 DEF SlotRec, Claimed, Obeyed
<1>5. Good(s) => Good(r) /\ r.drawn
  BY <1>1 DEF Good, SlotRec
<1>6. Good(s) => Good(t) /\ ~t.blank
  BY <1>4, <1>5 DEF Good, b
<1>7. t.cmds = s.cmds /\ Claimed(s, t) /\ Obeyed(s, t)
  BY <1>1, <1>4 DEF Claimed, Obeyed
<1>8. CASE publishing
  BY <1>2, <1>6, <1>7, <1>8 DEF t, r
<1>9. CASE ~publishing
  BY <1>1, <1>5, <1>9 DEF r
<1> QED
  BY <1>8, <1>9

-----------------------------------------------------------------------------
(* What a step of the producer does                                         *)

\* slot[i] becomes t, and the slots keep their types.
Becoming(i, t) ==
  /\ slot' \in [Slots -> SlotRec] /\ \A j \in Slots : Len(slot'[j].cmds) <= RingCells
  /\ slot'[i] = t /\ \A j \in Slots : j # i => slot'[j] = slot[j]

\* The control channel afterwards
Control(owner, up, down) ==
  /\ ctl' \in CtlRec /\ Len(ctl'.up) <= ControlCells /\ Len(ctl'.down) <= ControlCells
  /\ ctl'.owner = owner /\ ctl'.up = up /\ ctl'.down = down
  /\ ctl'.silent => ctl.silent /\ owner \in {ctl.owner, "dead"}

LEMMA CtlSet ==
  ASSUME NEW owner \in Owners, owner \in {ctl.owner, "dead"}, NEW up \in Seq(Requests), NEW down \in Seq(Replies),
         Len(up) <= ControlCells, Len(down) <= ControlCells, TypeInv,
         ctl' = [ctl EXCEPT !.owner = owner, !.up = up, !.down = down]
  PROVE  Control(owner, up, down)
BY DEF Control, CtlRec, TypeInv

\* A request is answered; the answer is lost if there is no room for it.
LEMMA Answered ==
  ASSUME TypeInv, ctl.up # <<>>, NEW type \in {"kSlotAssigned", "kSlotUnavailable"},
         NEW i \in Slots, Answer(Reply(type, i))
  PROVE  \E r \in Replies :
           /\ r.type = type /\ r.index = i /\ r.from = ctl.up[1].from
           /\ Control(ctl.owner, Tail(ctl.up), IF Room(ctl.down, ControlCells)
                                               THEN Append(ctl.down, r) ELSE ctl.down)
<1> DEFINE r    == Reply(type, i)
           down == IF Room(ctl.down, ControlCells) THEN Append(ctl.down, r) ELSE ctl.down
           up   == Tail(ctl.up)
<1>1. ctl.owner \in Owners /\ ctl.up \in Seq(Requests) /\ ctl.down \in Seq(Replies)
      /\ Len(ctl.down) <= ControlCells /\ Len(ctl.up) <= ControlCells
  BY FieldTypes DEF TypeInv
<1>2. Head(ctl.up) = ctl.up[1] /\ ctl.up[1] \in Requests /\ up \in Seq(Requests)
      /\ Len(up) = Len(ctl.up) - 1 /\ Len(ctl.up) \in Nat
  BY <1>1, TailFacts
<1>3. r \in Replies /\ r.type = type /\ r.index = i /\ r.from = ctl.up[1].from
  BY <1>2 DEF Reply, Replies, Requests
<1>4. ctl' = [ctl EXCEPT !.up = up, !.down = down]
  BY DEF Answer
<1> HIDE DEF r, up
<1>5. down \in Seq(Replies) /\ Len(down) <= ControlCells
  BY <1>1, <1>3, AppendFacts, ConstantTypes DEF Room
<1>6. Len(up) <= ControlCells
  BY <1>1, <1>2, ConstantTypes
<1> HIDE DEF down
<1>7. ctl' = [ctl EXCEPT !.owner = ctl.owner, !.up = up, !.down = down]
  BY <1>4 DEF TypeInv, CtlRec
<1>8. Control(ctl.owner, up, down)
  BY <1>1, <1>2, <1>5, <1>6, <1>7, CtlSet
<1> QED
  BY <1>3, <1>8 DEF up, down

Serves ==
  \E r \in Replies :
    /\ r.from = ctl.up[1].from /\ ctl.up # <<>>
    /\ Control(ctl.owner, Tail(ctl.up), IF Room(ctl.down, ControlCells)
                                        THEN Append(ctl.down, r) ELSE ctl.down)
    /\ \/ /\ r.type = "kSlotAssigned"
          /\ ~slot[r.index].pub /\ Becoming(r.index, allocate_slot)
       \/ r.type = "kSlotUnavailable" /\ UNCHANGED slot

LEMMA ServeEffect ==
  ASSUME TypeInv, serve_request
  PROVE  Serves /\ UNCHANGED <<prod, con, abandoned>> /\ prod.pc = "control"
<1>0. ctl.up # <<>> /\ 0 \in Slots /\ UNCHANGED <<prod, con, abandoned>> /\ prod.pc = "control"
  BY ConstantTypes DEF serve_request
<1>1. CASE \E i \in Slots : /\ free_index(i) /\ slot' = [slot EXCEPT ![i] = allocate_slot]
                            /\ Answer(Reply("kSlotAssigned", i))
  <2>1. PICK i \in Slots : /\ free_index(i) /\ slot' = [slot EXCEPT ![i] = allocate_slot]
                           /\ Answer(Reply("kSlotAssigned", i))
    BY <1>1
  <2>2. ~slot[i].pub
    BY <2>1 DEF free_index, FreeIndexes
  <2>3. Len(allocate_slot.cmds) <= RingCells /\ allocate_slot \in SlotRec
    BY Constructed, ConstantTypes
  <2>4. Becoming(i, allocate_slot)
    BY <2>1, <2>3, SlotSet DEF Becoming
  <2>5. PICK r \in Replies :
           /\ r.type = "kSlotAssigned" /\ r.index = i /\ r.from = ctl.up[1].from
           /\ Control(ctl.owner, Tail(ctl.up), IF Room(ctl.down, ControlCells)
                                               THEN Append(ctl.down, r) ELSE ctl.down)
    BY <1>0, <2>1, Answered
  <2> QED
    BY <1>0, <2>2, <2>4, <2>5 DEF Serves
<1>2. CASE Answer(Reply("kSlotUnavailable", 0)) /\ UNCHANGED slot
  <2>1. PICK r \in Replies :
           /\ r.type = "kSlotUnavailable" /\ r.index = 0 /\ r.from = ctl.up[1].from
           /\ Control(ctl.owner, Tail(ctl.up), IF Room(ctl.down, ControlCells)
                                               THEN Append(ctl.down, r) ELSE ctl.down)
    BY <1>0, <1>2, Answered
  <2> QED
    BY <1>0, <1>2, <2>1 DEF Serves
<1> QED
  BY <1>1, <1>2 DEF serve_request

\* Where the producer's loop goes
Loops(pc, i, has_sub) ==
  prod' \in ProdRec /\ prod'.pc = pc /\ prod'.i = i /\ prod'.has_sub = has_sub

LEMMA LoopEffect ==
  ASSUME TypeInv
  PROVE  /\ control_drained => /\ Loops("look", 0, prod.has_sub)
                               /\ UNCHANGED <<ctl, slot, con, abandoned>>
         /\ look => /\ UNCHANGED <<ctl, slot, con, abandoned>>
                    /\ \/ slot[prod.i].pub /\ Loops("attend", prod.i, slot[prod.i].owner # "nobody")
                       \/ prod' = NextSlot
         /\ reclaim => /\ UNCHANGED <<ctl, abandoned>> /\ Reclaimable(slot[prod.i])
                       /\ prod.pc = "attend" /\ prod' = NextSlot /\ Becoming(prod.i, FreeSlot)
                       /\ con' \in [Consumers -> ConRec]
                       /\ \A c \in Consumers :
                            /\ con'[c].attached = (con[c].attached /\ con[c].index # prod.i)
                            /\ con'[c].pc = con[c].pc /\ con'[c].index = con[c].index
                            /\ con'[c].mine = con[c].mine /\ con'[c].url = con[c].url
                            /\ con'[c].texture = con[c].texture /\ con'[c].have = con[c].have
         /\ attend => /\ UNCHANGED <<ctl, con, abandoned>> /\ ~Reclaimable(slot[prod.i])
                      /\ prod.pc = "attend" /\ Loops("drain", prod.i, prod.has_sub)
                      /\ \E color \in Colors : Becoming(prod.i, Greeted(slot[prod.i], color))
<1>0. prod \in ProdRec /\ prod.i \in Slots /\ 0 \in Slots /\ slot[prod.i] \in SlotRec
      /\ Len(slot[prod.i].cmds) <= RingCells
  BY FieldTypes, ConstantTypes DEF TypeInv
<1>1. ASSUME control_drained
      PROVE  Loops("look", 0, prod.has_sub) /\ UNCHANGED <<ctl, slot, con, abandoned>>
  BY <1>0, <1>1 DEF control_drained, Loops, ProdRec
<1>2. ASSUME look
      PROVE  /\ UNCHANGED <<ctl, slot, con, abandoned>>
             /\ \/ slot[prod.i].pub /\ Loops("attend", prod.i, slot[prod.i].owner # "nobody")
                \/ prod' = NextSlot
  <2>1. CASE slot[prod.i].pub
    <3> DEFINE b == slot[prod.i].owner # "nobody"
    <3>1. prod' = [prod EXCEPT !.pc = "attend", !.has_sub = b] /\ b \in BOOLEAN
      BY <1>2, <2>1 DEF look
    <3> HIDE DEF b
    <3>2. Loops("attend", prod.i, b)
      BY <1>0, <3>1 DEF Loops, ProdRec
    <3> QED
      BY <1>2, <2>1, <3>2 DEF look, b
  <2>2. CASE ~slot[prod.i].pub
    BY <1>2, <2>2 DEF look
  <2> QED
    BY <2>1, <2>2
<1>3. ASSUME reclaim
      PROVE  /\ UNCHANGED <<ctl, abandoned>> /\ Reclaimable(slot[prod.i])
             /\ prod.pc = "attend" /\ prod' = NextSlot /\ Becoming(prod.i, FreeSlot)
             /\ con' \in [Consumers -> ConRec]
             /\ \A c \in Consumers :
                  /\ con'[c].attached = (con[c].attached /\ con[c].index # prod.i)
                  /\ con'[c].pc = con[c].pc /\ con'[c].index = con[c].index
                  /\ con'[c].mine = con[c].mine /\ con'[c].url = con[c].url
                  /\ con'[c].texture = con[c].texture /\ con'[c].have = con[c].have
  <2>1. /\ UNCHANGED <<ctl, abandoned>> /\ Reclaimable(slot[prod.i])
        /\ prod.pc = "attend" /\ prod' = NextSlot
    BY <1>3 DEF reclaim, free_slot
  <2>2. slot' = [slot EXCEPT ![prod.i] = FreeSlot] /\ FreeSlot \in SlotRec
        /\ Len(FreeSlot.cmds) <= RingCells
    BY <1>3, Constructed, ConstantTypes DEF reclaim, free_slot
  <2>3. Becoming(prod.i, FreeSlot)
    BY <1>0, <2>2, SlotSet DEF Becoming
  <2>4. con' = [c \in Consumers |->
                  [con[c] EXCEPT !.attached = (con[c].attached /\ con[c].index # prod.i)]]
    BY <1>3 DEF reclaim, free_slot
  <2>5. ASSUME NEW c \in Consumers
        PROVE  /\ con'[c] \in ConRec
               /\ con'[c].attached = (con[c].attached /\ con[c].index # prod.i)
               /\ con'[c].pc = con[c].pc /\ con'[c].index = con[c].index
               /\ con'[c].mine = con[c].mine /\ con'[c].url = con[c].url
               /\ con'[c].texture = con[c].texture /\ con'[c].have = con[c].have
    <3> DEFINE b  == con[c].attached /\ con[c].index # prod.i
               me == con[c]
    <3>1. con'[c] = [me EXCEPT !.attached = b] /\ me \in ConRec /\ b \in BOOLEAN
      BY <2>4, FieldTypes
    <3> HIDE DEF b, me
    <3>2. /\ con'[c] \in ConRec /\ con'[c].attached = b
          /\ con'[c].pc = me.pc /\ con'[c].index = me.index
          /\ con'[c].mine = me.mine /\ con'[c].url = me.url
          /\ con'[c].texture = me.texture /\ con'[c].have = me.have
      BY <3>1 DEF ConRec
    <3> QED
      BY <3>2 DEF b, me
  <2>6. con' \in [Consumers -> ConRec]
    BY <2>4, <2>5
  <2> QED
    BY <2>1, <2>3, <2>5, <2>6
<1>4. ASSUME attend
      PROVE  /\ UNCHANGED <<ctl, con, abandoned>> /\ ~Reclaimable(slot[prod.i])
             /\ prod.pc = "attend" /\ Loops("drain", prod.i, prod.has_sub)
             /\ \E color \in Colors : Becoming(prod.i, Greeted(slot[prod.i], color))
  <2>1. PICK color \in Colors : slot' = [slot EXCEPT ![prod.i] = Greeted(slot[prod.i], color)]
    BY <1>4 DEF attend
  <2>2. /\ Greeted(slot[prod.i], color) \in SlotRec
        /\ Len(Greeted(slot[prod.i], color).cmds) <= RingCells
    BY <1>0, GreetedType
  <2>3. Becoming(prod.i, Greeted(slot[prod.i], color))
    BY <1>0, <2>1, <2>2, SlotSet DEF Becoming
  <2>4. Loops("drain", prod.i, prod.has_sub)
    BY <1>0, <1>4 DEF attend, Loops, ProdRec
  <2> QED
    BY <1>4, <2>3, <2>4 DEF attend
<1> QED
  BY <1>1, <1>2, <1>3, <1>4

\* One command leaves the ring and is carried out.
LEMMA DrainEffect ==
  ASSUME TypeInv
  PROVE  /\ execute => /\ UNCHANGED <<ctl, prod, con, abandoned>> /\ prod.pc = "drain"
                       /\ slot[prod.i].cmds # <<>>
                       /\ \E t \in SlotRec :
                            /\ Becoming(prod.i, [t EXCEPT !.cmds = Tail(slot[prod.i].cmds)])
                            /\ t = Executed(slot[prod.i], slot[prod.i].cmds[1])
         /\ \A publishing \in BOOLEAN : finish(publishing) =>
              /\ UNCHANGED <<ctl, con, abandoned>> /\ prod.pc = "drain"
              /\ slot[prod.i].cmds = <<>> /\ prod' = NextSlot
              /\ Becoming(prod.i, IF publishing THEN Published(Regenerated(slot[prod.i]))
                                  ELSE Regenerated(slot[prod.i]))
<1>0. prod.i \in Slots /\ slot[prod.i] \in SlotRec /\ slot[prod.i].cmds \in Seq(Commands)
      /\ Len(slot[prod.i].cmds) <= RingCells
  BY FieldTypes
<1>1. ASSUME execute
      PROVE  /\ UNCHANGED <<ctl, prod, con, abandoned>> /\ prod.pc = "drain"
             /\ slot[prod.i].cmds # <<>>
             /\ \E t \in SlotRec :
                  /\ Becoming(prod.i, [t EXCEPT !.cmds = Tail(slot[prod.i].cmds)])
                  /\ t = Executed(slot[prod.i], slot[prod.i].cmds[1])
  <2> DEFINE q == slot[prod.i].cmds
             t == Executed(slot[prod.i], q[1])
             u == [t EXCEPT !.cmds = Tail(q)]
  <2>1. UNCHANGED <<ctl, prod, con, abandoned>> /\ prod.pc = "drain" /\ q # <<>>
    BY <1>1 DEF execute
  <2>2. q[1] \in Commands /\ Head(q) = q[1] /\ Tail(q) \in Seq(Commands)
        /\ Len(Tail(q)) <= RingCells
    BY <1>0, <2>1, TailFacts, ConstantTypes
  <2>3. slot' = [slot EXCEPT ![prod.i] = u]
    BY <1>1, <2>2 DEF execute
  <2>4. t \in SlotRec
    BY <1>0, <2>2, ExecutedType
  <2> HIDE DEF t, q
  <2>5. u \in SlotRec /\ u.cmds = Tail(q)
    BY <2>2, <2>4, CmdsField
  <2> HIDE DEF u
  <2>6. Becoming(prod.i, u)
    BY <1>0, <2>2, <2>3, <2>5, SlotSet DEF Becoming
  <2> QED
    BY <2>1, <2>4, <2>6 DEF u, t, q
<1>2. ASSUME NEW publishing \in BOOLEAN, finish(publishing)
      PROVE  /\ UNCHANGED <<ctl, con, abandoned>> /\ prod.pc = "drain"
             /\ slot[prod.i].cmds = <<>> /\ prod' = NextSlot
             /\ Becoming(prod.i, IF publishing THEN Published(Regenerated(slot[prod.i]))
                                 ELSE Regenerated(slot[prod.i]))
  <2> DEFINE s == slot[prod.i]
             t == IF publishing THEN Published(Regenerated(s)) ELSE Regenerated(s)
  <2>1. t \in SlotRec /\ t.cmds = s.cmds
    BY <1>0, FinishedFields
  <2>2. slot' = [slot EXCEPT ![prod.i] = t]
    BY <1>2 DEF finish
  <2> HIDE DEF t
  <2>3. Becoming(prod.i, t)
    BY <1>0, <2>1, <2>2, SlotSet DEF Becoming
  <2> QED
    BY <1>2, <2>3 DEF finish, t
<1> QED
  BY <1>1, <1>2

-----------------------------------------------------------------------------
(* What a step of a consumer, or of time, does                              *)

\* The claim of a slot changes, or nothing of it.  Nobody but a dead owner is
\* made silent by that.
Reowned(i, o) ==
  \/ slot'[i] = slot[i] /\ o = slot[i].owner
  \/ /\ slot'[i].owner = o /\ slot'[i].idle = slot[i].idle /\ slot'[i].cmds = slot[i].cmds
     /\ slot'[i].silent => slot[i].silent /\ o = "dead"
     /\ Painted(slot[i], slot'[i]) /\ Obeyed(slot[i], slot'[i])

SlotsTyped == slot' \in [Slots -> SlotRec] /\ \A j \in Slots : Len(slot'[j].cmds) <= RingCells

LEMMA Reown ==
  ASSUME TypeInv, NEW i \in Slots, NEW c \in Consumers,
         slot' = [slot EXCEPT ![i] = ClaimedBy(c, slot[i])]
  PROVE  SlotsTyped /\ Reowned(i, c) /\ \A j \in Slots : j # i => slot'[j] = slot[j]
<1> DEFINE t == [slot[i] EXCEPT !.owner = c, !.silent = FALSE]
<1>1. slot' = [slot EXCEPT ![i] = t] /\ slot[i] \in SlotRec /\ Len(slot[i].cmds) <= RingCells
  BY FieldTypes DEF TypeInv, ClaimedBy
<1>a. c \in Owners /\ FALSE \in BOOLEAN /\ t = [slot[i] EXCEPT !.owner = c, !.silent = FALSE]
  BY ConstantTypes
<1> HIDE DEF t
<1>2. t \in SlotRec /\ t.owner = c /\ t.silent = FALSE /\ t.cmds = slot[i].cmds
      /\ t.idle = slot[i].idle /\ Painted(slot[i], t) /\ Obeyed(slot[i], t)
  BY <1>1, <1>a DEF SlotRec, Painted, Obeyed
<1> QED
  BY <1>1, <1>2, SlotSet DEF SlotsTyped, Reowned

\* Nothing but the control channel
LEMMA ControlEffect ==
  ASSUME TypeInv, NEW c \in Consumers
  PROVE  /\ claim(c) => Claimable(ctl) /\ Control(c, ctl.up, ctl.down)
         /\ request(c) =>
              \/ \E r \in Requests : /\ r.from = c /\ Sends(c)
                                     /\ Control(ctl.owner, Append(ctl.up, r), ctl.down)
              \/ ~Sends(c) /\ \E o \in {"nobody", ctl.owner} : Control(o, ctl.up, ctl.down)
         /\ await_reply(c) => Control(ctl.owner, ctl.up, ctl.down)
         /\ take_reply(c) => ctl.down # <<>> /\ Control("nobody", ctl.up, Tail(ctl.down))
         /\ timeout(c) => \E o \in {"nobody", ctl.owner} : Control(o, ctl.up, ctl.down)
         /\ crash(c) => Control(IF ctl.owner = c THEN "dead" ELSE ctl.owner, ctl.up, ctl.down)
<1>0. ctl \in CtlRec /\ ctl.owner \in Owners /\ ctl.silent \in BOOLEAN
      /\ ctl.up \in Seq(Requests) /\ ctl.down \in Seq(Replies)
      /\ Len(ctl.up) <= ControlCells /\ Len(ctl.down) <= ControlCells
      /\ {"nobody", "dead", c} \subseteq Owners
  BY FieldTypes, ConstantTypes DEF TypeInv
<1>1. ASSUME NEW o \in Owners, ctl' = [ctl EXCEPT !.owner = o, !.silent = FALSE]
      PROVE  Control(o, ctl.up, ctl.down)
  BY <1>0, <1>1 DEF Control, CtlRec
<1>2. claim(c) => Claimable(ctl) /\ Control(c, ctl.up, ctl.down)
  BY <1>0, <1>1 DEF claim, ClaimedBy
<1>3. ASSUME request(c), Sends(c)
      PROVE  \E r \in Requests : r.from = c /\ Control(ctl.owner, Append(ctl.up, r), ctl.down)
  <2> DEFINE r  == [id |-> 1, from |-> c]
             up == Append(ctl.up, r)
  <2>1. r \in Requests /\ r.from = c
    BY DEF Requests
  <2>2. ctl' = [ctl EXCEPT !.up = up, !.silent = FALSE]
    BY <1>3 DEF request, Sends
  <2> HIDE DEF r
  <2>3. up \in Seq(Requests) /\ Len(up) <= ControlCells
    BY <1>0, <1>3, <2>1, AppendFacts, ConstantTypes DEF Room, Sends
  <2> HIDE DEF up
  <2>4. Control(ctl.owner, up, ctl.down)
    BY <1>0, <2>2, <2>3 DEF Control, CtlRec
  <2> QED
    BY <2>1, <2>4 DEF up
<1>4. ASSUME ctl' = Released(c)
      PROVE  \E o \in {"nobody", ctl.owner} : Control(o, ctl.up, ctl.down)
  <2>1. CASE ctl.owner = c
    <3>1. Control("nobody", ctl.up, ctl.down)
      BY <1>0, <1>1, <1>4, <2>1 DEF Released
    <3> QED
      BY <3>1
  <2>2. CASE ctl.owner # c
    <3>1. ctl' = ctl
      BY <1>4, <2>2 DEF Released
    <3>2. Control(ctl.owner, ctl.up, ctl.down)
      BY <1>0, <3>1 DEF Control
    <3> QED
      BY <3>2
  <2> QED
    BY <2>1, <2>2
<1>5. ASSUME take_reply(c)
      PROVE  ctl.down # <<>> /\ Control("nobody", ctl.up, Tail(ctl.down))
  <2> DEFINE down == Tail(ctl.down)
  <2>1. ctl.down # <<>> /\ ctl' = [ctl EXCEPT !.down = down, !.owner = "nobody", !.silent = FALSE]
    BY <1>5 DEF take_reply
  <2>2. down \in Seq(Replies) /\ Len(down) <= ControlCells
    BY <1>0, <2>1, TailFacts, ConstantTypes
  <2> HIDE DEF down
  <2>3. Control("nobody", ctl.up, down)
    BY <1>0, <2>1, <2>2 DEF Control, CtlRec
  <2> QED
    BY <2>1, <2>3 DEF down
<1>6. timeout(c) => \E o \in {"nobody", ctl.owner} : Control(o, ctl.up, ctl.down)
  BY <1>4 DEF timeout
<1>7. ASSUME crash(c)
      PROVE  Control(IF ctl.owner = c THEN "dead" ELSE ctl.owner, ctl.up, ctl.down)
  <2> DEFINE o == IF ctl.owner = c THEN "dead" ELSE ctl.owner
  <2>1. o \in Owners /\ ctl' = [ctl EXCEPT !.owner = o] /\ o \in {ctl.owner, "dead"}
    BY <1>0, <1>7 DEF crash
  <2> HIDE DEF o
  <2>2. Control(o, ctl.up, ctl.down)
    BY <1>0, <2>1 DEF Control, CtlRec
  <2> QED
    BY <2>2 DEF o
<1>8. request(c) => \/ \E r \in Requests : /\ r.from = c /\ Sends(c)
                                           /\ Control(ctl.owner, Append(ctl.up, r), ctl.down)
                    \/ ~Sends(c) /\ \E o \in {"nobody", ctl.owner} : Control(o, ctl.up, ctl.down)
  <2>1. request(c) /\ ~Sends(c) => ctl' = Released(c)
    BY DEF request, Sends
  <2> QED
    BY <1>3, <1>4, <2>1
<1>9. await_reply(c) => Control(ctl.owner, ctl.up, ctl.down)
  BY <1>0 DEF await_reply, Control, CtlRec
<1> QED
  BY <1>2, <1>5, <1>6, <1>7, <1>8, <1>9

LEMMA OwnerEffect ==
  ASSUME TypeInv, NEW c \in Consumers
  PROVE  /\ open_view(c) =>
              \/ /\ slot[con[c].index].pub /\ Claimable(slot[con[c].index])
                 /\ SlotsTyped /\ Reowned(con[c].index, c)
                 /\ \A j \in Slots : j # con[c].index => slot'[j] = slot[j]
              \/ /\ ~(slot[con[c].index].pub /\ Claimable(slot[con[c].index]))
                 /\ UNCHANGED slot
         /\ reattach(c) =>
              /\ SlotsTyped /\ \A j \in Slots : j # con[c].index => slot'[j] = slot[j]
              /\ \/ Claimable(slot[con[c].index]) /\ Reowned(con[c].index, c)
                 \/ /\ ~Claimable(slot[con[c].index])
                    /\ slot'[con[c].index] = slot[con[c].index]
         /\ close(c) \/ crash(c) =>
              /\ SlotsTyped
              /\ \E o \in {"nobody", "dead"} : \A j \in Slots :
                   IF con[c].attached /\ slot[j].owner = c THEN Reowned(j, o)
                                                           ELSE slot'[j] = slot[j]
<1>0. con[c].index \in Slots /\ {"nobody", "dead", c} \subseteq Owners
      /\ slot \in [Slots -> SlotRec] /\ \A j \in Slots : Len(slot[j].cmds) <= RingCells
  BY FieldTypes, ConstantTypes DEF TypeInv
<1>1. open_view(c) =>
        \/ /\ slot[con[c].index].pub /\ Claimable(slot[con[c].index])
           /\ SlotsTyped /\ Reowned(con[c].index, c)
           /\ \A j \in Slots : j # con[c].index => slot'[j] = slot[j]
        \/ /\ ~(slot[con[c].index].pub /\ Claimable(slot[con[c].index]))
           /\ UNCHANGED slot
  BY <1>0, Reown DEF open_view
<1>2. ASSUME reattach(c)
      PROVE  /\ SlotsTyped /\ \A j \in Slots : j # con[c].index => slot'[j] = slot[j]
             /\ \/ Claimable(slot[con[c].index]) /\ Reowned(con[c].index, c)
                \/ /\ ~Claimable(slot[con[c].index])
                   /\ slot'[con[c].index] = slot[con[c].index]
  <2> DEFINE i == con[c].index
  <2>1. slot' = [slot EXCEPT ![i] = IF Claimable(slot[i]) THEN ClaimedBy(c, slot[i]) ELSE slot[i]]
    BY <1>2 DEF reattach
  <2> HIDE DEF i
  <2>2. i \in Slots
    BY <1>0 DEF i
  <2>3. CASE Claimable(slot[i])
    <3>1. slot' = [slot EXCEPT ![i] = ClaimedBy(c, slot[i])]
      BY <2>1, <2>3
    <3> QED
      BY <1>0, <2>2, <2>3, <3>1, Reown DEF i
  <2>4. CASE ~Claimable(slot[i])
    <3>1. slot' = slot
      BY <1>0, <2>1, <2>2, <2>4
    <3> QED
      BY <1>0, <2>4, <3>1 DEF i, SlotsTyped
  <2> QED
    BY <2>3, <2>4
<1>3. ASSUME NEW o \in {"nobody", "dead"}, slot' = Disowned(c, o)
      PROVE  /\ SlotsTyped
             /\ \A j \in Slots : IF con[c].attached /\ slot[j].owner = c THEN Reowned(j, o)
                                                                         ELSE slot'[j] = slot[j]
  <2>1. ASSUME NEW j \in Slots
        PROVE  /\ slot'[j] \in SlotRec /\ Len(slot'[j].cmds) <= RingCells
               /\ IF con[c].attached /\ slot[j].owner = c THEN Reowned(j, o)
                                                          ELSE slot'[j] = slot[j]
    <3>1. slot[j] \in SlotRec /\ Len(slot[j].cmds) <= RingCells /\ o \in Owners
      BY <1>0, <1>3, <2>1
    <3>2. CASE con[c].attached /\ slot[j].owner = c
      <4> DEFINE b == slot[j].silent /\ o = "dead"
                 t == [slot[j] EXCEPT !.owner = o, !.silent = b]
      <4>1. slot'[j] = t
        BY <1>3, <2>1, <3>2 DEF Disowned
      <4>2. b \in BOOLEAN /\ (b => slot[j].silent /\ o = "dead")
        OBVIOUS
      <4> HIDE DEF b
      <4>3. t \in SlotRec /\ t.owner = o /\ t.silent = b /\ t.cmds = slot[j].cmds
            /\ t.idle = slot[j].idle /\ Painted(slot[j], t) /\ Obeyed(slot[j], t)
        <5>1. slot[j] \in SlotRec /\ o \in Owners /\ b \in BOOLEAN
              /\ t = [slot[j] EXCEPT !.owner = o, !.silent = b]
          BY <3>1, <4>2
        <5> HIDE DEF t
        <5> QED
          BY <5>1 DEF SlotRec, Painted, Obeyed
      <4> HIDE DEF t
      <4> QED
        BY <3>1, <3>2, <4>1, <4>2, <4>3 DEF Reowned
    <3>3. CASE ~(con[c].attached /\ slot[j].owner = c)
      BY <1>3, <2>1, <3>1, <3>3 DEF Disowned
    <3> QED
      BY <3>2, <3>3
  <2>2. slot' \in [Slots -> SlotRec]
    BY <1>3, <2>1 DEF Disowned
  <2> QED
    BY <2>1, <2>2 DEF SlotsTyped
<1>4. close(c) \/ crash(c) =>
        /\ SlotsTyped
        /\ \E o \in {"nobody", "dead"} : \A j \in Slots :
             IF con[c].attached /\ slot[j].owner = c THEN Reowned(j, o) ELSE slot'[j] = slot[j]
  BY <1>3 DEF close, crash
<1> QED
  BY <1>1, <1>2, <1>4

\* A window that ends concerns nothing else.
LEMMA TimeEffect ==
  ASSUME TypeInv
  PROVE  /\ control_owner_goes_stale =>
              /\ ctl' \in CtlRec /\ Len(ctl'.up) <= ControlCells /\ Len(ctl'.down) <= ControlCells
              /\ ctl'.owner = ctl.owner /\ ctl'.up = ctl.up /\ ctl'.down = ctl.down
         /\ \A i \in Slots : owner_goes_stale(i) \/ grace_elapses(i) =>
              /\ SlotsTyped /\ \A j \in Slots : j # i => slot'[j] = slot[j]
              /\ slot'[i].owner = slot[i].owner /\ slot'[i].cmds = slot[i].cmds
              /\ Painted(slot[i], slot'[i]) /\ Obeyed(slot[i], slot'[i])
         /\ \A i \in Slots : owner_goes_stale(i) => slot'[i].idle = slot[i].idle
         /\ \A i \in Slots : grace_elapses(i) =>
              slot[i].owner = "nobody" /\ slot'[i].silent = slot[i].silent
<1>0. slot \in [Slots -> SlotRec] /\ \A j \in Slots : Len(slot[j].cmds) <= RingCells
  BY DEF TypeInv
<1>1. ASSUME NEW i \in Slots, owner_goes_stale(i)
      PROVE  /\ SlotsTyped /\ \A j \in Slots : j # i => slot'[j] = slot[j]
             /\ slot'[i].owner = slot[i].owner /\ slot'[i].cmds = slot[i].cmds
             /\ Painted(slot[i], slot'[i]) /\ Obeyed(slot[i], slot'[i])
             /\ slot'[i].idle = slot[i].idle
  <2> DEFINE t == [slot[i] EXCEPT !.silent = TRUE]
  <2>1. slot' = [slot EXCEPT ![i] = t] /\ slot[i] \in SlotRec /\ Len(slot[i].cmds) <= RingCells
    BY <1>0, <1>1 DEF owner_goes_stale
  <2>2. t \in SlotRec /\ t.owner = slot[i].owner /\ t.cmds = slot[i].cmds
        /\ t.idle = slot[i].idle /\ Painted(slot[i], t) /\ Obeyed(slot[i], t)
    BY <2>1, SilentField
  <2> HIDE DEF t
  <2> QED
    BY <2>1, <2>2, SlotSet DEF SlotsTyped
<1>2. ASSUME NEW i \in Slots, grace_elapses(i)
      PROVE  /\ SlotsTyped /\ \A j \in Slots : j # i => slot'[j] = slot[j]
             /\ slot'[i].owner = slot[i].owner /\ slot'[i].cmds = slot[i].cmds
             /\ Painted(slot[i], slot'[i]) /\ Obeyed(slot[i], slot'[i])
             /\ slot[i].owner = "nobody" /\ slot'[i].silent = slot[i].silent
  <2> DEFINE t == [slot[i] EXCEPT !.idle = TRUE]
  <2>1. slot' = [slot EXCEPT ![i] = t] /\ slot[i] \in SlotRec /\ Len(slot[i].cmds) <= RingCells
        /\ slot[i].owner = "nobody"
    BY <1>0, <1>2 DEF grace_elapses
  <2>2. t \in SlotRec /\ t.owner = slot[i].owner /\ t.cmds = slot[i].cmds
        /\ t.silent = slot[i].silent /\ Painted(slot[i], t) /\ Obeyed(slot[i], t)
    BY <2>1, IdleField
  <2> HIDE DEF t
  <2> QED
    BY <2>1, <2>2, SlotSet DEF SlotsTyped
<1>3. ASSUME control_owner_goes_stale
      PROVE  /\ ctl' \in CtlRec /\ Len(ctl'.up) <= ControlCells /\ Len(ctl'.down) <= ControlCells
             /\ ctl'.owner = ctl.owner /\ ctl'.up = ctl.up /\ ctl'.down = ctl.down
  BY <1>3 DEF control_owner_goes_stale, TypeInv, CtlRec
<1> QED
  BY <1>1, <1>2, <1>3

\* A heartbeat
LEMMA BeatenEffect ==
  ASSUME TypeInv, NEW c \in Consumers
  PROVE  /\ Beaten(c) \in [Slots -> SlotRec]
         /\ \A j \in Slots :
              /\ Beaten(c)[j].cmds = slot[j].cmds /\ Claimed(slot[j], Beaten(c)[j])
              /\ Painted(slot[j], Beaten(c)[j]) /\ Obeyed(slot[j], Beaten(c)[j])
         /\ \A j \in Slots : j # con[c].index => Beaten(c)[j] = slot[j]
<1> DEFINE i == con[c].index
           t == [slot[i] EXCEPT !.silent = FALSE]
<1>0. i \in Slots /\ slot[i] \in SlotRec /\ slot \in [Slots -> SlotRec]
  BY FieldTypes DEF TypeInv
<1>1. \A s : Claimed(s, s) /\ Painted(s, s) /\ Obeyed(s, s)
  BY DEF Claimed, Painted, Obeyed
<1>2. t \in SlotRec /\ t.cmds = slot[i].cmds /\ Claimed(slot[i], t) /\ Painted(slot[i], t)
      /\ Obeyed(slot[i], t)
  BY <1>0, SilentField DEF Claimed, Painted
<1>3. Beaten(c) = [slot EXCEPT ![i] = t] \/ Beaten(c) = slot
  BY DEF Beaten
<1> HIDE DEF t, i
<1> QED
  BY <1>0, <1>1, <1>2, <1>3 DEF i

\* A command that is accepted joins the ring, and does nothing else yet.
LEMMA SendEffect ==
  ASSUME TypeInv, NEW c \in Consumers, NEW cmd \in Commands, slot' = Sent(c, cmd)
  PROVE  /\ SlotsTyped
         /\ \A j \in Slots : /\ Claimed(slot[j], slot'[j]) /\ Painted(slot[j], slot'[j])
                             /\ Obeyed(slot[j], slot'[j])
         /\ Accepted(c) => slot'[con[c].index].cmds = Append(slot[con[c].index].cmds, cmd)
         /\ ~Accepted(c) => slot'[con[c].index].cmds = slot[con[c].index].cmds
         /\ \A j \in Slots : j # con[c].index => slot'[j] = slot[j]
<1> DEFINE i == con[c].index
           B == Beaten(c)
           q == Append(slot[i].cmds, cmd)
           t == [B[i] EXCEPT !.cmds = q]
<1>1. i \in Slots /\ slot[i].cmds \in Seq(Commands)
      /\ \A j \in Slots : Len(slot[j].cmds) <= RingCells
  BY FieldTypes
<1>2. /\ B \in [Slots -> SlotRec]
      /\ \A j \in Slots : /\ B[j].cmds = slot[j].cmds /\ Claimed(slot[j], B[j])
                          /\ Painted(slot[j], B[j]) /\ Obeyed(slot[j], B[j])
      /\ \A j \in Slots : j # i => B[j] = slot[j]
  BY BeatenEffect
<1>3. q \in Seq(Commands) /\ Len(q) = Len(slot[i].cmds) + 1
  BY <1>1, AppendFacts
<1>4. Accepted(c) => Len(q) <= RingCells
  BY <1>1, <1>3, ConstantTypes DEF Accepted, Room
<1>5. slot' = IF Accepted(c) THEN [B EXCEPT ![i] = t] ELSE B
  <2>1. Accepted(c) => slot' = [B EXCEPT ![i] = [B[i] EXCEPT !.cmds = Append(B[i].cmds, cmd)]]
    BY DEF Sent
  <2>2. B[i].cmds = slot[i].cmds
    BY <1>1, <1>2
  <2>3. ~Accepted(c) => slot' = B
    BY DEF Sent
  <2> HIDE DEF B
  <2> QED
    BY <2>1, <2>2, <2>3
<1> HIDE DEF q, B
<1>6. t \in SlotRec /\ t.cmds = q /\ Claimed(B[i], t) /\ Painted(B[i], t) /\ Obeyed(B[i], t)
  BY <1>1, <1>2, <1>3, CmdsField
<1>7. Claimed(slot[i], t) /\ Painted(slot[i], t) /\ Obeyed(slot[i], t)
  BY <1>1, <1>2, <1>6 DEF Claimed, Painted, Obeyed
<1> HIDE DEF t, i
<1>8. CASE Accepted(c)
  BY <1>1, <1>2, <1>4, <1>5, <1>6, <1>7, <1>8 DEF i, q, SlotsTyped
<1>9. CASE ~Accepted(c)
  BY <1>1, <1>2, <1>5, <1>9 DEF i, SlotsTyped
<1> QED
  BY <1>8, <1>9

-----------------------------------------------------------------------------
(* The types are kept                                                       *)

LEMMA SentCommands ==
  /\ \A color \in Urls : [type |-> "kSetUrl", arg |-> color] \in Commands
  /\ \A w \in WindowSizes : [type |-> "kResize", arg |-> w] \in Commands
  /\ [type |-> "kMouse", arg |-> 0] \in Commands
BY DEF Commands

LEMMA TypeInit == Init => TypeInv
<1> SUFFICES ASSUME Init PROVE TypeInv
  OBVIOUS
<1>1. ctl \in CtlRec /\ Len(ctl.up) <= ControlCells /\ Len(ctl.down) <= ControlCells
  BY ConstantTypes DEF Init, CtlRec
<1>2. slot \in [Slots -> SlotRec] /\ \A i \in Slots : Len(slot[i].cmds) <= RingCells
  BY Constructed, ConstantTypes DEF Init
<1>3. prod \in ProdRec
  BY ConstantTypes DEF Init, ProdRec
<1>4. con \in [Consumers -> ConRec] /\ abandoned \in BOOLEAN
  BY Constructed DEF Init
<1> QED
  BY <1>1, <1>2, <1>3, <1>4 DEF TypeInv

LEMMA TypeProducer == TypeInv /\ Producer => TypeInv'
<1> SUFFICES ASSUME TypeInv, Producer PROVE TypeInv'
  OBVIOUS
<1>0. NextSlot \in ProdRec
  BY NextSlotType
<1>1. CASE serve_request
  BY <1>1, ServeEffect DEF Serves, Control, Becoming, TypeInv
<1>2. CASE control_drained
  BY <1>2, LoopEffect DEF Loops, TypeInv
<1>3. CASE look
  BY <1>0, <1>3, LoopEffect DEF Loops, TypeInv
<1>4. CASE reclaim
  BY <1>0, <1>4, LoopEffect DEF Becoming, TypeInv
<1>5. CASE attend
  BY <1>5, LoopEffect DEF Loops, Becoming, TypeInv
<1>6. CASE execute
  BY <1>6, DrainEffect DEF Becoming, TypeInv
<1>7. CASE \E publishing \in BOOLEAN : finish(publishing)
  BY <1>0, <1>7, DrainEffect DEF Becoming, TypeInv
<1> QED
  BY <1>1, <1>2, <1>3, <1>4, <1>5, <1>6, <1>7 DEF Producer

LEMMA TypeConnecting ==
  ASSUME TypeInv, NEW c \in Consumers,
         \/ launch(c) \/ claim(c) \/ busy(c) \/ request(c) \/ await_reply(c)
         \/ take_reply(c) \/ timeout(c)
  PROVE  TypeInv'
<1>1. CASE launch(c)
  BY <1>1, Connecting DEF launch, Fresh, Becomes, TypeInv
<1>2. CASE claim(c)
  BY <1>2, Connecting, ControlEffect DEF claim, Moves, Becomes, Control, TypeInv
<1>3. CASE busy(c)
  BY <1>3, Connecting DEF busy, Fresh, Becomes, TypeInv
<1>4. CASE request(c)
  <2>1. con' \in [Consumers -> ConRec]
    BY <1>4, Connecting DEF Fresh, Moves, Becomes
  <2>2. ctl' \in CtlRec /\ Len(ctl'.up) <= ControlCells /\ Len(ctl'.down) <= ControlCells
    BY <1>4, ControlEffect DEF Control
  <2> QED
    BY <1>4, <2>1, <2>2 DEF request, TypeInv
<1>5. CASE take_reply(c)
  <2>1. con' \in [Consumers -> ConRec]
    BY <1>5, Connecting DEF Fresh, Becomes
  <2> QED
    BY <1>5, <2>1, ControlEffect DEF take_reply, Control, TypeInv
<1>6. CASE timeout(c)
  <2>1. con' \in [Consumers -> ConRec]
    BY <1>6, Connecting DEF Fresh, Becomes
  <2> QED
    BY <1>6, <2>1, ControlEffect DEF timeout, Control, TypeInv
<1>7. CASE await_reply(c)
  BY <1>7, ControlEffect DEF await_reply, Control, TypeInv
<1> QED
  BY <1>1, <1>2, <1>3, <1>4, <1>5, <1>6, <1>7

LEMMA TypeUsing ==
  ASSUME TypeInv, NEW c \in Consumers,
         \/ open_view(c) \/ start_url(c) \/ init(c) \/ update(c) \/ keyCallback(c)
         \/ mouse(c) \/ resize(c) \/ reattach(c) \/ close(c) \/ crash(c)
  PROVE  TypeInv'
<1>1. CASE open_view(c)
  <2>1. con' \in [Consumers -> ConRec]
    BY <1>1, Connecting DEF Fresh, Becomes
  <2>2. SlotsTyped
    BY <1>1, OwnerEffect DEF SlotsTyped, TypeInv
  <2> QED
    BY <1>1, <2>1, <2>2 DEF open_view, SlotsTyped, TypeInv
<1>2. CASE start_url(c) \/ keyCallback(c)
  <2>1. con' \in [Consumers -> ConRec]
    BY <1>2, Using DEF Moves, Becomes
  <2>2. SlotsTyped
    BY <1>2, Using, SendEffect, SentCommands DEF SlotsTyped, TypeInv
  <2> QED
    BY <1>2, <2>1, <2>2 DEF start_url, keyCallback, SendUrl, SlotsTyped, TypeInv
<1>3. CASE init(c) \/ resize(c)
  <2>1. con' \in [Consumers -> ConRec]
    BY <1>3, Using DEF Becomes
  <2>2. SlotsTyped
    BY <1>3, Using, SendEffect, SentCommands DEF SlotsTyped
  <2> QED
    BY <1>3, <2>1, <2>2 DEF init, resize, resizeCallback, SlotsTyped, TypeInv
<1>4. CASE update(c)
  <2>1. con' \in [Consumers -> ConRec]
    BY <1>4, Using DEF Becomes
  <2>2. SlotsTyped
    BY <1>4, BeatenEffect DEF update, SlotsTyped, TypeInv
  <2> QED
    BY <1>4, <2>1, <2>2 DEF update, SlotsTyped, TypeInv
<1>5. CASE mouse(c)
  <2>1. SlotsTyped
    BY <1>5, SendEffect, SentCommands DEF mouse, SlotsTyped
  <2> QED
    BY <1>5, <2>1 DEF mouse, SlotsTyped, TypeInv
<1>6. CASE reattach(c)
  BY <1>6, Using, OwnerEffect DEF Becomes, reattach, SlotsTyped, TypeInv
<1>7. CASE close(c)
  <2>1. SlotsTyped /\ con' \in [Consumers -> ConRec]
    BY <1>7, OwnerEffect, Connecting DEF Fresh, Becomes
  <2> QED
    BY <1>7, <2>1 DEF close, SlotsTyped, TypeInv
<1>8. CASE crash(c)
  <2>1. SlotsTyped /\ con' \in [Consumers -> ConRec]
    BY <1>8, OwnerEffect, Connecting DEF Fresh, Becomes
  <2>2. ctl' \in CtlRec /\ Len(ctl'.up) <= ControlCells /\ Len(ctl'.down) <= ControlCells
    BY <1>8, ControlEffect DEF Control
  <2>3. abandoned' \in BOOLEAN
    BY <1>8 DEF crash
  <2> QED
    BY <1>8, <2>1, <2>2, <2>3 DEF crash, SlotsTyped, TypeInv
<1> QED
  BY <1>1, <1>2, <1>3, <1>4, <1>5, <1>6, <1>7, <1>8

LEMMA TypeStep == TypeInv /\ [Next]_vars => TypeInv'
<1> SUFFICES ASSUME TypeInv, [Next]_vars PROVE TypeInv'
  OBVIOUS
<1>1. CASE Producer
  BY <1>1, TypeProducer
<1>2. CASE \E c \in Consumers :
             \/ launch(c) \/ Continues(c) \/ timeout(c) \/ keyCallback(c) \/ mouse(c)
             \/ resize(c) \/ reattach(c) \/ close(c) \/ crash(c)
  BY <1>2, TypeConnecting, TypeUsing DEF Continues
<1>3. CASE Elapses
  <2>1. CASE control_owner_goes_stale
    BY <2>1, TimeEffect DEF control_owner_goes_stale, TypeInv
  <2>2. CASE \E i \in Slots : owner_goes_stale(i) \/ grace_elapses(i)
    <3>1. SlotsTyped
      BY <2>2, TimeEffect
    <3> QED
      BY <2>2, <3>1 DEF owner_goes_stale, grace_elapses, SlotsTyped, TypeInv
  <2> QED
    BY <1>3, <2>1, <2>2 DEF Elapses
<1>4. CASE UNCHANGED vars
  BY <1>4 DEF vars, TypeInv
<1> QED
  BY <1>1, <1>2, <1>3, <1>4 DEF Next

LEMMA Typed == Spec => []TypeInv
BY TypeInit, TypeStep, PTL DEF Spec

\* Events and late windows are counted together.
LEMMA Counted == Spec => []Counters
<1>1. Init => Counters
  BY ConstantTypes DEF Init, Counters
<1>2. Counters /\ [Next]_vars => Counters'
  <2> SUFFICES ASSUME Counters, [Next]_vars PROVE Counters'
    OBVIOUS
  <2>1. CASE UNCHANGED <<events, late>>
    BY <2>1 DEF Counters
  <2>2. CASE Event /\ UNCHANGED late
    BY <2>2, ConstantTypes DEF Counters, Event
  <2>3. ASSUME NEW live \in BOOLEAN, Ends(live), UNCHANGED events PROVE Counters'
    BY <2>3, ConstantTypes DEF Counters, Ends
  <2>4. CASE Producer
    BY <2>1, <2>4 DEF Producer, serve_request, control_drained, look, reclaim, attend, execute,
                      finish
  <2>5. ASSUME NEW c \in Consumers, keyCallback(c) \/ mouse(c) \/ resize(c) PROVE Counters'
    BY <2>2, <2>5 DEF keyCallback, mouse, resize, SendUrl, resizeCallback
  <2>6. ASSUME NEW c \in Consumers,
               launch(c) \/ Continues(c) \/ timeout(c) \/ reattach(c) \/ close(c) \/ crash(c)
        PROVE  Counters'
    BY <2>1, <2>6 DEF launch, Continues, timeout, reattach, close, crash, claim, busy, request,
                      await_reply, take_reply, open_view, start_url, SendUrl, init,
                      resizeCallback, update
  <2>7. CASE Elapses
    <3>1. CASE control_owner_goes_stale
      BY <2>3, <3>1 DEF control_owner_goes_stale
    <3>2. ASSUME NEW i \in Slots, owner_goes_stale(i) PROVE Counters'
      BY <2>3, <3>2 DEF owner_goes_stale
    <3>3. ASSUME NEW i \in Slots, grace_elapses(i) PROVE Counters'
      <4>1. Expected(i) \in BOOLEAN
        BY DEF Expected
      <4> QED
        BY <2>3, <3>3, <4>1 DEF grace_elapses
    <3> QED
      BY <2>7, <3>1, <3>2, <3>3 DEF Elapses
  <2>8. CASE UNCHANGED vars
    BY <2>1, <2>8 DEF vars
  <2> QED
    BY <2>4, <2>5, <2>6, <2>7, <2>8 DEF Next
<1> QED
  BY <1>1, <1>2, PTL DEF Spec

\* The rings of the control channel and of the views never hold more than their
\* cells, sizes stay within the limits of a view and every other field within
\* its type, whatever the consumers send, whenever they die and however slow they
\* are.
THEOREM MultiviewTypes == Spec => []TypeOK
<1>1. TypeInv /\ Counters => TypeOK
  <2> SUFFICES ASSUME TypeInv, Counters PROVE TypeOK
    OBVIOUS
  <2>1. ctl.owner \in Owners /\ ctl.silent \in BOOLEAN
        /\ {Len(ctl.up), Len(ctl.down)} \subseteq 0..ControlCells
    BY ConstantTypes DEF TypeInv, CtlRec
  <2>2. ASSUME NEW i \in Slots
        PROVE  /\ slot[i].owner \in Owners /\ Len(slot[i].cmds) <= RingCells
               /\ \A k \in DOMAIN slot[i].cmds : slot[i].cmds[k] \in Commands
               /\ slot[i].width \in 1..kMaxSize /\ slot[i].canvas \in 0..kMaxSize
               /\ slot[i].color \in Colors
               /\ {slot[i].pub, slot[i].silent, slot[i].drawn, slot[i].dirty, slot[i].had_subscriber,
                   slot[i].idle, slot[i].early} \subseteq BOOLEAN
    <3>1. slot[i] \in SlotRec /\ Len(slot[i].cmds) <= RingCells
      BY <2>2 DEF TypeInv
    <3> QED
      BY <3>1 DEF SlotRec
  <2>3. prod.pc \in {"control", "look", "attend", "drain"} /\ prod.i \in Slots
    BY FieldTypes
  <2>4. ASSUME NEW c \in Consumers
        PROVE  /\ con[c].pc \in {"gone", "claim", "send", "wait", "assigned", "url", "init", "run"}
               /\ con[c].index \in Slots /\ con[c].url \in Urls \union {"none"}
               /\ con[c].texture \in WindowSizes \union {kDefaultSize}
               /\ {con[c].mine, con[c].attached, con[c].have, con[c].lost} \subseteq BOOLEAN
    BY <2>4 DEF TypeInv, ConRec
  <2>5. late \in 0..MaxEvents
    BY ConstantTypes DEF Counters
  <2> QED
    BY <2>1, <2>2, <2>3, <2>4, <2>5 DEF TypeOK
<1> QED
  BY <1>1, Typed, Counted, PTL

-----------------------------------------------------------------------------
(* The picture                                                              *)

LEMMA PictureInit == Init => PictureInv
<1> SUFFICES ASSUME Init PROVE PictureInv
  OBVIOUS
<1>1. ASSUME NEW i \in Slots PROVE Picture(slot[i])
  BY <1>1 DEF Init, FreeSlot, Picture
<1>2. AtWork
  BY DEF Init, AtWork
<1>3. DrawnFits
  BY DEF Init, DrawnFits, NoConsumer
<1> QED
  BY <1>1, <1>2, <1>3 DEF PictureInv

\* Nothing a claim, a command in the ring or time does concerns the picture.
LEMMA SamePicture ==
  ASSUME PictureInv, UNCHANGED prod,
         \A j \in Slots : slot'[j] = slot[j] \/ Painted(slot[j], slot'[j]),
         TypeInv, DrawnFits'
  PROVE  PictureInv'
<1>1. ASSUME NEW j \in Slots PROVE Picture(slot'[j])
  BY <1>1 DEF PictureInv, Picture, Painted
<1>2. AtWork'
  BY FieldTypes DEF PictureInv, AtWork, Painted
<1> QED
  BY <1>1, <1>2 DEF PictureInv

LEMMA PictureProducer == TypeInv /\ PictureInv /\ Producer => PictureInv'
<1> SUFFICES ASSUME TypeInv, PictureInv, Producer PROVE PictureInv'
  OBVIOUS
<1> DEFINE s == slot[prod.i]
<1>0. /\ s \in SlotRec /\ prod.i \in Slots /\ Picture(s) /\ s.cmds \in Seq(Commands)
      /\ NextSlot.pc \notin {"attend", "drain"}
      /\ AtWork /\ DrawnFits /\ \A j \in Slots : Picture(slot[j])
  BY FieldTypes, NextSlotType DEF PictureInv
<1>1. ASSUME UNCHANGED con PROVE DrawnFits'
  BY <1>0, <1>1 DEF DrawnFits
<1>2. CASE serve_request
  <2>1. UNCHANGED <<prod, con>> /\ prod.pc = "control" /\ Serves
    BY <1>2, ServeEffect
  <2>2. Picture(allocate_slot)
    BY DEF Picture, allocate_slot, FreeSlot
  <2>3. ASSUME NEW j \in Slots PROVE Picture(slot'[j])
    BY <1>0, <2>1, <2>2, <2>3 DEF Serves, Becoming
  <2> QED
    BY <1>1, <2>1, <2>3 DEF PictureInv, AtWork
<1>3. CASE control_drained
  <2>1. Loops("look", 0, prod.has_sub) /\ UNCHANGED <<slot, con>>
    BY <1>3, LoopEffect
  <2> QED
    BY <1>0, <1>1, <2>1 DEF PictureInv, AtWork, Loops
<1>4. CASE look
  <2>1. UNCHANGED <<slot, con>>
        /\ ((slot[prod.i].pub /\ prod'.i = prod.i) \/ prod' = NextSlot)
    BY <1>4, LoopEffect DEF Loops
  <2>2. AtWork'
    BY <1>0, <2>1 DEF AtWork
  <2> QED
    BY <1>0, <1>1, <2>1, <2>2 DEF PictureInv
<1>5. CASE reclaim
  <2>1. prod' = NextSlot /\ Becoming(prod.i, FreeSlot)
        /\ \A c \in Consumers : con'[c].texture = con[c].texture /\ con'[c].have = con[c].have
    BY <1>5, LoopEffect
  <2>2. Picture(FreeSlot)
    BY DEF Picture, FreeSlot
  <2>3. ASSUME NEW j \in Slots PROVE Picture(slot'[j])
    BY <1>0, <2>1, <2>2, <2>3 DEF Becoming
  <2>4. DrawnFits'
    BY <1>0, <2>1 DEF DrawnFits
  <2> QED
    BY <1>0, <2>1, <2>3, <2>4 DEF PictureInv, AtWork
<1>6. CASE attend
  <2>1. PICK color \in Colors : Becoming(prod.i, Greeted(s, color))
    BY <1>6, LoopEffect
  <2> DEFINE t == Greeted(s, color)
  <2>2. t.pub = s.pub /\ t.width = s.width /\ t.canvas = s.canvas /\ t.drawn = s.drawn
        /\ (s.dirty => t.dirty) /\ t.blank = s.blank
    BY <1>0, GreetedFields
  <2> HIDE DEF t
  <2>3. Picture(t)
    BY <1>0, <2>2 DEF Picture
  <2>4. ASSUME NEW j \in Slots PROVE Picture(slot'[j])
    BY <1>0, <2>1, <2>3, <2>4 DEF Becoming, t
  <2>5. prod.pc = "attend" /\ Loops("drain", prod.i, prod.has_sub) /\ UNCHANGED con
    BY <1>6, LoopEffect
  <2>6. AtWork'
    BY <1>0, <2>1, <2>2, <2>5 DEF AtWork, Loops, Becoming, t
  <2> QED
    BY <1>1, <2>4, <2>5, <2>6 DEF PictureInv
<1>7. CASE execute
  <2>1. UNCHANGED <<prod, con>> /\ prod.pc = "drain" /\ s.cmds # <<>>
    BY <1>7, DrainEffect
  <2>2. s.cmds[1] \in Commands /\ Tail(s.cmds) \in Seq(Commands)
    BY <1>0, <2>1, TailFacts
  <2> DEFINE t == Executed(s, s.cmds[1])
             u == [t EXCEPT !.cmds = Tail(s.cmds)]
  <2>3. Becoming(prod.i, u)
    BY <1>7, DrainEffect
  <2>4. t \in SlotRec /\ t.pub = s.pub /\ t.blank = s.blank /\ (Good(s) => Good(t))
    BY <1>0, <2>2, ExecutedFields DEF Claimed
  <2> HIDE DEF t
  <2>5. Painted(t, u)
    BY <2>2, <2>4, CmdsField
  <2> HIDE DEF u
  <2>6. s.pub /\ Good(s)
    BY <1>0, <2>1 DEF AtWork, Picture, Good
  <2>7. Picture(u) /\ u.pub
    BY <1>0, <2>4, <2>5, <2>6 DEF Picture, Good, Painted
  <2>8. ASSUME NEW j \in Slots PROVE Picture(slot'[j])
    BY <1>0, <2>3, <2>7, <2>8 DEF Becoming
  <2>9. AtWork'
    BY <2>1, <2>3, <2>7 DEF AtWork, Becoming
  <2> QED
    BY <1>1, <2>1, <2>8, <2>9 DEF PictureInv
<1>8. CASE \E publishing \in BOOLEAN : finish(publishing)
  <2>1. PICK publishing \in BOOLEAN : finish(publishing)
    BY <1>8
  <2> DEFINE t == IF publishing THEN Published(Regenerated(s)) ELSE Regenerated(s)
  <2>2. UNCHANGED con /\ prod.pc = "drain" /\ prod' = NextSlot /\ Becoming(prod.i, t)
    BY <2>1, DrainEffect
  <2>3. Good(s) /\ ~s.blank => Good(t) /\ ~t.blank
    BY <1>0, FinishedFields
  <2> HIDE DEF t
  <2>4. Good(s) /\ ~s.blank
    BY <1>0, <2>2 DEF AtWork, Picture, Good
  <2>5. Picture(t)
    BY <2>3, <2>4 DEF Picture, Good
  <2>6. ASSUME NEW j \in Slots PROVE Picture(slot'[j])
    BY <1>0, <2>2, <2>5, <2>6 DEF Becoming
  <2> QED
    BY <1>0, <1>1, <2>2, <2>6 DEF PictureInv, AtWork
<1> QED
  BY <1>2, <1>3, <1>4, <1>5, <1>6, <1>7, <1>8 DEF Producer

\* A consumer that only connects does not touch the slots.
LEMMA PictureConnecting ==
  ASSUME TypeInv, PictureInv, NEW c \in Consumers,
         \/ launch(c) \/ claim(c) \/ busy(c) \/ request(c) \/ await_reply(c)
         \/ take_reply(c) \/ timeout(c)
  PROVE  PictureInv'
<1>1. UNCHANGED <<slot, prod>>
  BY DEF launch, claim, busy, request, await_reply, take_reply, timeout
<1>2. ASSUME NEW d \in Consumers, con'[d].have
      PROVE  con[d].have /\ con'[d].texture = con[d].texture
  <2>1. /\ d # c => con'[d] = con[d]
        /\ con'[c].have => con[c].have /\ con'[c].texture = con[c].texture
    BY <1>2, Connecting DEF Fresh, Moves, Becomes, await_reply
  <2> QED
    BY <1>2, <2>1
<1>3. DrawnFits'
  BY <1>2 DEF PictureInv, DrawnFits
<1> QED
  BY <1>1, <1>3, SamePicture

LEMMA PictureUsing ==
  ASSUME TypeInv, PictureInv, NEW c \in Consumers,
         \/ open_view(c) \/ start_url(c) \/ init(c) \/ update(c) \/ keyCallback(c)
         \/ mouse(c) \/ resize(c) \/ reattach(c) \/ close(c) \/ crash(c)
  PROVE  PictureInv'
<1>0. UNCHANGED prod
  BY DEF open_view, start_url, init, update, keyCallback, mouse, resize, reattach, close,
         crash, SendUrl, resizeCallback
<1>1. \A j \in Slots : slot'[j] = slot[j] \/ Painted(slot[j], slot'[j])
  <2> TAKE j \in Slots
  <2>1. CASE open_view(c) \/ reattach(c)
    BY <2>1, OwnerEffect DEF Reowned
  <2>2. CASE close(c) \/ crash(c)
    BY <2>2, OwnerEffect DEF Reowned
  <2>3. ASSUME NEW cmd \in Commands, slot' = Sent(c, cmd)
        PROVE  slot'[j] = slot[j] \/ Painted(slot[j], slot'[j])
    BY <2>3, SendEffect
  <2>4. CASE start_url(c) \/ keyCallback(c)
    BY <2>3, <2>4, Using, SentCommands
  <2>5. CASE init(c) \/ resize(c)
    BY <2>3, <2>5, Using, SentCommands
  <2>6. CASE mouse(c)
    BY <2>3, <2>6, SentCommands DEF mouse
  <2>7. CASE update(c)
    BY <2>7, BeatenEffect DEF update
  <2> QED
    BY <2>1, <2>2, <2>4, <2>5, <2>6, <2>7
<1>2. DrawnFits'
  <2>1. ASSUME NEW d \in Consumers, con'[d].have
        PROVE  con'[d].texture <= kMaxSize
    <3>1. con[d].have => con[d].texture <= kMaxSize
      BY <2>1 DEF PictureInv, DrawnFits
    <3>2. d # c => con'[d] = con[d]
      BY <2>1, Connecting, Using DEF Fresh, Moves, Becomes, mouse
    <3>3. CASE d # c \/ ~update(c)
      <4>1. ~update(c) /\ d = c => con[d].have /\ con'[d].texture = con[d].texture
        <5>1. CASE open_view(c) \/ close(c) \/ crash(c)
          BY <2>1, <5>1, Connecting DEF Fresh, Becomes
        <5>2. CASE start_url(c) \/ keyCallback(c)
          BY <2>1, <5>2, Using DEF Moves, Becomes
        <5>3. CASE init(c) \/ resize(c)
          BY <2>1, <5>3, Using DEF Becomes
        <5>4. CASE mouse(c)
          BY <2>1, <5>4 DEF mouse
        <5>5. CASE reattach(c)
          BY <2>1, <5>5, Using DEF Becomes
        <5> QED
          BY <5>1, <5>2, <5>3, <5>4, <5>5
      <4> QED
        BY <2>1, <3>1, <3>2, <3>3, <4>1
    <3>4. CASE d = c /\ update(c)
      <4>1. /\ con[c].have \/ slot[con[c].index].latest = con[c].texture
            /\ con'[c].texture = con[c].texture
        BY <2>1, <3>4, Using DEF Becomes
      <4>2. slot[con[c].index] \in SlotRec
        BY FieldTypes
      <4>3. slot[con[c].index].latest <= kMaxSize
        BY <4>2, ConstantTypes DEF SlotRec
      <4> QED
        BY <3>1, <3>4, <4>1, <4>3
    <3> QED
      BY <3>3, <3>4
  <2> QED
    BY <2>1 DEF DrawnFits
<1> QED
  BY <1>0, <1>1, <1>2, SamePicture

LEMMA PictureStep == TypeInv /\ PictureInv /\ [Next]_vars => PictureInv'
<1> SUFFICES ASSUME TypeInv, PictureInv, [Next]_vars PROVE PictureInv'
  OBVIOUS
<1>1. CASE Producer
  BY <1>1, PictureProducer
<1>2. CASE \E c \in Consumers :
             \/ launch(c) \/ Continues(c) \/ timeout(c) \/ keyCallback(c) \/ mouse(c)
             \/ resize(c) \/ reattach(c) \/ close(c) \/ crash(c)
  BY <1>2, PictureConnecting, PictureUsing DEF Continues
<1>3. CASE Elapses
  <2>1. UNCHANGED <<prod, con>>
    BY <1>3 DEF Elapses, control_owner_goes_stale, owner_goes_stale, grace_elapses
  <2>2. \A j \in Slots : slot'[j] = slot[j] \/ Painted(slot[j], slot'[j])
    <3>1. CASE control_owner_goes_stale
      BY <3>1 DEF control_owner_goes_stale
    <3>2. CASE \E i \in Slots : owner_goes_stale(i) \/ grace_elapses(i)
      BY <3>2, TimeEffect
    <3> QED
      BY <1>3, <3>1, <3>2 DEF Elapses
  <2>3. DrawnFits'
    BY <2>1 DEF PictureInv, DrawnFits
  <2> QED
    BY <2>1, <2>2, <2>3, SamePicture
<1>4. CASE UNCHANGED vars
  <2>1. DrawnFits'
    BY <1>4 DEF vars, PictureInv, DrawnFits
  <2> QED
    BY <1>4, <2>1, SamePicture DEF vars
<1> QED
  BY <1>1, <1>2, <1>3, <1>4 DEF Next

LEMMA Pictured == Spec => []PictureInv
<1>1. TypeInv /\ PictureInv /\ [Next]_vars => PictureInv'
  BY PictureStep
<1> QED
  BY <1>1, PictureInit, Typed, PTL DEF Spec

\* No frame is published from a canvas that was resized and not yet drawn, or
\* from none: a view that is in use always has a canvas of its own size, drawn
\* or marked dirty, so that the loop regenerates it before it publishes.
THEOREM PublishedIsDrawn == Spec => []FramesAreDrawn
<1>1. PictureInv => FramesAreDrawn
  BY DEF PictureInv, Picture, FramesAreDrawn
<1> QED
  BY <1>1, Pictured, PTL

\* A consumer only draws a frame it has whole: whatever the size of its window,
\* the texture it fills is within the buffer that read_latest fills.
THEOREM TexturesAreFilled == Spec => []DrawnFits
<1>1. PictureInv => DrawnFits
  BY DEF PictureInv
<1> QED
  BY <1>1, Pictured, PTL

-----------------------------------------------------------------------------
(* The URL                                                                  *)

LEMMA PendingAppend ==
  ASSUME NEW q \in Seq(Commands), NEW cmd \in Commands
  PROVE  /\ IsUrl(cmd) => Pending(Append(q, cmd), cmd.arg)
         /\ \A u : Pending(q, u) /\ ~IsUrl(cmd) => Pending(Append(q, cmd), u)
         /\ NoUrl(q) /\ ~IsUrl(cmd) => NoUrl(Append(q, cmd))
<1> DEFINE r == Append(q, cmd)
           n == Len(q)
<1>1. /\ DOMAIN r = 1..n + 1 /\ r[n + 1] = cmd /\ n \in Nat /\ DOMAIN q = 1..n
      /\ \A k \in 1..n : r[k] = q[k]
  BY AppendFacts
<1> HIDE DEF r, n
<1>2. IsUrl(cmd) => Pending(r, cmd.arg)
  BY <1>1 DEF Pending
<1>3. ASSUME NEW u, Pending(q, u), ~IsUrl(cmd)
      PROVE  Pending(r, u)
  <2>1. PICK k \in 1..n : /\ IsUrl(q[k]) /\ q[k].arg = u
                          /\ \A j \in 1..n : j > k => ~IsUrl(q[j])
    BY <1>1, <1>3 DEF Pending
  <2>2. k \in DOMAIN r /\ IsUrl(r[k]) /\ r[k].arg = u
    BY <1>1, <2>1
  <2>3. ASSUME NEW j \in DOMAIN r, j > k PROVE ~IsUrl(r[j])
    BY <1>1, <1>3, <2>1, <2>3
  <2> QED
    BY <2>2, <2>3 DEF Pending
<1>4. NoUrl(q) /\ ~IsUrl(cmd) => NoUrl(r)
  BY <1>1 DEF NoUrl
<1> QED
  BY <1>2, <1>3, <1>4 DEF r

LEMMA PendingTail ==
  ASSUME NEW q \in Seq(Commands), q # <<>>
  PROVE  /\ \A u : Pending(q, u) =>
              \/ Pending(Tail(q), u)
              \/ IsUrl(q[1]) /\ q[1].arg = u /\ NoUrl(Tail(q))
         /\ NoUrl(q) => ~IsUrl(q[1]) /\ NoUrl(Tail(q))
<1> DEFINE r == Tail(q)
           n == Len(q)
<1>1. /\ n \in Nat /\ n >= 1 /\ DOMAIN q = 1..n /\ DOMAIN r = 1..n - 1
      /\ \A k \in 1..n - 1 : r[k] = q[k + 1]
  BY TailFacts
<1> HIDE DEF r, n
<1>2. ASSUME NEW u, Pending(q, u)
      PROVE  Pending(r, u) \/ (IsUrl(q[1]) /\ q[1].arg = u /\ NoUrl(r))
  <2>1. PICK k \in 1..n : /\ IsUrl(q[k]) /\ q[k].arg = u
                          /\ \A j \in 1..n : j > k => ~IsUrl(q[j])
    BY <1>1, <1>2 DEF Pending
  <2>2. CASE k = 1
    <3>1. ASSUME NEW j \in DOMAIN r PROVE ~IsUrl(r[j])
      BY <1>1, <2>1, <2>2, <3>1
    <3> QED
      BY <2>1, <2>2, <3>1 DEF NoUrl
  <2>3. CASE k # 1
    <3>1. k - 1 \in DOMAIN r /\ r[k - 1] = q[k]
      BY <1>1, <2>1, <2>3
    <3>2. ASSUME NEW j \in DOMAIN r, j > k - 1 PROVE ~IsUrl(r[j])
      BY <1>1, <2>1, <3>2
    <3> QED
      BY <2>1, <3>1, <3>2 DEF Pending
  <2> QED
    BY <2>2, <2>3
<1>3. NoUrl(q) => ~IsUrl(q[1]) /\ NoUrl(r)
  BY <1>1 DEF NoUrl
<1> QED
  BY <1>2, <1>3 DEF r

\* Who keeps its view as it is keeps its URL where it is.
LEMMA UrlFrame ==
  ASSUME TypeInv, NEW d \in Consumers, UrlAt(d),
         con'[d].url \in {con[d].url, "none"}, con'[d].attached => con[d].attached,
         con'[d].index = con[d].index,
         slot'[con[d].index].owner = d =>
           /\ slot[con[d].index].owner = d
           /\ slot'[con[d].index].cmds = slot[con[d].index].cmds
           /\ Obeyed(slot[con[d].index], slot'[con[d].index]),
         prod' = prod \/ prod'.pc \notin {"attend", "drain"}
  PROVE  UrlAt(d)'
<1> DEFINE i == con[d].index
<1> SUFFICES ASSUME con'[d].url # "none", con'[d].attached, slot'[i].owner = d
             PROVE  \/ Pending(slot'[i].cmds, con[d].url)
                    \/ NoUrl(slot'[i].cmds) /\ (slot'[i].early \/ Shown(i, con[d].url)')
  BY DEF UrlAt, Owns
<1>1. \/ Pending(slot[i].cmds, con[d].url)
      \/ NoUrl(slot[i].cmds) /\ (slot[i].early \/ Shown(i, con[d].url))
  BY DEF UrlAt, Owns
<1>2. slot'[i].cmds = slot[i].cmds /\ Obeyed(slot[i], slot'[i])
  OBVIOUS
<1>3. Shown(i, con[d].url) => Shown(i, con[d].url)'
  BY <1>2 DEF Shown, Obeyed
<1> HIDE DEF i
<1> QED
  BY <1>1, <1>2, <1>3 DEF Obeyed

LEMMA UrlInit == Init => UrlInv
<1> SUFFICES ASSUME Init PROVE UrlInv
  OBVIOUS
<1>1. ASSUME NEW c \in Consumers PROVE con[c].url = "none" /\ ~con[c].attached
  BY <1>1 DEF Init, NoConsumer
<1>2. Noticed
  BY DEF Init, Noticed
<1> QED
  BY <1>1, <1>2 DEF UrlInv, UrlAt, Unattached

LEMMA UrlProducer == TypeInv /\ UrlInv /\ Producer => UrlInv'
<1> SUFFICES ASSUME TypeInv, UrlInv, Producer PROVE UrlInv'
  OBVIOUS
<1> DEFINE p == prod.i
           s == slot[p]
<1>0. /\ s \in SlotRec /\ p \in Slots /\ s.cmds \in Seq(Commands) /\ Noticed
      /\ NextSlot.pc \notin {"attend", "drain"} /\ prod.has_sub \in BOOLEAN
      /\ \A c \in Consumers : /\ UrlAt(c) /\ Unattached(c) /\ con[c].index \in Slots
                              /\ c # "nobody"
      /\ \A t : Obeyed(t, t)
  BY FieldTypes, NextSlotType, ConstantTypes DEF UrlInv, Obeyed
<1>1. ASSUME UNCHANGED con PROVE \A c \in Consumers : Unattached(c)'
  BY <1>0, <1>1 DEF Unattached
<1>2. CASE serve_request
  <2>1. UNCHANGED <<prod, con>> /\ prod.pc = "control" /\ Serves
    BY <1>2, ServeEffect
  <2>2. ASSUME NEW c \in Consumers PROVE UrlAt(c)'
    <3>1. slot'[con[c].index] = slot[con[c].index] \/ slot'[con[c].index].owner = "nobody"
      <4>1. allocate_slot.owner = "nobody" /\ con[c].index \in Slots
        BY <1>0, <2>2 DEF allocate_slot, FreeSlot
      <4> QED
        BY <2>1, <4>1 DEF Serves, Becoming
    <3> QED
      BY <1>0, <2>1, <2>2, <3>1, UrlFrame
  <2> QED
    BY <1>1, <2>1, <2>2 DEF UrlInv, Noticed
<1>3. CASE control_drained
  <2>1. prod'.pc = "look" /\ UNCHANGED <<slot, con>>
    BY <1>3, LoopEffect DEF Loops
  <2>2. ASSUME NEW c \in Consumers PROVE UrlAt(c)'
    BY <1>0, <2>1, <2>2, UrlFrame
  <2> QED
    BY <1>1, <2>1, <2>2 DEF UrlInv, Noticed
<1>4. CASE look
  <2>1. UNCHANGED <<slot, con>>
    BY <1>4, LoopEffect
  <2>2. CASE prod' = NextSlot
    <3>1. ASSUME NEW c \in Consumers PROVE UrlAt(c)'
      BY <1>0, <2>1, <2>2, <3>1, UrlFrame
    <3> QED
      BY <1>0, <1>1, <2>1, <2>2, <3>1 DEF UrlInv, Noticed
  <2>3. CASE Loops("attend", p, s.owner # "nobody")
    <3>1. prod'.pc = "attend" /\ prod'.i = p /\ prod'.has_sub = (s.owner # "nobody")
      BY <2>3 DEF Loops
    <3>2. ASSUME NEW c \in Consumers PROVE UrlAt(c)'
      <4> DEFINE i == con[c].index
      <4>1. Owns(c) /\ i = p => prod'.has_sub
        BY <1>0, <3>1, <3>2 DEF Owns
      <4>2. Owns(c) /\ Shown(i, con[c].url) => Shown(i, con[c].url)'
        BY <2>1, <3>1, <4>1 DEF Shown
      <4> QED
        BY <1>0, <2>1, <3>2, <4>2 DEF UrlAt, Owns
    <3> QED
      BY <1>1, <2>1, <3>1, <3>2 DEF UrlInv, Noticed
  <2> QED
    BY <1>4, <2>2, <2>3, LoopEffect
<1>5. CASE reclaim
  <2>1. prod' = NextSlot /\ Becoming(p, FreeSlot)
        /\ \A c \in Consumers : /\ con'[c].attached = (con[c].attached /\ con[c].index # p)
                                /\ con'[c].pc = con[c].pc /\ con'[c].index = con[c].index
                                /\ con'[c].url = con[c].url
    BY <1>5, LoopEffect
  <2>2. ASSUME NEW c \in Consumers PROVE UrlAt(c)' /\ Unattached(c)'
    <3>1. slot'[con[c].index] = slot[con[c].index] \/ slot'[con[c].index].owner = "nobody"
      BY <1>0, <2>1, <2>2 DEF Becoming, FreeSlot
    <3>2. con'[c].attached => con[c].attached
      BY <2>1, <2>2
    <3>3. UrlAt(c)'
      BY <1>0, <2>1, <2>2, <3>1, <3>2, UrlFrame
    <3> QED
      BY <1>0, <2>1, <2>2, <3>2, <3>3 DEF Unattached
  <2> QED
    BY <1>0, <2>1, <2>2 DEF UrlInv, Noticed
<1>6. CASE attend
  <2>1. PICK color \in Colors : Becoming(p, Greeted(s, color))
    BY <1>6, LoopEffect
  <2> DEFINE t == Greeted(s, color)
  <2>2. UNCHANGED con /\ prod.pc = "attend" /\ Loops("drain", p, prod.has_sub)
    BY <1>6, LoopEffect
  <2>3. /\ t.cmds = s.cmds /\ t.early = s.early /\ t.owner = s.owner
        /\ t.had_subscriber = prod.has_sub
        /\ (s.had_subscriber \/ ~prod.has_sub => t.color = s.color)
    BY <1>0, GreetedFields
  <2> HIDE DEF t
  <2>4. slot'[p] = t /\ \A j \in Slots : j # p => slot'[j] = slot[j]
    BY <2>1 DEF Becoming, t
  <2>5. ASSUME NEW c \in Consumers PROVE UrlAt(c)'
    <3> DEFINE i == con[c].index
    <3>1. CASE i # p
      <4>1. Shown(i, con[c].url) => Shown(i, con[c].url)'
        BY <1>0, <2>2, <2>4, <2>5, <3>1 DEF Shown, Loops
      <4> QED
        BY <1>0, <2>2, <2>4, <2>5, <3>1, <4>1 DEF UrlAt, Owns
    <3>2. CASE i = p
      <4>1. Shown(i, con[c].url) => Shown(i, con[c].url)'
        BY <2>2, <2>3, <2>4, <3>2 DEF Shown, Loops
      <4>2. slot'[i].cmds = slot[i].cmds /\ slot'[i].early = slot[i].early
            /\ slot'[i].owner = slot[i].owner /\ UrlAt(c)
        BY <1>0, <2>3, <2>4, <2>5, <3>2
      <4>3. SUFFICES ASSUME con[c].url # "none", Owns(c)
                     PROVE  \/ Pending(slot'[i].cmds, con[c].url)
                            \/ NoUrl(slot'[i].cmds) /\ (slot'[i].early \/ Shown(i, con[c].url)')
        BY <2>2, <4>2 DEF UrlAt, Owns
      <4>4. \/ Pending(slot[i].cmds, con[c].url)
            \/ NoUrl(slot[i].cmds) /\ (slot[i].early \/ Shown(i, con[c].url))
        BY <4>2, <4>3 DEF UrlAt
      <4> QED
        BY <4>1, <4>2, <4>4
    <3> QED
      BY <3>1, <3>2
  <2>6. Noticed'
    BY <2>2, <2>3, <2>4 DEF Noticed, Loops
  <2> QED
    BY <1>1, <2>2, <2>5, <2>6 DEF UrlInv
<1>7. CASE execute
  <2>1. UNCHANGED <<prod, con>> /\ prod.pc = "drain" /\ s.cmds # <<>>
    BY <1>7, DrainEffect
  <2> DEFINE cmd == s.cmds[1]
             t   == Executed(s, cmd)
             u   == [t EXCEPT !.cmds = Tail(s.cmds)]
  <2>2. cmd \in Commands /\ Tail(s.cmds) \in Seq(Commands)
    BY <1>0, <2>1, TailFacts
  <2>3. Becoming(p, u)
    BY <1>7, DrainEffect
  <2>4. /\ t \in SlotRec /\ t.owner = s.owner /\ t.had_subscriber = s.had_subscriber
        /\ (IsUrl(cmd) => t.color = cmd.arg /\ t.early = ~s.had_subscriber)
        /\ (~IsUrl(cmd) => t.color = s.color /\ t.early = s.early)
    BY <1>0, <2>2, ExecutedFields DEF Claimed, IsUrl
  <2> HIDE DEF t
  <2>5. u.cmds = Tail(s.cmds) /\ u.owner = t.owner /\ Obeyed(t, u)
    BY <2>2, <2>4, CmdsField DEF Claimed
  <2> HIDE DEF u
  <2>6. /\ u.cmds = Tail(s.cmds) /\ u.owner = s.owner /\ u.had_subscriber = s.had_subscriber
        /\ (IsUrl(cmd) => u.color = cmd.arg /\ u.early = ~s.had_subscriber)
        /\ (~IsUrl(cmd) => u.color = s.color /\ u.early = s.early)
    BY <2>4, <2>5 DEF Obeyed
  <2>7. slot'[p] = u /\ \A j \in Slots : j # p => slot'[j] = slot[j]
    BY <2>3 DEF Becoming
  <2>8. s.had_subscriber = prod.has_sub
    BY <1>0, <2>1 DEF Noticed
  <2>9. ASSUME NEW c \in Consumers PROVE UrlAt(c)'
    <3> DEFINE i == con[c].index
               url == con[c].url
    <3>1. CASE i # p
      <4>1. slot'[i] = slot[i]
        BY <1>0, <2>7, <2>9, <3>1
      <4> QED
        BY <1>0, <2>1, <2>9, <4>1, UrlFrame
    <3>2. CASE i = p
      <4>1. /\ \A w : Pending(s.cmds, w) =>
                  \/ Pending(Tail(s.cmds), w)
                  \/ IsUrl(cmd) /\ cmd.arg = w /\ NoUrl(Tail(s.cmds))
            /\ NoUrl(s.cmds) => ~IsUrl(cmd) /\ NoUrl(Tail(s.cmds))
        BY <1>0, <2>1, PendingTail
      <4>2. u.color = url /\ u.had_subscriber => Shown(p, url)'
        BY <2>1, <2>6, <2>7, <2>8 DEF Shown
      <4>3. SUFFICES ASSUME url # "none", Owns(c)
                     PROVE  \/ Pending(u.cmds, url)
                            \/ NoUrl(u.cmds) /\ (u.early \/ Shown(p, url)')
        BY <2>1, <2>6, <2>7, <3>2 DEF UrlAt, Owns
      <4>4. CASE Pending(s.cmds, url)
        <5> HIDE DEF cmd
        <5> QED
          BY <1>0, <2>6, <4>1, <4>2, <4>4
      <4>5. CASE NoUrl(s.cmds) /\ s.early
        <5> HIDE DEF cmd
        <5> QED
          BY <2>6, <4>1, <4>5
      <4>6. CASE NoUrl(s.cmds) /\ Shown(p, url)
        <5> HIDE DEF cmd
        <5>1. s.color = url /\ s.had_subscriber
          BY <4>6 DEF Shown
        <5> QED
          BY <2>6, <4>1, <4>2, <4>6, <5>1
      <4> QED
        BY <1>0, <2>9, <3>2, <4>3, <4>4, <4>5, <4>6 DEF UrlAt
    <3> QED
      BY <3>1, <3>2
  <2>10. Noticed'
    BY <1>0, <2>1, <2>6, <2>7 DEF Noticed
  <2> QED
    BY <1>1, <2>1, <2>9, <2>10 DEF UrlInv
<1>8. CASE \E publishing \in BOOLEAN : finish(publishing)
  <2>1. PICK publishing \in BOOLEAN : finish(publishing)
    BY <1>8
  <2> DEFINE t == IF publishing THEN Published(Regenerated(s)) ELSE Regenerated(s)
  <2>2. UNCHANGED con /\ prod' = NextSlot /\ Becoming(p, t)
    BY <2>1, DrainEffect
  <2>3. t.cmds = s.cmds /\ Claimed(s, t) /\ Obeyed(s, t)
    BY <1>0, FinishedFields
  <2> HIDE DEF t
  <2>4. ASSUME NEW c \in Consumers PROVE UrlAt(c)'
    <3>1. \/ slot'[con[c].index] = slot[con[c].index]
          \/ con[c].index = p /\ slot'[p] = t
      BY <1>0, <2>2, <2>4 DEF Becoming
    <3>2. /\ slot'[con[c].index].owner = slot[con[c].index].owner
          /\ slot'[con[c].index].cmds = slot[con[c].index].cmds
          /\ Obeyed(slot[con[c].index], slot'[con[c].index])
      BY <1>0, <2>3, <3>1 DEF Claimed
    <3> QED
      BY <1>0, <2>2, <2>4, <3>2, UrlFrame
  <2> QED
    BY <1>0, <1>1, <2>2, <2>4 DEF UrlInv, Noticed
<1> QED
  BY <1>2, <1>3, <1>4, <1>5, <1>6, <1>7, <1>8 DEF Producer

LEMMA UrlConnecting ==
  ASSUME TypeInv, UrlInv, NEW c \in Consumers,
         \/ launch(c) \/ claim(c) \/ busy(c) \/ request(c) \/ await_reply(c)
         \/ take_reply(c) \/ timeout(c)
  PROVE  UrlInv'
<1>0. UNCHANGED <<slot, prod>> /\ \A t : Obeyed(t, t)
  BY DEF launch, claim, busy, request, await_reply, take_reply, timeout, Obeyed
<1>1. /\ con[c].pc \in {"gone", "claim", "send", "wait"}
      /\ \A d \in Consumers : UrlAt(d) /\ Unattached(d)
  BY DEF launch, claim, busy, request, await_reply, take_reply, timeout, UrlInv
<1>2. ~con[c].attached /\ con[c].url = "none"
  BY <1>1 DEF Unattached
<1>3. con'[c].attached = FALSE /\ con'[c].url = "none"
  BY <1>2, Connecting, FieldTypes DEF Fresh, Moves, Becomes, await_reply
<1>4. \A d \in Consumers : d # c => con'[d] = con[d]
  BY Connecting DEF Fresh, Moves, Becomes, await_reply
<1>5. ASSUME NEW d \in Consumers PROVE UrlAt(d)' /\ Unattached(d)'
  <2>1. CASE d = c
    BY <1>3, <2>1 DEF UrlAt, Unattached
  <2>2. CASE d # c
    <3>1. con'[d] = con[d]
      BY <1>4, <1>5, <2>2
    <3>2. UrlAt(d)'
      BY <1>0, <1>1, <1>5, <3>1, UrlFrame
    <3> QED
      BY <1>1, <1>5, <3>1, <3>2 DEF Unattached
  <2> QED
    BY <2>1, <2>2
<1> QED
  BY <1>0, <1>5 DEF UrlInv, Noticed

\* The owner of a slot changes, and the URL of the new one, if any, is unknown.
LEMMA UrlReowned ==
  ASSUME TypeInv, UrlInv, NEW c \in Consumers, UNCHANGED prod,
         \A d \in Consumers : d # c => con'[d] = con[d],
         con'[c].url = "none", Unattached(c)',
         \A j \in Slots : \/ slot'[j] = slot[j]
                          \/ \E o \in {"nobody", "dead", c} : Reowned(j, o)
  PROVE  UrlInv'
<1>0. /\ \A d \in Consumers : /\ UrlAt(d) /\ Unattached(d) /\ con[d].index \in Slots
                              /\ d \notin {"nobody", "dead"}
      /\ prod.i \in Slots /\ Noticed /\ \A t : Obeyed(t, t)
  BY FieldTypes, ConstantTypes DEF UrlInv, Obeyed
<1>1. ASSUME NEW d \in Consumers PROVE UrlAt(d)' /\ Unattached(d)'
  <2>1. CASE d = c
    BY <2>1 DEF UrlAt
  <2>2. CASE d # c
    <3>1. con'[d] = con[d]
      BY <1>1, <2>2
    <3> DEFINE i == con[d].index
    <3>2. slot'[i].owner = d => /\ slot[i].owner = d /\ slot'[i].cmds = slot[i].cmds
                                /\ Obeyed(slot[i], slot'[i])
      BY <1>0, <1>1, <2>2 DEF Reowned
    <3>3. UrlAt(d)'
      BY <1>0, <1>1, <3>1, <3>2, UrlFrame
    <3> QED
      BY <1>0, <1>1, <3>1, <3>3 DEF Unattached
  <2> QED
    BY <2>1, <2>2
<1>2. Noticed'
  <2>1. slot'[prod.i].had_subscriber = slot[prod.i].had_subscriber
    BY <1>0 DEF Reowned, Obeyed
  <2> QED
    BY <1>0, <2>1 DEF Noticed
<1> QED
  BY <1>1, <1>2 DEF UrlInv

\* The owner sends a command.
LEMMA UrlSent ==
  ASSUME TypeInv, UrlInv, NEW c \in Consumers, NEW cmd \in Commands, UNCHANGED prod,
         slot' = Sent(c, cmd), \A d \in Consumers : d # c => con'[d] = con[d],
         con'[c].index = con[c].index, con'[c].attached = con[c].attached,
         con'[c].url = IF IsUrl(cmd) /\ Accepted(c) THEN cmd.arg ELSE con[c].url,
         Unattached(c)'
  PROVE  UrlInv'
<1>0. /\ \A d \in Consumers : UrlAt(d) /\ Unattached(d) /\ con[d].index \in Slots
      /\ prod.i \in Slots /\ Noticed
      /\ \A j \in Slots : slot[j].cmds \in Seq(Commands)
  BY FieldTypes DEF UrlInv
<1>1. /\ \A j \in Slots : slot'[j].owner = slot[j].owner /\ Obeyed(slot[j], slot'[j])
      /\ Accepted(c) => slot'[con[c].index].cmds = Append(slot[con[c].index].cmds, cmd)
      /\ ~Accepted(c) => slot'[con[c].index].cmds = slot[con[c].index].cmds
      /\ \A j \in Slots : j # con[c].index => slot'[j] = slot[j]
  BY SendEffect DEF Claimed
<1>2. UrlAt(c)'
  <2> DEFINE i == con[c].index
             q == slot[i].cmds
  <2>1. CASE ~Accepted(c)
    BY <1>0, <1>1, <2>1, UrlFrame
  <2>2. CASE Accepted(c)
    <3>1. /\ IsUrl(cmd) => Pending(Append(q, cmd), cmd.arg)
          /\ \A u : Pending(q, u) /\ ~IsUrl(cmd) => Pending(Append(q, cmd), u)
          /\ NoUrl(q) /\ ~IsUrl(cmd) => NoUrl(Append(q, cmd))
      BY <1>0, PendingAppend
    <3>2. slot'[i].cmds = Append(q, cmd) /\ Obeyed(slot[i], slot'[i])
          /\ slot'[i].owner = slot[i].owner
      BY <1>0, <1>1, <2>2
    <3>3. CASE IsUrl(cmd)
      <4>1. con'[c].url = cmd.arg /\ con'[c].index = i /\ Pending(slot'[i].cmds, cmd.arg)
        BY <2>2, <3>1, <3>2, <3>3
      <4> QED
        BY <4>1 DEF UrlAt
    <3>4. CASE ~IsUrl(cmd)
      <4> DEFINE url == con[c].url
      <4>1. con'[c].url = url /\ con'[c].index = i /\ con'[c].attached = con[c].attached
        BY <3>4
      <4>2. Shown(i, url) => Shown(i, url)'
        BY <3>2, <4>1 DEF Shown, Obeyed
      <4>3. SUFFICES ASSUME url # "none", Owns(c)
                     PROVE  \/ Pending(slot'[i].cmds, url)
                            \/ NoUrl(slot'[i].cmds) /\ (slot'[i].early \/ Shown(i, url)')
        BY <3>2, <4>1 DEF UrlAt, Owns
      <4>4. \/ Pending(q, url)
            \/ NoUrl(q) /\ (slot[i].early \/ Shown(i, url))
        BY <1>0, <4>3 DEF UrlAt
      <4> HIDE DEF q
      <4> QED
        BY <3>1, <3>2, <3>4, <4>2, <4>4 DEF Obeyed
    <3> QED
      BY <3>3, <3>4
  <2> QED
    BY <2>1, <2>2
<1>3. ASSUME NEW d \in Consumers, d # c PROVE UrlAt(d)' /\ Unattached(d)'
  <2>1. con'[d] = con[d]
    BY <1>3
  <2> DEFINE i == con[d].index
  <2>2. slot'[i].owner = d => slot'[i].cmds = slot[i].cmds
    BY <1>0, <1>1, <1>3 DEF Accepted, Owns
  <2>3. slot'[i].owner = d => /\ slot[i].owner = d /\ slot'[i].cmds = slot[i].cmds
                              /\ Obeyed(slot[i], slot'[i])
    BY <1>0, <1>1, <1>3, <2>2
  <2>4. UrlAt(d)'
    BY <1>0, <1>3, <2>1, <2>3, UrlFrame
  <2> QED
    BY <1>0, <1>3, <2>1, <2>4 DEF Unattached
<1>4. Noticed'
  BY <1>0, <1>1 DEF Noticed, Obeyed
<1> QED
  BY <1>2, <1>3, <1>4 DEF UrlInv

LEMMA UrlUsing ==
  ASSUME TypeInv, UrlInv, NEW c \in Consumers,
         \/ open_view(c) \/ start_url(c) \/ init(c) \/ update(c) \/ keyCallback(c)
         \/ mouse(c) \/ resize(c) \/ reattach(c) \/ close(c) \/ crash(c)
  PROVE  UrlInv'
<1>0. UNCHANGED prod
  BY DEF open_view, start_url, init, update, keyCallback, mouse, resize, reattach, close,
         crash, SendUrl, resizeCallback
<1>00. UrlAt(c) /\ Unattached(c)
  BY DEF UrlInv
<1>1. CASE open_view(c)
  <2>1. con[c].url = "none" /\ ~con[c].attached
    BY <1>00, <1>1 DEF Unattached, open_view
  <2>2. con'[c].url = "none" /\ Unattached(c)' /\ \A d \in Consumers : d # c => con'[d] = con[d]
    BY <1>1, <2>1, Connecting DEF Fresh, Becomes, Unattached
  <2>3. \A j \in Slots : \/ slot'[j] = slot[j]
                         \/ \E o \in {"nobody", "dead", c} : Reowned(j, o)
    BY <1>1, OwnerEffect
  <2> QED
    BY <1>0, <2>2, <2>3, UrlReowned
<1>2. CASE reattach(c)
  <2>1. con'[c].url = "none" /\ con'[c].pc = "run" /\ \A d \in Consumers : d # c => con'[d] = con[d]
    BY <1>2, Using DEF Becomes
  <2>2. Unattached(c)'
    BY <2>1 DEF Unattached
  <2>3. \A j \in Slots : \/ slot'[j] = slot[j]
                         \/ \E o \in {"nobody", "dead", c} : Reowned(j, o)
    BY <1>2, OwnerEffect
  <2> QED
    BY <1>0, <2>1, <2>2, <2>3, UrlReowned
<1>3. CASE close(c) \/ crash(c)
  <2>1. con'[c].url = "none" /\ ~con'[c].attached /\ \A d \in Consumers : d # c => con'[d] = con[d]
    BY <1>3, Connecting DEF Fresh, Becomes
  <2>2. Unattached(c)'
    BY <2>1 DEF Unattached
  <2>3. \A j \in Slots : \/ slot'[j] = slot[j]
                         \/ \E o \in {"nobody", "dead", c} : Reowned(j, o)
    BY <1>3, OwnerEffect
  <2> QED
    BY <1>0, <2>1, <2>2, <2>3, UrlReowned
<1>4. ASSUME NEW color \in Urls, NEW pc \in {"init", "run"},
             slot' = Sent(c, [type |-> "kSetUrl", arg |-> color]),
             Becomes(c, pc, con[c].index, con[c].mine, con[c].attached, UrlAfter(c, color),
                     con[c].texture, con[c].have)
      PROVE  UrlInv'
  <2> DEFINE cmd == [type |-> "kSetUrl", arg |-> color]
  <2>1. cmd \in Commands /\ IsUrl(cmd) /\ cmd.arg = color
    BY <1>4, SentCommands DEF IsUrl
  <2>2. slot' = Sent(c, cmd)
    BY <1>4
  <2> HIDE DEF cmd
  <2>3. /\ \A d \in Consumers : d # c => con'[d] = con[d]
        /\ con'[c].index = con[c].index /\ con'[c].attached = con[c].attached
        /\ con'[c].url = IF IsUrl(cmd) /\ Accepted(c) THEN cmd.arg ELSE con[c].url
    BY <1>4, <2>1 DEF Becomes, UrlAfter
  <2>4. Unattached(c)'
    BY <1>4 DEF Becomes, Unattached
  <2> QED
    BY <1>0, <2>1, <2>2, <2>3, <2>4, UrlSent
<1>5. CASE keyCallback(c)
  BY <1>4, <1>5, Using
<1>6. CASE start_url(c)
  <2>1. CASE Moves(c, "init") /\ UNCHANGED slot
    <3>1. /\ \A d \in Consumers : d # c => con'[d] = con[d]
          /\ con'[c].index = con[c].index /\ con'[c].attached = con[c].attached
          /\ con'[c].url = con[c].url /\ con'[c].pc = "init" /\ UNCHANGED slot
      BY <2>1 DEF Moves, Becomes
    <3>2. \A d \in Consumers : UrlAt(d) /\ Unattached(d)
      BY DEF UrlInv
    <3>3. ASSUME NEW d \in Consumers PROVE UrlAt(d)' /\ Unattached(d)'
      <4>1. con'[d].index = con[d].index /\ con'[d].attached = con[d].attached
            /\ con'[d].url = con[d].url /\ con'[d].pc \in {con[d].pc, "init"}
        BY <3>1, <3>3
      <4>2. UrlAt(d)'
        BY <1>0, <3>1, <3>2, <3>3, <4>1, UrlFrame DEF Obeyed
      <4> QED
        BY <3>2, <3>3, <4>1, <4>2 DEF Unattached
    <3> QED
      BY <1>0, <3>1, <3>3 DEF UrlInv, Noticed
  <2> QED
    BY <1>4, <1>6, <2>1, Using
<1>7. CASE init(c) \/ resize(c)
  <2>1. PICK w \in WindowSizes :
          /\ slot' = Sent(c, [type |-> "kResize", arg |-> w])
          /\ Becomes(c, "run", con[c].index, con[c].mine, con[c].attached, con[c].url, w, FALSE)
    BY <1>7, Using
  <2> DEFINE cmd == [type |-> "kResize", arg |-> w]
  <2>2. cmd \in Commands /\ ~IsUrl(cmd) /\ slot' = Sent(c, cmd)
    BY <2>1, SentCommands DEF IsUrl
  <2> HIDE DEF cmd
  <2>3. /\ \A d \in Consumers : d # c => con'[d] = con[d]
        /\ con'[c].index = con[c].index /\ con'[c].attached = con[c].attached
        /\ con'[c].url = con[c].url
    BY <2>1 DEF Becomes
  <2>4. Unattached(c)'
    BY <2>1 DEF Becomes, Unattached
  <2> QED
    BY <1>0, <2>2, <2>3, <2>4, UrlSent
<1>8. CASE mouse(c)
  <2> DEFINE cmd == [type |-> "kMouse", arg |-> 0]
  <2>1. cmd \in Commands /\ ~IsUrl(cmd) /\ slot' = Sent(c, cmd) /\ UNCHANGED con
    BY <1>8, SentCommands DEF IsUrl, mouse
  <2> HIDE DEF cmd
  <2>2. Unattached(c)'
    BY <1>00, <2>1 DEF Unattached
  <2> QED
    BY <1>0, <2>1, <2>2, UrlSent
<1>9. CASE update(c)
  <2>1. /\ \A d \in Consumers : d # c => con'[d] = con[d]
        /\ con'[c].index = con[c].index /\ con'[c].attached = con[c].attached
        /\ con'[c].url = con[c].url /\ con'[c].pc = "run"
    BY <1>9, Using DEF Becomes
  <2>2. /\ \A d \in Consumers : UrlAt(d) /\ Unattached(d) /\ con[d].index \in Slots
        /\ Noticed /\ prod.i \in Slots
    BY FieldTypes DEF UrlInv
  <2>4. \A j \in Slots : /\ slot'[j].owner = slot[j].owner /\ slot'[j].cmds = slot[j].cmds
                         /\ Obeyed(slot[j], slot'[j])
    BY <1>9, BeatenEffect DEF update, Claimed
  <2>3. ASSUME NEW d \in Consumers PROVE UrlAt(d)' /\ Unattached(d)'
    <3>1. con'[d].index = con[d].index /\ con'[d].attached = con[d].attached
          /\ con'[d].url = con[d].url /\ con'[d].pc \in {con[d].pc, "run"}
      BY <2>1, <2>3
    <3>2. UrlAt(d)'
      BY <1>0, <2>2, <2>3, <2>4, <3>1, UrlFrame
    <3> QED
      BY <2>2, <2>3, <3>1, <3>2 DEF Unattached
  <2> QED
    BY <1>0, <2>2, <2>3, <2>4 DEF UrlInv, Noticed, Obeyed
<1> QED
  BY <1>1, <1>2, <1>3, <1>5, <1>6, <1>7, <1>8, <1>9

LEMMA UrlStep == TypeInv /\ UrlInv /\ [Next]_vars => UrlInv'
<1> SUFFICES ASSUME TypeInv, UrlInv, [Next]_vars PROVE UrlInv'
  OBVIOUS
<1>1. CASE Producer
  BY <1>1, UrlProducer
<1>2. CASE \E c \in Consumers :
             \/ launch(c) \/ Continues(c) \/ timeout(c) \/ keyCallback(c) \/ mouse(c)
             \/ resize(c) \/ reattach(c) \/ close(c) \/ crash(c)
  BY <1>2, UrlConnecting, UrlUsing DEF Continues
<1>3. ASSUME UNCHANGED <<prod, con>>,
             \A j \in Slots : \/ slot'[j] = slot[j]
                              \/ /\ slot'[j].owner = slot[j].owner
                                 /\ slot'[j].cmds = slot[j].cmds /\ Obeyed(slot[j], slot'[j])
      PROVE  UrlInv'
  <2>0. /\ \A d \in Consumers : UrlAt(d) /\ Unattached(d) /\ con[d].index \in Slots
        /\ prod.i \in Slots /\ Noticed /\ \A t : Obeyed(t, t)
    BY FieldTypes, ConstantTypes DEF UrlInv, Obeyed
  <2>1. ASSUME NEW d \in Consumers PROVE UrlAt(d)' /\ Unattached(d)'
    <3> DEFINE i == con[d].index
    <3>1. slot'[i].owner = d => /\ slot[i].owner = d /\ slot'[i].cmds = slot[i].cmds
                                /\ Obeyed(slot[i], slot'[i])
      BY <1>3, <2>0, <2>1
    <3>2. UrlAt(d)'
      BY <1>3, <2>0, <2>1, <3>1, UrlFrame
    <3> QED
      BY <1>3, <2>0, <2>1, <3>2 DEF Unattached
  <2>2. slot'[prod.i].had_subscriber = slot[prod.i].had_subscriber
    BY <1>3, <2>0 DEF Obeyed
  <2> QED
    BY <1>3, <2>0, <2>1, <2>2 DEF UrlInv, Noticed
<1>4. CASE Elapses
  <2>1. UNCHANGED <<prod, con>>
    BY <1>4 DEF Elapses, control_owner_goes_stale, owner_goes_stale, grace_elapses
  <2>2. CASE control_owner_goes_stale
    BY <1>3, <2>1, <2>2 DEF control_owner_goes_stale
  <2>3. CASE \E i \in Slots : owner_goes_stale(i) \/ grace_elapses(i)
    <3>1. \A j \in Slots : \/ slot'[j] = slot[j]
                           \/ /\ slot'[j].owner = slot[j].owner
                              /\ slot'[j].cmds = slot[j].cmds /\ Obeyed(slot[j], slot'[j])
      BY <2>3, TimeEffect
    <3> QED
      BY <1>3, <2>1, <3>1
  <2> QED
    BY <1>4, <2>2, <2>3 DEF Elapses
<1>5. CASE UNCHANGED vars
  BY <1>3, <1>5 DEF vars
<1> QED
  BY <1>1, <1>2, <1>4, <1>5 DEF Next

\* A URL that was sent and received is what the view shows until its owner
\* sends another; the colour the producer draws by lot for a new subscriber
\* replaces it only when the URL came before the producer noticed the sender.
THEOREM UrlStays == Spec => []UrlKept
<1>1. TypeInv /\ UrlInv /\ [Next]_vars => UrlInv'
  BY UrlStep
<1>2. UrlInv => UrlKept
  BY DEF UrlInv, UrlAt, UrlKept, Pending, IsUrl, Shown
<1> QED
  BY <1>1, <1>2, UrlInit, Typed, PTL DEF Spec

-----------------------------------------------------------------------------
(* The promise of a view                                                    *)

\* Who is found silent is dead, as long as no window ends for a live consumer.
LEMMA SilenceStep ==
  ASSUME TypeInv, Counters, Silence, [Next]_vars, late' = late
  PROVE  Silence'
<1>1. ASSUME \A j \in Slots : \/ slot'[j] = slot[j] \/ Claimed(slot[j], slot'[j])
                               \/ \E o : Reowned(j, o)
                               \/ ~slot'[j].silent
      PROVE  \A j \in Slots : slot'[j].silent => slot'[j].owner = "dead"
  BY <1>1 DEF Silence, Claimed, Reowned
<1>2. ASSUME NEW o, NEW up, NEW down, Control(o, up, down)
      PROVE  ctl'.silent => ctl'.owner = "dead"
  BY <1>2 DEF Silence, Control
<1>3. ASSUME UNCHANGED ctl PROVE ctl'.silent => ctl'.owner = "dead"
  BY <1>3 DEF Silence
<1>4. ASSUME UNCHANGED slot PROVE \A j \in Slots : slot'[j].silent => slot'[j].owner = "dead"
  BY <1>4 DEF Silence
<1>5. CASE Producer
  <2> DEFINE p == prod.i
             s == slot[p]
  <2>0. s \in SlotRec /\ p \in Slots /\ s.cmds \in Seq(Commands)
    BY FieldTypes
  <2>1. FreeSlot.silent = FALSE /\ allocate_slot.silent = FALSE
    BY DEF FreeSlot, allocate_slot
  <2>2. CASE serve_request
    <3>1. Serves
      BY <2>2, ServeEffect
    <3>2. ctl'.silent => ctl'.owner = "dead"
      BY <1>2, <3>1 DEF Serves
    <3>3. \A j \in Slots : slot'[j] = slot[j] \/ ~slot'[j].silent
      BY <2>1, <3>1 DEF Serves, Becoming
    <3> QED
      BY <1>1, <3>2, <3>3 DEF Silence
  <2>3. CASE control_drained \/ look
    BY <1>3, <1>4, <2>3, LoopEffect DEF Silence
  <2>4. CASE reclaim
    <3>1. UNCHANGED ctl /\ Becoming(p, FreeSlot)
      BY <2>4, LoopEffect
    <3> QED
      BY <1>1, <1>3, <2>1, <3>1 DEF Silence, Becoming
  <2>5. ASSUME UNCHANGED ctl, NEW t, Becoming(p, t), t.owner = s.owner, t.silent => s.silent
        PROVE  Silence'
    <3>1. \A j \in Slots : slot'[j].silent => slot'[j].owner = "dead"
      BY <2>0, <2>5 DEF Becoming, Silence
    <3> QED
      BY <1>3, <2>5, <3>1 DEF Silence
  <2>6. CASE attend
    <3>1. PICK color \in Colors : Becoming(p, Greeted(s, color))
      BY <2>6, LoopEffect
    <3>2. UNCHANGED ctl
      BY <2>6, LoopEffect
    <3> DEFINE t == Greeted(s, color)
    <3>3. t.owner = s.owner /\ (t.silent => s.silent)
      BY <2>0, GreetedFields
    <3> HIDE DEF t
    <3> QED
      BY <2>5, <3>1, <3>2, <3>3 DEF t
  <2>7. CASE execute
    <3>1. UNCHANGED ctl /\ s.cmds # <<>>
      BY <2>7, DrainEffect
    <3>2. s.cmds[1] \in Commands /\ Tail(s.cmds) \in Seq(Commands)
      BY <2>0, <3>1, TailFacts
    <3> DEFINE t == Executed(s, s.cmds[1])
               u == [t EXCEPT !.cmds = Tail(s.cmds)]
    <3>3. Becoming(p, u)
      BY <2>7, DrainEffect
    <3>4. t \in SlotRec /\ Claimed(s, t)
      BY <2>0, <3>2, ExecutedFields
    <3> HIDE DEF t
    <3>5. Claimed(t, u)
      BY <3>2, <3>4, CmdsField
    <3> HIDE DEF u
    <3> QED
      BY <2>5, <3>1, <3>3, <3>4, <3>5 DEF Claimed
  <2>8. CASE \E publishing \in BOOLEAN : finish(publishing)
    <3>1. PICK publishing \in BOOLEAN : finish(publishing)
      BY <2>8
    <3> DEFINE t == IF publishing THEN Published(Regenerated(s)) ELSE Regenerated(s)
    <3>2. UNCHANGED ctl /\ Becoming(p, t)
      BY <3>1, DrainEffect
    <3>3. Claimed(s, t)
      BY <2>0, FinishedFields
    <3> HIDE DEF t
    <3> QED
      BY <2>5, <3>2, <3>3 DEF Claimed
  <2> QED
    BY <1>5, <2>2, <2>3, <2>4, <2>6, <2>7, <2>8 DEF Producer
<1>6. ASSUME NEW c \in Consumers,
             \/ launch(c) \/ claim(c) \/ busy(c) \/ request(c) \/ await_reply(c)
             \/ take_reply(c) \/ timeout(c)
      PROVE  Silence'
  <2>1. UNCHANGED slot
    BY <1>6 DEF launch, claim, busy, request, await_reply, take_reply, timeout
  <2>2. ctl'.silent => ctl'.owner = "dead"
    <3>1. CASE launch(c) \/ busy(c)
      BY <1>3, <3>1 DEF launch, busy
    <3>2. CASE ~(launch(c) \/ busy(c))
      BY <1>2, <1>6, <3>2, ControlEffect
    <3> QED
      BY <3>1, <3>2
  <2> QED
    BY <1>4, <2>1, <2>2 DEF Silence
<1>7. ASSUME NEW c \in Consumers,
             \/ open_view(c) \/ start_url(c) \/ init(c) \/ update(c) \/ keyCallback(c)
             \/ mouse(c) \/ resize(c) \/ reattach(c) \/ close(c) \/ crash(c)
      PROVE  Silence'
  <2>1. ctl'.silent => ctl'.owner = "dead"
    <3>1. CASE crash(c)
      BY <1>2, <3>1, ControlEffect
    <3>2. CASE ~crash(c)
      BY <1>3, <1>7, <3>2 DEF open_view, start_url, init, update, keyCallback, mouse, resize,
                              reattach, close, SendUrl, resizeCallback
    <3> QED
      BY <3>1, <3>2
  <2>2. ASSUME NEW cmd \in Commands, slot' = Sent(c, cmd)
        PROVE  \A j \in Slots : Claimed(slot[j], slot'[j])
    BY <2>2, SendEffect
  <2>3. CASE open_view(c) \/ reattach(c)
    BY <1>1, <2>1, <2>3, OwnerEffect DEF Silence
  <2>4. CASE close(c) \/ crash(c)
    BY <1>1, <2>1, <2>4, OwnerEffect DEF Silence
  <2>5. CASE start_url(c) \/ keyCallback(c)
    BY <1>1, <2>1, <2>2, <2>5, Using, SentCommands DEF Silence
  <2>6. CASE init(c) \/ resize(c)
    BY <1>1, <2>1, <2>2, <2>6, Using, SentCommands DEF Silence
  <2>7. CASE mouse(c)
    BY <1>1, <2>1, <2>2, <2>7, SentCommands DEF Silence, mouse
  <2>8. CASE update(c)
    BY <1>1, <2>1, <2>8, BeatenEffect DEF Silence, update
  <2> QED
    BY <1>7, <2>3, <2>4, <2>5, <2>6, <2>7, <2>8
<1>8. CASE Elapses
  <2>0. late # late + 1
    BY DEF Counters
  <2>1. CASE control_owner_goes_stale
    <3>1. ctl.owner = "dead" /\ UNCHANGED slot
      BY <2>0, <2>1 DEF control_owner_goes_stale, Ends
    <3> QED
      BY <1>4, <2>1, <3>1, TimeEffect DEF Silence
  <2>2. ASSUME NEW i \in Slots, owner_goes_stale(i) PROVE Silence'
    <3>1. slot[i].owner = "dead" /\ UNCHANGED ctl
      BY <2>0, <2>2 DEF owner_goes_stale, Ends
    <3> QED
      BY <1>3, <2>2, <3>1, TimeEffect DEF Silence
  <2>3. ASSUME NEW i \in Slots, grace_elapses(i) PROVE Silence'
    <3>1. UNCHANGED ctl
      BY <2>3 DEF grace_elapses
    <3> QED
      BY <1>3, <2>3, <3>1, TimeEffect DEF Silence
  <2> QED
    BY <1>8, <2>1, <2>2, <2>3 DEF Elapses
<1>9. CASE UNCHANGED vars
  BY <1>3, <1>4, <1>9 DEF vars, Silence
<1> QED
  BY <1>5, <1>6, <1>7, <1>8, <1>9 DEF Next, Continues

LEMMA PromiseInit == Init => Silence /\ PromiseInv
<1> SUFFICES ASSUME Init PROVE Silence /\ PromiseInv
  OBVIOUS
<1>1. ASSUME NEW c \in Consumers PROVE con[c].pc = "gone"
  BY <1>1 DEF Init, NoConsumer
<1>2. ctl.up = <<>> /\ ctl.down = <<>>
  BY DEF Init
<1>3. Silence
  BY DEF Init, Silence, FreeSlot
<1> QED
  BY <1>1, <1>2, <1>3 DEF PromiseInv, Holder, Single, Promised, Had, Asking, Told, Attached

\* Who waits holds the channel, so only one does.
LEMMA OneWaits ==
  ASSUME Holder, NEW c \in Consumers, NEW d \in Consumers, Asking(c), Asking(d)
  PROVE  c = d
BY DEF Holder

\* A slot as far as promises go; it may have been used lately.
Kept(i) ==
  /\ slot'[i].pub = slot[i].pub /\ slot'[i].owner = slot[i].owner
  /\ slot'[i].idle => slot[i].idle

\* Nobody is told more, and who has a view has it still, or has just got it.
LEMMA ViewFrame ==
  ASSUME TypeInv, Promised, Had,
         \A c \in Consumers, i \in Slots : Told(c, i)' => Told(c, i) /\ Kept(i),
         \A c \in Consumers : con'[c].pc = "assigned" => con'[c].mine,
         \A c \in Consumers : Attached(c)' =>
           \/ /\ Attached(c) /\ con'[c].attached = con[c].attached
              /\ con'[c].index = con[c].index /\ Kept(con[c].index)
           \/ Owns(c)' /\ slot'[con'[c].index].pub /\ ~slot'[con'[c].index].idle
  PROVE  Promised' /\ Had'
<1>1. Promised'
  <2>1. ASSUME NEW c \in Consumers, NEW i \in Slots, Told(c, i)'
        PROVE  slot'[i].pub /\ slot'[i].owner = "nobody" /\ ~slot'[i].idle
    BY <2>1 DEF Promised, Kept
  <2>2. ASSUME NEW c \in Consumers, NEW d \in Consumers, NEW i \in Slots, Told(c, i)', Told(d, i)'
        PROVE  c = d
    BY <2>2 DEF Promised
  <2> QED
    BY <2>1, <2>2 DEF Promised
<1>2. ASSUME NEW c \in Consumers, Attached(c)'
      PROVE  Owns(c)' /\ slot'[con'[c].index].pub /\ ~slot'[con'[c].index].idle
  <2>1. CASE /\ Attached(c) /\ con'[c].attached = con[c].attached
             /\ con'[c].index = con[c].index /\ Kept(con[c].index)
    <3>1. Owns(c) /\ slot[con[c].index].pub /\ ~slot[con[c].index].idle
      BY <1>2, <2>1 DEF Had
    <3> QED
      BY <2>1, <3>1 DEF Kept, Owns
  <2> QED
    BY <1>2, <2>1
<1> QED
  BY <1>1, <1>2 DEF Had

\* Only consumers that do not wait change what they do.
LEMMA RingFrame ==
  ASSUME TypeInv, Single, ctl'.up = ctl.up, ctl'.down = ctl.down,
         \A c \in Consumers : con[c].pc = "wait" => con'[c].pc = "wait"
  PROVE  Single'
<1>1. ctl.up # <<>> => ctl.up[1].from \in Consumers
  <2>1. ctl.up \in Seq(Requests)
    BY FieldTypes
  <2>2. ctl.up # <<>> => ctl.up[1] \in Requests
    BY <2>1, TailFacts
  <2> QED
    BY <2>2 DEF Requests
<1>2. ctl.down # <<>> => ctl.down[1].from \in Consumers
  <2>1. ctl.down \in Seq(Replies)
    BY FieldTypes
  <2>2. ctl.down # <<>> => ctl.down[1] \in Replies
    BY <2>1, TailFacts
  <2> QED
    BY <2>2 DEF Replies
<1> QED
  BY <1>1, <1>2 DEF Single

\* A step that leaves the control channel and the consumers alone; slots that
\* nobody was told or has may change.
LEMMA PromiseFrame ==
  ASSUME TypeInv, PromiseInv, UNCHANGED <<ctl, con, abandoned>>,
         \A i \in Slots :
           Kept(i) \/ (~abandoned => /\ \A c \in Consumers : ~Told(c, i)
                                     /\ \A c \in Consumers : Attached(c) => con[c].index # i)
  PROVE  PromiseInv'
<1>1. Holder'
  BY DEF PromiseInv, Holder, Asking
<1>2. ASSUME ~abandoned PROVE Single' /\ Promised' /\ Had'
  <2>1. Single /\ Promised /\ Had
    BY <1>2 DEF PromiseInv
  <2>2. Single'
    BY <2>1, RingFrame
  <2>3. \A c \in Consumers, i \in Slots : Told(c, i)' => Told(c, i) /\ Kept(i)
    BY <1>2 DEF Told
  <2>4. \A c \in Consumers : con'[c].pc = "assigned" => con'[c].mine
    BY <2>1 DEF Promised
  <2>5. \A c \in Consumers : Attached(c)' =>
          /\ Attached(c) /\ con'[c].attached = con[c].attached
          /\ con'[c].index = con[c].index /\ Kept(con[c].index)
    BY <1>2, FieldTypes DEF Attached
  <2> QED
    BY <2>1, <2>2, <2>3, <2>4, <2>5, ViewFrame
<1> QED
  BY <1>1, <1>2 DEF PromiseInv

\* Somebody asks: a free slot is promised to it.
LEMMA PromiseServe == TypeInv /\ PromiseInv /\ serve_request => PromiseInv'
<1> SUFFICES ASSUME TypeInv, PromiseInv, serve_request PROVE PromiseInv'
  OBVIOUS
<1>1. UNCHANGED <<prod, con, abandoned>> /\ Serves
  BY ServeEffect
<1>2. Holder'
  BY <1>1 DEF Serves, Control, PromiseInv, Holder, Asking
<1>3. ASSUME ~abandoned PROVE Single' /\ Promised' /\ Had'
  <2>0. Single /\ Promised /\ Had /\ Holder
    BY <1>3 DEF PromiseInv
  <2>1. PICK r \in Replies :
          /\ r.from = ctl.up[1].from /\ ctl.up # <<>>
          /\ Control(ctl.owner, Tail(ctl.up), IF Room(ctl.down, ControlCells)
                                              THEN Append(ctl.down, r) ELSE ctl.down)
          /\ \/ /\ r.type = "kSlotAssigned"
                /\ ~slot[r.index].pub /\ Becoming(r.index, allocate_slot)
             \/ r.type = "kSlotUnavailable" /\ UNCHANGED slot
    BY <1>1 DEF Serves
  <2>2. ctl.down = <<>> /\ Len(ctl.up) = 1 /\ con[r.from].pc = "wait"
        /\ r.from \in Consumers /\ r.index \in Slots
    BY <2>0, <2>1 DEF Single, Replies
  <2>3. ctl'.up = <<>> /\ ctl'.down = Append(ctl.down, r)
    <3>1. Room(ctl.down, ControlCells)
      BY <2>2, ConstantTypes DEF Room
    <3>2. Tail(ctl.up) = <<>>
      BY <2>1, <2>2, TailFacts, FieldTypes
    <3> QED
      BY <2>1, <3>1, <3>2 DEF Control
  <2>4. ctl'.down # <<>> /\ Len(ctl'.down) = 1 /\ ctl'.down[1] = r
    BY <2>2, <2>3, AppendFacts, FieldTypes
  <2>5. Single'
    BY <1>1, <2>2, <2>3, <2>4 DEF Single
  <2>6. \A c \in Consumers, i \in Slots : Told(c, i)' =>
          \/ con[c].pc = "assigned" /\ con[c].index = i
          \/ con[c].pc = "wait" /\ r.type = "kSlotAssigned" /\ r.index = i
    BY <1>1, <2>4 DEF Told
  <2>7. CASE r.type = "kSlotAssigned" /\ ~slot[r.index].pub /\ Becoming(r.index, allocate_slot)
    <3>1. slot'[r.index].pub /\ slot'[r.index].owner = "nobody" /\ ~slot'[r.index].idle
      BY <2>7 DEF Becoming, allocate_slot, FreeSlot
    <3>2. \A j \in Slots : j # r.index => slot'[j] = slot[j]
      BY <2>7 DEF Becoming
    <3>3. ASSUME NEW c \in Consumers, con[c].pc = "assigned"
          PROVE  /\ con[c].index # r.index /\ slot[con[c].index].pub
                 /\ slot[con[c].index].owner = "nobody" /\ ~slot[con[c].index].idle
      BY <2>0, <2>7, <3>3, FieldTypes DEF Promised, Told
    <3>4. ASSUME NEW c \in Consumers, NEW i \in Slots, Told(c, i)'
          PROVE  slot'[i].pub /\ slot'[i].owner = "nobody" /\ ~slot'[i].idle
      BY <2>6, <3>1, <3>2, <3>3, <3>4
    <3>5. ASSUME NEW c \in Consumers, NEW d \in Consumers, NEW i \in Slots, Told(c, i)', Told(d, i)'
          PROVE  c = d
      <4>1. CASE con[c].pc = "assigned" /\ con[c].index = i
        <5>1. con[d].pc = "assigned" /\ con[d].index = i
          BY <2>6, <3>3, <3>5, <4>1
        <5> QED
          BY <2>0, <3>5, <4>1, <5>1 DEF Promised, Told
      <4>2. CASE con[c].pc = "wait" /\ r.index = i
        <5>1. con[d].pc = "wait"
          BY <2>6, <3>3, <3>5, <4>2
        <5> QED
          BY <2>0, <4>2, <5>1, OneWaits DEF Asking
      <4> QED
        BY <2>6, <3>5, <4>1, <4>2
    <3>6. Promised'
      BY <1>1, <2>0, <3>4, <3>5 DEF Promised
    <3>7. ASSUME NEW c \in Consumers, Attached(c)'
          PROVE  Owns(c)' /\ slot'[con'[c].index].pub /\ ~slot'[con'[c].index].idle
      <4>1. Owns(c) /\ slot[con[c].index].pub /\ ~slot[con[c].index].idle /\ con[c].index \in Slots
        BY <1>1, <2>0, <3>7, FieldTypes DEF Attached, Had
      <4>2. slot'[con[c].index] = slot[con[c].index]
        BY <2>7, <3>2, <4>1
      <4> QED
        BY <1>1, <4>1, <4>2 DEF Owns
    <3> QED
      BY <2>5, <3>6, <3>7 DEF Had
  <2>8. CASE r.type = "kSlotUnavailable" /\ UNCHANGED slot
    <3>1. \A c \in Consumers, i \in Slots : Told(c, i)' => Told(c, i) /\ Kept(i)
      BY <2>6, <2>8 DEF Told, Kept
    <3>2. \A c \in Consumers : con'[c].pc = "assigned" => con'[c].mine
      BY <1>1, <2>0 DEF Promised
    <3>3. \A c \in Consumers : Attached(c)' =>
            /\ Attached(c) /\ con'[c].attached = con[c].attached
            /\ con'[c].index = con[c].index /\ Kept(con[c].index)
      BY <1>1, <2>8 DEF Attached, Kept
    <3> QED
      BY <2>0, <2>5, <3>1, <3>2, <3>3, ViewFrame
  <2> QED
    BY <2>1, <2>7, <2>8
<1> QED
  BY <1>1, <1>2, <1>3 DEF PromiseInv

\* A slot that is told or had is not reclaimed: it is neither idle nor silent.
LEMMA PromiseReclaim == TypeInv /\ Silence /\ PromiseInv /\ reclaim => PromiseInv'
<1> SUFFICES ASSUME TypeInv, Silence, PromiseInv, reclaim PROVE PromiseInv'
  OBVIOUS
<1> DEFINE p == prod.i
<1>1. /\ UNCHANGED <<ctl, abandoned>> /\ Reclaimable(slot[p])
      /\ Becoming(p, FreeSlot)
      /\ \A c \in Consumers : /\ con'[c].attached = (con[c].attached /\ con[c].index # p)
                              /\ con'[c].pc = con[c].pc /\ con'[c].index = con[c].index
                              /\ con'[c].mine = con[c].mine
  BY LoopEffect
<1>2. Holder'
  BY <1>1 DEF PromiseInv, Holder, Asking
<1>3. ASSUME ~abandoned PROVE Single' /\ Promised' /\ Had'
  <2>0. Single /\ Promised /\ Had
    BY <1>3 DEF PromiseInv
  <2>1. Single'
    BY <1>1, <2>0, RingFrame
  <2>2. \A j \in Slots : j # p => Kept(j)
    BY <1>1 DEF Becoming, Kept
  <2>a. p \in Slots /\ (slot[p].idle \/ slot[p].owner = "dead")
    BY <1>1, FieldTypes DEF Reclaimable, Silence
  <2>3. \A c \in Consumers : ~Told(c, p)
    BY <2>0, <2>a DEF Promised
  <2>4. \A c \in Consumers : Attached(c) => con[c].index # p /\ con[c].attached
    BY <2>0, <2>a, ConstantTypes DEF Had, Owns
  <2>5. \A c \in Consumers, i \in Slots : Told(c, i)' => Told(c, i)
    BY <1>1 DEF Told
  <2>6. \A c \in Consumers, i \in Slots : Told(c, i)' => Told(c, i) /\ Kept(i)
    BY <2>2, <2>3, <2>5
  <2>7. \A c \in Consumers : con'[c].pc = "assigned" => con'[c].mine
    BY <1>1, <2>0 DEF Promised
  <2>8. \A c \in Consumers : Attached(c)' =>
          /\ Attached(c) /\ con'[c].attached = con[c].attached
          /\ con'[c].index = con[c].index /\ Kept(con[c].index)
    BY <1>1, <2>2, <2>4, FieldTypes DEF Attached
  <2> QED
    BY <2>0, <2>1, <2>6, <2>7, <2>8, ViewFrame
<1> QED
  BY <1>1, <1>2, <1>3 DEF PromiseInv

LEMMA PromiseProducer == TypeInv /\ Silence /\ PromiseInv /\ Producer => PromiseInv'
<1> SUFFICES ASSUME TypeInv, Silence, PromiseInv, Producer PROVE PromiseInv'
  OBVIOUS
<1> DEFINE p == prod.i
           s == slot[p]
<1>0. s \in SlotRec /\ p \in Slots /\ s.cmds \in Seq(Commands)
  BY FieldTypes
<1>1. ASSUME UNCHANGED <<ctl, con, abandoned>>, NEW t, Becoming(p, t), t.pub = s.pub,
             t.owner = s.owner, t.idle => s.idle
      PROVE  PromiseInv'
  <2>1. \A i \in Slots : Kept(i)
    BY <1>0, <1>1 DEF Becoming, Kept
  <2> QED
    BY <1>1, <2>1, PromiseFrame
<1>2. CASE serve_request
  BY <1>2, PromiseServe
<1>3. CASE reclaim
  BY <1>3, PromiseReclaim
<1>4. CASE control_drained \/ look
  <2>1. UNCHANGED <<ctl, slot, con, abandoned>>
    BY <1>4, LoopEffect
  <2> QED
    BY <2>1, PromiseFrame DEF Kept
<1>5. CASE attend
  <2>1. PICK color \in Colors : Becoming(p, Greeted(s, color))
    BY <1>5, LoopEffect
  <2>2. UNCHANGED <<ctl, con, abandoned>>
    BY <1>5, LoopEffect
  <2> DEFINE t == Greeted(s, color)
  <2>3. t.pub = s.pub /\ t.owner = s.owner /\ (t.idle => s.idle)
    BY <1>0, GreetedFields
  <2> HIDE DEF t
  <2> QED
    BY <1>1, <2>1, <2>2, <2>3 DEF t
<1>6. CASE execute
  <2>1. UNCHANGED <<ctl, con, abandoned>> /\ s.cmds # <<>>
    BY <1>6, DrainEffect
  <2>2. s.cmds[1] \in Commands /\ Tail(s.cmds) \in Seq(Commands)
    BY <1>0, <2>1, TailFacts
  <2> DEFINE t == Executed(s, s.cmds[1])
             u == [t EXCEPT !.cmds = Tail(s.cmds)]
  <2>3. Becoming(p, u)
    BY <1>6, DrainEffect
  <2>4. t \in SlotRec /\ Claimed(s, t)
    BY <1>0, <2>2, ExecutedFields
  <2> HIDE DEF t
  <2>5. Claimed(t, u)
    BY <2>2, <2>4, CmdsField
  <2> HIDE DEF u
  <2> QED
    BY <1>1, <2>1, <2>3, <2>4, <2>5 DEF Claimed
<1>7. CASE \E publishing \in BOOLEAN : finish(publishing)
  <2>1. PICK publishing \in BOOLEAN : finish(publishing)
    BY <1>7
  <2> DEFINE t == IF publishing THEN Published(Regenerated(s)) ELSE Regenerated(s)
  <2>2. UNCHANGED <<ctl, con, abandoned>> /\ Becoming(p, t)
    BY <2>1, DrainEffect
  <2>3. Claimed(s, t)
    BY <1>0, FinishedFields
  <2> HIDE DEF t
  <2> QED
    BY <1>1, <2>2, <2>3 DEF Claimed
<1> QED
  BY <1>2, <1>3, <1>4, <1>5, <1>6, <1>7 DEF Producer

\* Consumer c moves on, neither asking nor holding anything before or after;
\* or it ends, while it asks for nothing.
LEMMA PromiseAside ==
  ASSUME TypeInv, PromiseInv, NEW c \in Consumers, UNCHANGED <<ctl, abandoned>>,
         \A d \in Consumers : d # c => con'[d] = con[d],
         ~Asking(c), con'[c].pc \in {"gone", "claim"},
         \A i \in Slots : Kept(i) \/ (slot[i].owner = c)
  PROVE  PromiseInv'
<1>1. Holder'
  BY DEF PromiseInv, Holder, Asking
<1>2. ASSUME ~abandoned PROVE Single' /\ Promised' /\ Had'
  <2>0. Single /\ Promised /\ Had
    BY <1>2 DEF PromiseInv
  <2>1. \A d \in Consumers : con[d].pc = "wait" => con'[d].pc = "wait"
    BY DEF Asking
  <2>2. Single'
    BY <2>0, <2>1, RingFrame
  <2>3. ASSUME NEW d \in Consumers, NEW i \in Slots, Told(d, i)'
        PROVE  Told(d, i) /\ Kept(i)
    <3>1. d # c
      BY <2>3 DEF Told
    <3>2. Told(d, i)
      BY <2>3, <3>1 DEF Told
    <3>3. slot[i].owner = "nobody"
      BY <2>0, <2>3, <3>2 DEF Promised
    <3> QED
      BY <2>3, <3>2, <3>3, ConstantTypes
  <2>4. \A d \in Consumers : con'[d].pc = "assigned" => con'[d].mine
    BY <2>0 DEF Promised
  <2>5. ASSUME NEW d \in Consumers, Attached(d)'
        PROVE  /\ Attached(d) /\ con'[d].attached = con[d].attached
               /\ con'[d].index = con[d].index /\ Kept(con[d].index)
    <3>1. d # c /\ con'[d] = con[d]
      BY <2>5 DEF Attached
    <3>2. Attached(d) /\ slot[con[d].index].owner = d /\ con[d].index \in Slots
      BY <2>0, <2>5, <3>1, FieldTypes DEF Attached, Had, Owns
    <3> QED
      BY <3>1, <3>2
  <2> QED
    BY <2>0, <2>2, <2>3, <2>4, <2>5, ViewFrame
<1> QED
  BY <1>1, <1>2 DEF PromiseInv

\* It gets the control channel.
LEMMA PromiseClaim ==
  ASSUME TypeInv, Silence, PromiseInv, NEW c \in Consumers, claim(c)
  PROVE  PromiseInv'
<1>1. /\ con[c].pc = "claim" /\ Claimable(ctl) /\ Moves(c, "send")
      /\ Control(c, ctl.up, ctl.down) /\ UNCHANGED <<slot, abandoned>>
  BY Connecting, ControlEffect DEF claim
<1>2. con'[c].pc = "send" /\ \A d \in Consumers : d # c => con'[d] = con[d]
  BY <1>1 DEF Moves, Becomes
<1>a. ctl.owner \in {"nobody", "dead"}
  BY <1>1 DEF Claimable, Silence
<1>3. Holder'
  BY <1>1, <1>2, <1>a, ConstantTypes DEF PromiseInv, Holder, Asking, Control
<1>4. ASSUME ~abandoned PROVE Single' /\ Promised' /\ Had'
  <2>0. Single /\ Promised /\ Had
    BY <1>4 DEF PromiseInv
  <2>1. ctl'.up = ctl.up /\ ctl'.down = ctl.down
    BY <1>1 DEF Control
  <2>2. \A d \in Consumers : con[d].pc = "wait" => con'[d].pc = "wait"
    BY <1>1, <1>2
  <2>3. Single'
    BY <2>0, <2>1, <2>2, RingFrame
  <2>4. \A d \in Consumers, i \in Slots : Told(d, i)' => Told(d, i) /\ Kept(i)
    BY <1>1, <1>2, <2>1 DEF Told, Kept
  <2>5. \A d \in Consumers : con'[d].pc = "assigned" => con'[d].mine
    BY <1>2, <2>0 DEF Promised
  <2>6. \A d \in Consumers : Attached(d)' =>
          /\ Attached(d) /\ con'[d].attached = con[d].attached
          /\ con'[d].index = con[d].index /\ Kept(con[d].index)
    BY <1>1, <1>2 DEF Attached, Kept
  <2> QED
    BY <2>0, <2>3, <2>4, <2>5, <2>6, ViewFrame
<1> QED
  BY <1>1, <1>3, <1>4 DEF PromiseInv

\* It asks: the rings are empty, since whoever has something in them waits.
LEMMA PromiseRequest ==
  ASSUME TypeInv, PromiseInv, NEW c \in Consumers, request(c)
  PROVE  PromiseInv'
<1>0. con[c].pc = "send" /\ UNCHANGED <<slot, abandoned>>
  BY DEF request
<1>1. con'[c].pc \in {"wait", "gone"} /\ \A d \in Consumers : d # c => con'[d] = con[d]
  BY Connecting DEF Moves, Fresh, Becomes
<1>2. Holder /\ \A d \in Consumers : Asking(d) => d = c
  BY <1>0, OneWaits DEF PromiseInv, Asking
<1>3. Holder'
  <2>1. CASE Sends(c)
    <3>1. ctl'.owner = ctl.owner
      BY <2>1, ControlEffect DEF Control
    <3> QED
      BY <1>0, <1>1, <1>2, <3>1 DEF Holder, Asking
  <2>2. CASE ~Sends(c)
    <3>1. con'[c].pc = "gone"
      BY <2>2, Connecting DEF Fresh, Becomes
    <3> QED
      BY <1>1, <1>2, <3>1 DEF Holder, Asking
  <2> QED
    BY <2>1, <2>2
<1>4. ASSUME ~abandoned PROVE Single' /\ Promised' /\ Had'
  <2>0. Single /\ Promised /\ Had
    BY <1>4 DEF PromiseInv
  <2>1. ctl.up = <<>>
    <3>1. SUFFICES ASSUME ctl.up # <<>> PROVE FALSE
      OBVIOUS
    <3>2. ctl.up \in Seq(Requests)
      BY FieldTypes
    <3>3. ctl.up[1] \in Requests
      BY <3>1, <3>2, TailFacts
    <3>4. ctl.up[1].from \in Consumers /\ con[ctl.up[1].from].pc = "wait"
      BY <2>0, <3>1, <3>3 DEF Single, Requests
    <3> QED
      BY <1>0, <1>2, <3>4 DEF Asking
  <2>2. ctl.down = <<>>
    <3>1. SUFFICES ASSUME ctl.down # <<>> PROVE FALSE
      OBVIOUS
    <3>2. ctl.down \in Seq(Replies)
      BY FieldTypes
    <3>3. ctl.down[1] \in Replies
      BY <3>1, <3>2, TailFacts
    <3>4. ctl.down[1].from \in Consumers /\ con[ctl.down[1].from].pc = "wait"
      BY <2>0, <3>1, <3>3 DEF Single, Replies
    <3> QED
      BY <1>0, <1>2, <3>4 DEF Asking
  <2>3. Sends(c)
    BY <1>0, <1>2, <2>1, ConstantTypes DEF Room, Sends, Holder, Asking
  <2>4. PICK r \in Requests : r.from = c /\ Control(ctl.owner, Append(ctl.up, r), ctl.down)
    BY <2>3, ControlEffect
  <2>5. con'[c].pc = "wait" /\ \A d \in Consumers : d # c => con'[d] = con[d]
    BY <2>3, Connecting DEF Moves, Becomes
  <2>6. ctl'.down = <<>> /\ Len(ctl'.up) = 1 /\ ctl'.up[1] = r
    <3>1. ctl'.up = Append(ctl.up, r) /\ ctl'.down = ctl.down /\ ctl.up \in Seq(Requests)
      BY <2>4, FieldTypes DEF Control
    <3> QED
      BY <2>1, <2>2, <3>1, AppendFacts
  <2>7. Single'
    BY <2>4, <2>5, <2>6 DEF Single
  <2>8. \A d \in Consumers, i \in Slots : Told(d, i)' => Told(d, i) /\ Kept(i)
    BY <1>0, <2>5, <2>6 DEF Told, Kept
  <2>9. \A d \in Consumers : con'[d].pc = "assigned" => con'[d].mine
    BY <2>0, <2>5 DEF Promised
  <2>10. \A d \in Consumers : Attached(d)' =>
           /\ Attached(d) /\ con'[d].attached = con[d].attached
           /\ con'[d].index = con[d].index /\ Kept(con[d].index)
    BY <1>0, <2>5 DEF Attached, Kept
  <2> QED
    BY <2>0, <2>7, <2>8, <2>9, <2>10, ViewFrame
<1> QED
  BY <1>0, <1>3, <1>4 DEF PromiseInv

\* It takes the answer, which is its own: it alone waits.
LEMMA PromiseReply ==
  ASSUME TypeInv, PromiseInv, NEW c \in Consumers, take_reply(c)
  PROVE  PromiseInv'
<1> DEFINE reply == ctl.down[1]
<1>0. con[c].pc = "wait" /\ UNCHANGED <<slot, abandoned>> /\ ctl.down # <<>>
      /\ Control("nobody", ctl.up, Tail(ctl.down))
  BY ControlEffect DEF take_reply
<1>1. ctl.down \in Seq(Replies) /\ Head(ctl.down) = reply /\ reply \in Replies
  <2>1. ctl.down \in Seq(Replies)
    BY FieldTypes
  <2> QED
    BY <1>0, <2>1, TailFacts
<1>2. Holder /\ \A d \in Consumers : Asking(d) => d = c
  BY <1>0, OneWaits DEF PromiseInv, Asking
<1>3. /\ \A d \in Consumers : d # c => con'[d] = con[d]
      /\ \/ /\ reply.type = "kSlotAssigned" /\ con'[c].pc = "assigned"
            /\ con'[c].index = reply.index /\ con'[c].mine = (reply.from = c)
         \/ con'[c].pc = "gone"
  BY <1>1, Connecting DEF Fresh, Becomes
<1>4. Holder'
  BY <1>2, <1>3 DEF Holder, Asking
<1>5. ASSUME ~abandoned PROVE Single' /\ Promised' /\ Had'
  <2>0. Single /\ Promised /\ Had
    BY <1>5 DEF PromiseInv
  <2>1. Len(ctl.down) = 1 /\ reply.from = c /\ ctl.up = <<>>
    <3>1. Len(ctl.down) = 1 /\ con[reply.from].pc = "wait" /\ ctl.up = <<>>
      BY <1>0, <2>0 DEF Single
    <3>2. reply.from \in Consumers
      BY <1>1 DEF Replies
    <3> QED
      BY <1>2, <3>1, <3>2 DEF Asking
  <2>2. ctl'.up = <<>> /\ ctl'.down = <<>>
    <3>1. Tail(ctl.down) = <<>>
      BY <1>0, <1>1, <2>1, TailFacts
    <3> QED
      BY <1>0, <2>1, <3>1 DEF Control
  <2>3. Single'
    BY <2>2 DEF Single
  <2>4. ASSUME NEW d \in Consumers, NEW i \in Slots, Told(d, i)'
        PROVE  Told(d, i) /\ Kept(i)
    <3>1. con'[d].pc = "assigned" /\ con'[d].index = i
      BY <2>2, <2>4 DEF Told
    <3>2. CASE d = c
      BY <1>0, <1>3, <3>1, <3>2 DEF Told, Kept
    <3>3. CASE d # c
      BY <1>0, <1>3, <2>4, <3>1, <3>3 DEF Told, Kept
    <3> QED
      BY <3>2, <3>3
  <2>5. \A d \in Consumers : con'[d].pc = "assigned" => con'[d].mine
    BY <1>3, <2>0, <2>1 DEF Promised
  <2>6. \A d \in Consumers : Attached(d)' =>
          /\ Attached(d) /\ con'[d].attached = con[d].attached
          /\ con'[d].index = con[d].index /\ Kept(con[d].index)
    BY <1>0, <1>3 DEF Attached, Kept
  <2> HIDE DEF reply
  <2> QED
    BY <2>0, <2>3, <2>4, <2>5, <2>6, ViewFrame
<1> QED
  BY <1>0, <1>4, <1>5 DEF PromiseInv

\* It opens the view it was told, and finds it free.
LEMMA PromiseOpen ==
  ASSUME TypeInv, PromiseInv, NEW c \in Consumers, open_view(c)
  PROVE  PromiseInv'
<1> DEFINE i == con[c].index
<1>0. con[c].pc = "assigned" /\ UNCHANGED <<ctl, abandoned>> /\ i \in Slots
  BY FieldTypes DEF open_view
<1>1. con'[c].pc \in {"url", "gone"} /\ \A d \in Consumers : d # c => con'[d] = con[d]
  BY Connecting DEF Fresh, Becomes
<1>2. Holder'
  BY <1>0, <1>1 DEF PromiseInv, Holder, Asking
<1>3. ASSUME ~abandoned PROVE Single' /\ Promised' /\ Had'
  <2>0. Single /\ Promised /\ Had
    BY <1>3 DEF PromiseInv
  <2>1. Told(c, i)
    BY <1>0 DEF Told
  <2>2. slot[i].pub /\ slot[i].owner = "nobody" /\ ~slot[i].idle
    BY <1>0, <2>0, <2>1 DEF Promised
  <2>3. Claimable(slot[i])
    BY <2>2 DEF Claimable
  <2>4. con'[c].pc = "url" /\ con'[c].index = i /\ con'[c].attached
    BY <2>2, <2>3, Connecting DEF Becomes
  <2>5. Reowned(i, c) /\ \A j \in Slots : j # i => slot'[j] = slot[j]
    BY <2>2, <2>3, OwnerEffect
  <2>6. slot'[i].owner = c /\ slot'[i].pub /\ ~slot'[i].idle
    BY <2>2, <2>5 DEF Reowned, Painted
  <2>7. Single'
    <3>1. \A d \in Consumers : con[d].pc = "wait" => con'[d].pc = "wait"
      BY <1>0, <1>1
    <3> QED
      BY <1>0, <2>0, <3>1, RingFrame
  <2>8. ASSUME NEW d \in Consumers, NEW j \in Slots, Told(d, j)'
        PROVE  Told(d, j) /\ Kept(j)
    <3>1. d # c
      BY <2>4, <2>8 DEF Told
    <3>2. Told(d, j)
      BY <1>0, <1>1, <2>8, <3>1 DEF Told
    <3>3. j # i
      BY <1>0, <2>0, <2>1, <2>8, <3>1, <3>2 DEF Promised
    <3> QED
      BY <2>5, <2>8, <3>2, <3>3 DEF Kept
  <2>9. \A d \in Consumers : con'[d].pc = "assigned" => con'[d].mine
    BY <1>1, <2>0, <2>4 DEF Promised
  <2>10. ASSUME NEW d \in Consumers, Attached(d)'
         PROVE  \/ /\ Attached(d) /\ con'[d].attached = con[d].attached
                   /\ con'[d].index = con[d].index /\ Kept(con[d].index)
                \/ Owns(d)' /\ slot'[con'[d].index].pub /\ ~slot'[con'[d].index].idle
    <3>1. CASE d = c
      BY <2>4, <2>6, <3>1 DEF Owns
    <3>2. CASE d # c
      <4>1. con'[d] = con[d] /\ Attached(d) /\ con[d].index \in Slots
        BY <1>1, <2>10, <3>2, FieldTypes DEF Attached
      <4>2. slot[con[d].index].owner = d
        BY <2>0, <2>10, <4>1 DEF Had, Owns
      <4>3. con[d].index # i
        BY <2>2, <2>10, <4>2, ConstantTypes
      <4> QED
        BY <2>5, <4>1, <4>3 DEF Kept
    <3> QED
      BY <3>1, <3>2
  <2> QED
    BY <2>0, <2>7, <2>8, <2>9, <2>10, ViewFrame
<1> QED
  BY <1>0, <1>2, <1>3 DEF PromiseInv

\* It uses its view.
LEMMA PromiseUse ==
  ASSUME TypeInv, PromiseInv, NEW c \in Consumers, UNCHANGED <<ctl, abandoned>>,
         con[c].pc \in {"url", "init", "run"}, con'[c].pc \in {"init", "run"},
         con'[c].index = con[c].index, con'[c].attached = con[c].attached,
         \A d \in Consumers : d # c => con'[d] = con[d],
         \A i \in Slots : Kept(i)
  PROVE  PromiseInv'
<1>1. Holder'
  BY DEF PromiseInv, Holder, Asking
<1>2. ASSUME ~abandoned PROVE Single' /\ Promised' /\ Had'
  <2>0. Single /\ Promised /\ Had
    BY <1>2 DEF PromiseInv
  <2>1. \A d \in Consumers : con[d].pc = "wait" => con'[d].pc = "wait"
    OBVIOUS
  <2>2. Single'
    BY <2>0, <2>1, RingFrame
  <2>3. \A d \in Consumers, i \in Slots : Told(d, i)' => Told(d, i) /\ Kept(i)
    BY DEF Told
  <2>4. \A d \in Consumers : con'[d].pc = "assigned" => con'[d].mine
    BY <2>0 DEF Promised
  <2>5. \A d \in Consumers : Attached(d)' =>
          /\ Attached(d) /\ con'[d].attached = con[d].attached
          /\ con'[d].index = con[d].index /\ Kept(con[d].index)
    BY FieldTypes DEF Attached
  <2> QED
    BY <2>0, <2>2, <2>3, <2>4, <2>5, ViewFrame
<1> QED
  BY <1>1, <1>2 DEF PromiseInv

\* An orphan looks for its view again: which nobody is unless somebody
\* abandoned a request.
LEMMA PromiseReattach ==
  ASSUME TypeInv, PromiseInv, NEW c \in Consumers, reattach(c)
  PROVE  PromiseInv'
<1>1. con[c].pc = "run" /\ ~con[c].attached /\ UNCHANGED <<ctl, abandoned>>
      /\ con'[c].pc = "run" /\ \A d \in Consumers : d # c => con'[d] = con[d]
  BY Using DEF reattach, Becomes
<1>2. Holder'
  BY <1>1 DEF PromiseInv, Holder, Asking
<1>3. abandoned
  BY <1>1 DEF PromiseInv, Had, Attached, Owns
<1> QED
  BY <1>1, <1>2, <1>3 DEF PromiseInv

\* It dies, or gives up.
LEMMA PromiseEnd ==
  ASSUME TypeInv, PromiseInv, NEW c \in Consumers, timeout(c) \/ crash(c)
  PROVE  PromiseInv'
<1>1. con'[c].pc = "gone" /\ \A d \in Consumers : d # c => con'[d] = con[d]
  BY Connecting DEF Fresh, Becomes
<1>2. CASE timeout(c)
  <2>1. con[c].pc = "wait" /\ abandoned'
    BY <1>2 DEF timeout
  <2>2. \A d \in Consumers : Asking(d) => d = c
    BY <2>1, OneWaits DEF PromiseInv, Asking
  <2>3. Holder'
    BY <1>1, <2>2 DEF Holder, Asking
  <2> QED
    BY <2>1, <2>3 DEF PromiseInv
<1>3. CASE crash(c)
  <2>1. ctl'.owner = (IF ctl.owner = c THEN "dead" ELSE ctl.owner) /\ ctl'.up = ctl.up
        /\ ctl'.down = ctl.down
    BY <1>3, ControlEffect DEF Control
  <2>2. Holder'
    BY <1>1, <2>1 DEF PromiseInv, Holder, Asking
  <2>3. ASSUME ~abandoned' PROVE Single' /\ Promised' /\ Had'
    <3>0. ~abandoned /\ con[c].pc # "wait"
      BY <1>3, <2>3 DEF crash
    <3>1. Single /\ Promised /\ Had
      BY <3>0 DEF PromiseInv
    <3>2. Single'
      BY <1>1, <2>1, <3>0, <3>1, RingFrame
    <3>3. \A i \in Slots : Kept(i) \/ slot[i].owner = c
      BY <1>3, OwnerEffect DEF Kept
    <3>4. ASSUME NEW d \in Consumers, NEW i \in Slots, Told(d, i)'
          PROVE  Told(d, i) /\ Kept(i)
      <4>1. Told(d, i)
        BY <1>1, <2>1, <3>4 DEF Told
      <4>2. slot[i].owner = "nobody"
        BY <3>1, <3>4, <4>1 DEF Promised
      <4> QED
        BY <3>3, <3>4, <4>1, <4>2, ConstantTypes
    <3>5. \A d \in Consumers : con'[d].pc = "assigned" => con'[d].mine
      BY <1>1, <3>1 DEF Promised
    <3>6. ASSUME NEW d \in Consumers, Attached(d)'
          PROVE  /\ Attached(d) /\ con'[d].attached = con[d].attached
                 /\ con'[d].index = con[d].index /\ Kept(con[d].index)
      <4>1. d # c /\ con'[d] = con[d]
        BY <1>1, <3>6 DEF Attached
      <4>2. Attached(d) /\ slot[con[d].index].owner = d /\ con[d].index \in Slots
        BY <3>1, <3>6, <4>1, FieldTypes DEF Attached, Had, Owns
      <4> QED
        BY <3>3, <4>1, <4>2
    <3> QED
      BY <3>1, <3>2, <3>4, <3>5, <3>6, ViewFrame
  <2> QED
    BY <2>2, <2>3 DEF PromiseInv
<1> QED
  BY <1>2, <1>3

LEMMA PromiseConsumer ==
  ASSUME TypeInv, Silence, PromiseInv, NEW c \in Consumers,
         \/ launch(c) \/ Continues(c) \/ timeout(c) \/ keyCallback(c) \/ mouse(c)
         \/ resize(c) \/ reattach(c) \/ close(c) \/ crash(c)
  PROVE  PromiseInv'
<1>0. \A i \in Slots : slot'[i] = slot[i] => Kept(i)
  BY DEF Kept
<1>1. CASE launch(c) \/ busy(c)
  <2>1. con[c].pc \in {"gone", "claim"} /\ UNCHANGED <<ctl, slot, abandoned>>
    BY <1>1 DEF launch, busy
  <2>2. con'[c].pc \in {"gone", "claim"} /\ \A d \in Consumers : d # c => con'[d] = con[d]
    BY <1>1, Connecting DEF Fresh, Becomes
  <2> QED
    BY <1>0, <2>1, <2>2, PromiseAside DEF Asking
<1>2. CASE close(c)
  <2>1. con[c].pc = "run" /\ UNCHANGED <<ctl, abandoned>>
    BY <1>2 DEF close
  <2>2. con'[c].pc = "gone" /\ \A d \in Consumers : d # c => con'[d] = con[d]
    BY <1>2, Connecting DEF Fresh, Becomes
  <2>3. \A i \in Slots : Kept(i) \/ slot[i].owner = c
    BY <1>0, <1>2, OwnerEffect
  <2> QED
    BY <2>1, <2>2, <2>3, PromiseAside DEF Asking
<1>3. CASE start_url(c) \/ keyCallback(c)
  <2>1. con[c].pc \in {"url", "run"} /\ UNCHANGED <<ctl, abandoned>>
    BY <1>3 DEF start_url, keyCallback, SendUrl
  <2>2. /\ con'[c].pc \in {"init", "run"} /\ \A d \in Consumers : d # c => con'[d] = con[d]
        /\ con'[c].index = con[c].index /\ con'[c].attached = con[c].attached
    BY <1>3, Using DEF Moves, Becomes
  <2>3. \A i \in Slots : Kept(i)
    <3>1. CASE UNCHANGED slot
      BY <1>0, <3>1
    <3>2. CASE \E color \in Urls : slot' = Sent(c, [type |-> "kSetUrl", arg |-> color])
      BY <3>2, SendEffect, SentCommands DEF Claimed, Kept
    <3> QED
      BY <1>3, <3>1, <3>2, Using
  <2> QED
    BY <2>1, <2>2, <2>3, PromiseUse
<1>4. CASE init(c) \/ resize(c)
  <2>1. con[c].pc \in {"init", "run"} /\ UNCHANGED <<ctl, abandoned>>
    BY <1>4 DEF init, resize, resizeCallback
  <2>2. /\ con'[c].pc = "run" /\ \A d \in Consumers : d # c => con'[d] = con[d]
        /\ con'[c].index = con[c].index /\ con'[c].attached = con[c].attached
    BY <1>4, Using DEF Becomes
  <2>3. \A i \in Slots : Kept(i)
    BY <1>4, Using, SendEffect, SentCommands DEF Claimed, Kept
  <2> QED
    BY <2>1, <2>2, <2>3, PromiseUse
<1>5. CASE mouse(c)
  <2>1. con[c].pc = "run" /\ UNCHANGED <<ctl, con, abandoned>>
    BY <1>5 DEF mouse
  <2>2. \A i \in Slots : Kept(i)
    BY <1>5, SendEffect, SentCommands DEF mouse, Claimed, Kept
  <2> QED
    BY <2>1, <2>2, PromiseFrame
<1>6. CASE update(c)
  <2>1. con[c].pc = "run" /\ UNCHANGED <<ctl, abandoned>>
    BY <1>6 DEF update
  <2>3. \A i \in Slots : Kept(i)
    BY <1>6, BeatenEffect DEF update, Claimed, Kept
  <2>2. /\ con'[c].pc = "run" /\ \A d \in Consumers : d # c => con'[d] = con[d]
        /\ con'[c].index = con[c].index /\ con'[c].attached = con[c].attached
    BY <1>6, Using DEF Becomes
  <2> QED
    BY <2>1, <2>2, <2>3, PromiseUse
<1>7. CASE await_reply(c)
  <2>1. UNCHANGED <<slot, con, abandoned>>
    BY <1>7 DEF await_reply
  <2>2. ctl'.owner = ctl.owner /\ ctl'.up = ctl.up /\ ctl'.down = ctl.down
    BY <1>7, ControlEffect DEF Control
  <2> QED
    BY <2>1, <2>2 DEF PromiseInv, Holder, Asking, Single, Promised, Had, Told, Attached, Owns
<1> QED
  BY <1>1, <1>2, <1>3, <1>4, <1>5, <1>6, <1>7, PromiseClaim, PromiseRequest, PromiseReply,
     PromiseOpen, PromiseReattach, PromiseEnd DEF Continues

LEMMA PromiseElapses ==
  ASSUME TypeInv, Counters, PromiseInv, Elapses, late' = late
  PROVE  PromiseInv'
<1>0. late # late + 1
  BY DEF Counters
<1>1. CASE control_owner_goes_stale
  <2>1. UNCHANGED <<slot, con, abandoned>>
    BY <1>1 DEF control_owner_goes_stale
  <2>2. ctl'.owner = ctl.owner /\ ctl'.up = ctl.up /\ ctl'.down = ctl.down
    BY <1>1, TimeEffect
  <2> QED
    BY <2>1, <2>2 DEF PromiseInv, Holder, Asking, Single, Promised, Had, Told, Attached, Owns
<1>2. ASSUME NEW i \in Slots, owner_goes_stale(i) PROVE PromiseInv'
  <2>1. UNCHANGED <<ctl, con, abandoned>>
    BY <1>2 DEF owner_goes_stale
  <2>2. \A j \in Slots : Kept(j)
    BY <1>2, TimeEffect DEF Kept, Painted
  <2> QED
    BY <2>1, <2>2, PromiseFrame
<1>3. ASSUME NEW i \in Slots, grace_elapses(i) PROVE PromiseInv'
  <2>1. UNCHANGED <<ctl, con, abandoned>>
    BY <1>3 DEF grace_elapses
  <2>2. slot[i].owner = "nobody" /\ \A j \in Slots : j # i => slot'[j] = slot[j]
    BY <1>3, TimeEffect
  <2>a. ~Expected(i)
    BY <1>0, <1>3 DEF grace_elapses, Ends
  <2>3. ASSUME ~abandoned, NEW c \in Consumers PROVE ~Told(c, i)
    <3>1. SUFFICES ASSUME Told(c, i) PROVE FALSE
      OBVIOUS
    <3>2. CASE con[c].pc = "assigned" /\ con[c].index = i
      BY <2>a, <2>3, <3>2 DEF Expected
    <3>3. CASE ctl.down # <<>> /\ ctl.down[1].type = "kSlotAssigned" /\ ctl.down[1].index = i
      <4>1. con[ctl.down[1].from].pc = "wait" /\ Len(ctl.down) = 1 /\ ctl.down \in Seq(Replies)
        BY <2>3, <3>3, FieldTypes DEF PromiseInv, Single
      <4>2. 1 \in DOMAIN ctl.down
        BY <4>1
      <4>3. ctl.down[1] \in Replies
        BY <3>3, <4>1, TailFacts
      <4>4. ctl.owner = ctl.down[1].from
        BY <4>1, <4>3 DEF PromiseInv, Holder, Asking, Replies
      <4> QED
        BY <2>a, <3>3, <4>1, <4>2, <4>4 DEF Expected
    <3> QED
      BY <3>1, <3>2, <3>3 DEF Told
  <2>4. ~abandoned => \A c \in Consumers : Attached(c) => con[c].index # i
    BY <2>2, ConstantTypes DEF PromiseInv, Had, Owns
  <2> QED
    BY <2>1, <2>2, <2>3, <2>4, PromiseFrame DEF Kept
<1> QED
  BY <1>1, <1>2, <1>3 DEF Elapses

LEMMA PromiseStep ==
  ASSUME TypeInv, Counters, Silence, PromiseInv, [Next]_vars, late' = late
  PROVE  PromiseInv'
<1>1. CASE UNCHANGED vars
  BY <1>1, PromiseFrame DEF vars, Kept
<1> QED
  BY <1>1, PromiseProducer, PromiseConsumer, PromiseElapses DEF Next

\* Late windows are never forgotten.
LEMMA LateGrows == Counters /\ [Next]_vars => (late' = 0 => late = 0)
<1> SUFFICES ASSUME Counters, [Next]_vars, late' = 0 PROVE late = 0
  OBVIOUS
<1>1. CASE UNCHANGED late
  BY <1>1
<1>2. ASSUME NEW live, Ends(live) PROVE late = 0
  BY <1>2 DEF Ends, Counters
<1>3. CASE Producer
  BY <1>1, <1>3 DEF Producer, serve_request, control_drained, look, reclaim, attend, execute,
                    finish
<1>4. ASSUME NEW c \in Consumers,
             \/ launch(c) \/ Continues(c) \/ timeout(c) \/ keyCallback(c) \/ mouse(c)
             \/ resize(c) \/ reattach(c) \/ close(c) \/ crash(c)
      PROVE  late = 0
  BY <1>1, <1>4 DEF launch, Continues, timeout, reattach, close, crash, claim, busy, request,
                    await_reply, take_reply, open_view, start_url, SendUrl, init,
                    resizeCallback, update, keyCallback, mouse, resize
<1>5. CASE Elapses
  BY <1>2, <1>5 DEF Elapses, control_owner_goes_stale, owner_goes_stale, grace_elapses
<1>6. CASE UNCHANGED vars
  BY <1>1, <1>6 DEF vars
<1> QED
  BY <1>3, <1>4, <1>5, <1>6 DEF Next

\* As long as every requester waited for its answer (~abandoned) and no window of
\* the producer or of the library ended for a consumer that is alive (late = 0), a
\* consumer is told a view of its own, finds it in place and free, and keeps it.
\* Without the second condition it is false: a slow consumer loses its view.
\* With it, crashes and the reclaiming of what the dead left behind take no view
\* from the living.
THEOREM PromisesAreKept == Spec => []OwnViewKept
<1> DEFINE Inv == late = 0 => Silence /\ PromiseInv
<1>1. TypeInv /\ Counters /\ Inv /\ [Next]_vars => Inv'
  <2> SUFFICES ASSUME TypeInv, Counters, Inv, [Next]_vars, late' = 0
               PROVE  Silence' /\ PromiseInv'
    OBVIOUS
  <2>1. late = 0 /\ late' = late
    BY LateGrows
  <2>2. Silence /\ PromiseInv
    BY <2>1
  <2> QED
    BY <2>1, <2>2, SilenceStep, PromiseStep
<1>2. TypeInv /\ Inv => OwnViewKept
  <2> SUFFICES ASSUME TypeInv, PromiseInv, ~abandoned, NEW c \in Consumers
               PROVE  /\ con[c].pc = "assigned" => /\ con[c].mine
                                                   /\ slot[con[c].index].pub
                                                   /\ slot[con[c].index].owner = "nobody"
                      /\ con[c].pc \in {"url", "init", "run"} => Owns(c)
    BY DEF OwnViewKept
  <2>1. con[c].index \in Slots /\ Promised /\ Had
    BY FieldTypes DEF PromiseInv
  <2> QED
    BY <2>1 DEF Promised, Had, Told, Attached
<1>3. Init => Inv
  BY PromiseInit
<1> QED
  BY <1>1, <1>2, <1>3, Typed, Counted, PTL DEF Spec
=============================================================================
