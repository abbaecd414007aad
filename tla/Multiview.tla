----------------------------- MODULE Multiview -----------------------------
(***************************************************************************)
(* The multiview example: one producer hands out view channels on demand.  *)
(* A consumer claims the control channel, asks for a view, is told an      *)
(* index, opens that channel and claims it.  The producer creates a view   *)
(* when it is asked for and frees it when its owner died, or when nobody   *)
(* has been attached for a while.  Once attached, the consumer sends its   *)
(* URL and the size of its window and draws the frames that fit.           *)
(*                                                                         *)
(* The channels are used as the other modules promise: rings are bounded   *)
(* FIFOs, and read_latest returns the latest frame whole.  There is no     *)
(* clock: a window ends in a step of its own (owner_goes_stale,            *)
(* grace_elapses, timeout, busy), for a consumer that is alive but slow as  *)
(* well as for a dead one; `late` counts the windows that ended for a live *)
(* one.  A size stands for width and height.                               *)
(***************************************************************************)
EXTENDS Naturals, Sequences

CONSTANTS
  Consumers,               \* consumer processes
  SlotCount,               \* views of the pool
  ControlCells, RingCells, \* command_slots of the control channel and of a view
  kDefaultSize, kMaxSize,  \* kDefaultWidth x kDefaultHeight, kMax...
  WindowSizes,             \* sizes the window system grants
  Colors,                  \* what random_color can select
  Urls,                    \* URLs, as the colours they select
  Green,                   \* the colour of a new slot
  MaxLaunches,             \* bound: consumers started
  MaxEvents                \* bound: key, mouse and resize events, and windows
                           \* that end for a live consumer

\* Of a claim: unclaimed, and held by a dead process
NoOwners == {"nobody", "dead"}

ASSUME MultiviewAssumption ==
  /\ Consumers \intersect NoOwners = {}
  /\ SlotCount \in Nat \ {0} /\ {ControlCells, RingCells} \subseteq Nat \ {0}
  /\ kDefaultSize \in 1..kMaxSize /\ kMaxSize \in Nat /\ WindowSizes \subseteq Nat
  /\ Green \in Colors /\ Urls \subseteq Colors /\ {MaxLaunches, MaxEvents} \subseteq Nat

VARIABLES
  ctl,        \* the control channel: its claim and its two rings
  slot,       \* the producer's Slots, with the view channels they publish
  prod,       \* where the producer is in its loop
  con,        \* the consumers
  abandoned,  \* history: somebody asked and did not wait for the answer
  late,       \* history: how often a window ended for a live consumer
  launches, events

vars == <<ctl, slot, prod, con, abandoned, late, launches, events>>

Slots == 0..(SlotCount - 1)

\* A Slot whose pub is null; of a view that exists, `silent` says that the
\* heartbeat of the command owner is older than kCommandOwnerStaleNs.
FreeSlot ==
  [pub |-> FALSE, owner |-> "nobody", silent |-> FALSE, cmds |-> <<>>, width |-> kDefaultSize, canvas |-> 0,
   drawn |-> FALSE, color |-> Green, dirty |-> TRUE, had_subscriber |-> FALSE,
   idle |-> FALSE, early |-> FALSE, latest |-> 0, blank |-> FALSE]

\* A process that is not there; mTexture and mHaveFrame as constructed
NoConsumer ==
  [pc |-> "gone", index |-> 0, mine |-> TRUE, attached |-> FALSE, url |-> "none",
   texture |-> kDefaultSize, have |-> FALSE, lost |-> FALSE]

Init ==
  /\ ctl = [owner |-> "nobody", silent |-> FALSE, up |-> <<>>, down |-> <<>>]
  /\ slot = [i \in Slots |-> FreeSlot]
  /\ prod = [pc |-> "control", i |-> 0, has_sub |-> FALSE]
  /\ con = [c \in Consumers |-> NoConsumer]
  /\ abandoned = FALSE /\ late = 0 /\ launches = 0 /\ events = 0

Room(q, cells) == Len(q) < cells

-----------------------------------------------------------------------------
(* The producer: the control channel                                        *)

FreeIndexes == {i \in Slots : ~slot[i].pub}

\* The slot's segment exists and the canvas is blank.
allocate_slot == [FreeSlot EXCEPT !.pub = TRUE, !.canvas = kDefaultSize]

\* The first index without a publisher
free_index(i) == i \in FreeIndexes /\ \A j \in FreeIndexes : i <= j

\* Request ids are those of a fresh subscriber, 1 for everybody; `from` is
\* not in the message, it is there for the properties.
Reply(type, index) == [type |-> type, index |-> index, reply_to |-> Head(ctl.up).id,
                       from |-> Head(ctl.up).from]

\* send(): a reply that does not fit is lost.
Answer(reply) ==
  ctl' = [ctl EXCEPT !.up = Tail(ctl.up),
                     !.down = IF Room(ctl.down, ControlCells) THEN Append(ctl.down, reply) ELSE ctl.down]

\* Nothing is assigned when no index is free or create() fails.
serve_request ==
  /\ prod.pc = "control" /\ ctl.up # <<>>
  /\ \/ \E i \in Slots :
          /\ free_index(i)
          /\ slot' = [slot EXCEPT ![i] = allocate_slot]
          /\ Answer(Reply("kSlotAssigned", i))
     \/ /\ Answer(Reply("kSlotUnavailable", 0))
        /\ UNCHANGED slot
  /\ UNCHANGED <<prod, con, abandoned, late, launches, events>>

control_drained ==
  /\ prod.pc = "control" /\ ctl.up = <<>>
  /\ prod' = [prod EXCEPT !.pc = "look", !.i = 0]
  /\ UNCHANGED <<ctl, slot, con, abandoned, late, launches, events>>

-----------------------------------------------------------------------------
(* The producer: one slot after the other                                   *)

\* On to the next slot, or back to the top
NextSlot == IF prod.i + 1 < SlotCount
            THEN [pc |-> "look", i |-> prod.i + 1, has_sub |-> FALSE]
            ELSE [pc |-> "control", i |-> 0, has_sub |-> FALSE]

\* has_subscriber()
look ==
  /\ prod.pc = "look"
  /\ prod' = IF slot[prod.i].pub
             THEN [prod EXCEPT !.pc = "attend", !.has_sub = slot[prod.i].owner # "nobody"]
             ELSE NextSlot
  /\ UNCHANGED <<ctl, slot, con, abandoned, late, launches, events>>

\* ~LLPublisher; who is still attached keeps an orphaned mapping.
free_slot(i) ==
  /\ slot' = [slot EXCEPT ![i] = FreeSlot]
  /\ con' = [c \in Consumers |-> [con[c] EXCEPT !.attached = @ /\ con[c].index # i]]
  /\ prod' = NextSlot

\* MUTANT of Reclaimable: the grace period is not waited for.
Reclaimable_AtOnce(s) == IF prod.has_sub THEN s.silent ELSE TRUE

\* MUTANT of Reclaimable: only crashed owners are looked for.
Reclaimable_Crashed(s) == prod.has_sub /\ s.silent

\* A crashed owner, or nobody for the grace period
Reclaimable(s) == IF prod.has_sub THEN s.silent ELSE s.idle

reclaim ==
  /\ prod.pc = "attend" /\ Reclaimable(slot[prod.i])
  /\ free_slot(prod.i)
  /\ UNCHANGED <<ctl, abandoned, late, launches, events>>

\* MUTANT of Greeted: every subscriber is taken for a new one.
Greeted_Always(s, color) ==
  IF prod.has_sub
  THEN [s EXCEPT !.idle = FALSE, !.had_subscriber = TRUE, !.color = color, !.dirty = TRUE]
  ELSE [s EXCEPT !.had_subscriber = FALSE]

\* last_active and had_subscriber; a new subscriber gets a colour by lot.
Greeted(s, color) ==
  IF ~prod.has_sub THEN [s EXCEPT !.had_subscriber = FALSE]
  ELSE IF s.had_subscriber THEN [s EXCEPT !.idle = FALSE]
  ELSE [s EXCEPT !.idle = FALSE, !.had_subscriber = TRUE, !.color = color, !.dirty = TRUE]

\* MUTANT of Clamped: the limit is not applied.
Clamped_Not(w) == w

Clamped(w) == IF w < kMaxSize THEN w ELSE kMaxSize

\* MUTANT of Resized: nothing asks for a regeneration.
Resized_NotDirty(s, w) ==
  IF w = 0 \/ Clamped(w) = s.width THEN s
  ELSE [s EXCEPT !.width = Clamped(w), !.canvas = Clamped(w), !.drawn = FALSE]

\* kResize: a window without area is ignored, a large one clamped.
Resized(s, w) ==
  IF w = 0 \/ Clamped(w) = s.width THEN s
  ELSE [s EXCEPT !.width = Clamped(w), !.canvas = Clamped(w), !.drawn = FALSE, !.dirty = TRUE]

\* kMouseMove and kMouseButton draw a mark, which the next regeneration erases.
Executed(s, cmd) ==
  CASE cmd.type = "kSetUrl" -> [s EXCEPT !.color = cmd.arg, !.dirty = TRUE,
                                         !.early = ~s.had_subscriber]
    [] cmd.type = "kResize" -> Resized(s, cmd.arg)
    [] cmd.type = "kMouse"  -> s

\* A regeneration because of the timer draws the same picture again.
Regenerated(s) == [s EXCEPT !.drawn = @ \/ s.dirty, !.dirty = FALSE]

\* publish(): a frame of the size of the slot, from the canvas as it is
Published(s) == [s EXCEPT !.latest = s.width, !.blank = ~s.drawn \/ s.canvas # s.width]

\* The rest of the loop's work on a slot that is not reclaimed
attend ==
  /\ prod.pc = "attend" /\ ~Reclaimable(slot[prod.i])
  /\ \E color \in Colors : slot' = [slot EXCEPT ![prod.i] = Greeted(slot[prod.i], color)]
  /\ prod' = [prod EXCEPT !.pc = "drain"]
  /\ UNCHANGED <<ctl, con, abandoned, late, launches, events>>

\* One turn of the receive loop
execute ==
  /\ prod.pc = "drain" /\ slot[prod.i].cmds # <<>>
  /\ LET s == slot[prod.i]
     IN  slot' = [slot EXCEPT ![prod.i] = [Executed(s, Head(s.cmds)) EXCEPT !.cmds = Tail(s.cmds)]]
  /\ UNCHANGED <<ctl, prod, con, abandoned, late, launches, events>>

\* The ring is empty; it publishes only if kPublishPeriod has elapsed.  The
\* code publishes all slots at the end of the loop; nothing of this slot that
\* is published can change in between.
finish(publishing) ==
  /\ prod.pc = "drain" /\ slot[prod.i].cmds = <<>>
  /\ LET s == Regenerated(slot[prod.i])
     IN  slot' = [slot EXCEPT ![prod.i] = IF publishing THEN Published(s) ELSE s]
  /\ prod' = NextSlot
  /\ UNCHANGED <<ctl, con, abandoned, late, launches, events>>

-----------------------------------------------------------------------------
(* A consumer gets a view: connectToProducer                                *)

Set(c, me) == con' = [con EXCEPT ![c] = me]

launch(c) ==
  /\ con[c].pc = "gone" /\ launches < MaxLaunches
  /\ launches' = launches + 1
  /\ Set(c, [NoConsumer EXCEPT !.pc = "claim"])
  /\ UNCHANGED <<ctl, slot, prod, abandoned, late, events>>

\* A claim that is taken: nobody's, or one whose owner is thought to have crashed
Claimable(x) == x.owner = "nobody" \/ x.silent

\* The claim of c and the heartbeat that goes with it
ClaimedBy(c, x) == [x EXCEPT !.owner = c, !.silent = FALSE]

claim(c) ==
  /\ con[c].pc = "claim" /\ Claimable(ctl)
  /\ ctl' = ClaimedBy(c, ctl)
  /\ Set(c, [con[c] EXCEPT !.pc = "send"])
  /\ UNCHANGED <<slot, prod, abandoned, late, launches, events>>

\* kControlClaimTimeout
busy(c) ==
  /\ con[c].pc = "claim" /\ ~Claimable(ctl)
  /\ Set(c, NoConsumer)
  /\ UNCHANGED <<ctl, slot, prod, abandoned, late, launches, events>>

\* ~LLSubscriber of ctrl: the claim is given back, if it is still its own.
Released(c) ==
  IF ctl.owner = c THEN [ctl EXCEPT !.owner = "nobody", !.silent = FALSE] ELSE ctl

\* send() fails when the claim was stolen or the ring is full.
request(c) ==
  /\ con[c].pc = "send"
  /\ \/ /\ ctl.owner = c /\ Room(ctl.up, ControlCells)
        /\ ctl' = [ctl EXCEPT !.up = Append(ctl.up, [id |-> 1, from |-> c]), !.silent = FALSE]
        /\ Set(c, [con[c] EXCEPT !.pc = "wait"])
     \/ /\ ctl.owner # c \/ ~Room(ctl.up, ControlCells)
        /\ ctl' = Released(c)
        /\ Set(c, NoConsumer)
  /\ UNCHANGED <<slot, prod, abandoned, late, launches, events>>

\* receive() finds no answer, but is a heartbeat.
await_reply(c) ==
  /\ con[c].pc = "wait" /\ ctl.owner = c /\ ctl.down = <<>>
  /\ ctl' = [ctl EXCEPT !.silent = FALSE]
  /\ UNCHANGED <<slot, prod, con, abandoned, late, launches, events>>

\* The answer, if it is one to this request; the control channel is released.
take_reply(c) ==
  /\ con[c].pc = "wait" /\ ctl.owner = c /\ ctl.down # <<>> /\ Head(ctl.down).reply_to = 1
  /\ ctl' = [ctl EXCEPT !.down = Tail(ctl.down), !.owner = "nobody", !.silent = FALSE]
  /\ LET reply == Head(ctl.down)
     IN  Set(c, IF reply.type = "kSlotAssigned"
                THEN [con[c] EXCEPT !.pc = "assigned", !.index = reply.index,
                                    !.mine = reply.from = c]
                ELSE NoConsumer)
  /\ UNCHANGED <<slot, prod, abandoned, late, launches, events>>

\* kSlotRequestTimeout
timeout(c) ==
  /\ con[c].pc = "wait"
  /\ ctl' = Released(c)
  /\ Set(c, NoConsumer) /\ abandoned' = TRUE
  /\ UNCHANGED <<slot, prod, late, launches, events>>

\* The view, if it is there and nobody else has it
open_view(c) ==
  /\ con[c].pc = "assigned"
  /\ LET s == slot[con[c].index]
     IN  \/ /\ s.pub /\ Claimable(s)
            /\ slot' = [slot EXCEPT ![con[c].index] = ClaimedBy(c, s)]
            /\ Set(c, [con[c] EXCEPT !.pc = "url", !.attached = TRUE])
         \/ /\ ~(s.pub /\ Claimable(s))
            /\ Set(c, NoConsumer) /\ UNCHANGED slot
  /\ UNCHANGED <<ctl, prod, abandoned, late, launches, events>>

-----------------------------------------------------------------------------
(* A consumer uses its view                                                 *)

\* Whether still_owns_commands() returns true; it is a heartbeat then.
Owns(c) == con[c].attached /\ slot[con[c].index].owner = c

Beaten(c) == IF Owns(c) THEN [slot EXCEPT ![con[c].index].silent = FALSE] ELSE slot

\* send(): refused when the claim is lost or the ring is full
Accepted(c) == Owns(c) /\ Room(slot[con[c].index].cmds, RingCells)

Sent(c, cmd) ==
  IF Accepted(c) THEN [Beaten(c) EXCEPT ![con[c].index].cmds = Append(@, cmd)] ELSE Beaten(c)

SendUrl(c, color, pc) ==
  /\ slot' = Sent(c, [type |-> "kSetUrl", arg |-> color])
  /\ Set(c, [con[c] EXCEPT !.pc = pc, !.url = IF Accepted(c) THEN color ELSE @])
  /\ UNCHANGED <<ctl, prod, abandoned, late, launches>>

\* The start URL, if one was given
start_url(c) ==
  /\ con[c].pc = "url" /\ UNCHANGED events
  /\ \/ \E color \in Urls : SendUrl(c, color, "init")
     \/ /\ Set(c, [con[c] EXCEPT !.pc = "init"])
        /\ UNCHANGED <<ctl, slot, prod, abandoned, late, launches>>

Event == events + late < MaxEvents /\ events' = events + 1

keyCallback(c) ==
  /\ con[c].pc = "run" /\ Event
  /\ \E color \in Urls : SendUrl(c, color, "run")

\* mouseButtonCallback, and sendPendingMouseMove after mouseMoveCallback
mouse(c) ==
  /\ con[c].pc = "run" /\ Event
  /\ slot' = Sent(c, [type |-> "kMouse", arg |-> 0])
  /\ UNCHANGED <<ctl, prod, con, abandoned, late, launches>>

\* MUTANT of NewTexture: the last frame is still thought to fit.
NewTexture_KeepsFrame(c, w) ==
  [con[c] EXCEPT !.pc = "run", !.texture = w, !.lost = ~Accepted(c)]

\* The window has a new size; `lost` if the producer is not told.
NewTexture(c, w) ==
  [con[c] EXCEPT !.pc = "run", !.texture = w, !.have = FALSE, !.lost = ~Accepted(c)]

\* MUTANT of resizeCallback: the producer is not asked.
resizeCallback_Silent(c, w) ==
  /\ Set(c, NewTexture(c, w))
  /\ UNCHANGED <<ctl, slot, prod, abandoned, late, launches>>

resizeCallback(c, w) ==
  /\ slot' = Sent(c, [type |-> "kResize", arg |-> w])
  /\ Set(c, NewTexture(c, w))
  /\ UNCHANGED <<ctl, prod, abandoned, late, launches>>

\* init() ends with a first resizeCallback.
init(c) == con[c].pc = "init" /\ UNCHANGED events /\ \E w \in WindowSizes : resizeCallback(c, w)

resize(c) == con[c].pc = "run" /\ Event /\ \E w \in WindowSizes : resizeCallback(c, w)

\* read_latest is a heartbeat; if it returns Ok, the frame is drawn if it fits
\* the texture.  Frames come all the time, so they are not told apart but by
\* their size.
update(c) ==
  /\ con[c].pc = "run" /\ con[c].attached
  /\ LET latest == slot[con[c].index].latest
     IN  Set(c, IF latest = 0 THEN con[c] ELSE [con[c] EXCEPT !.have = latest = con[c].texture])
  /\ slot' = Beaten(c)
  /\ UNCHANGED <<ctl, prod, abandoned, late, launches, events>>

\* read_latest -> poll -> try_connect: an orphan finds another session under
\* the name of its view, and claims its command channel if it can.
reattach(c) ==
  /\ con[c].pc = "run" /\ ~con[c].attached /\ slot[con[c].index].pub
  /\ LET i == con[c].index
     IN  slot' = [slot EXCEPT ![i] = IF Claimable(@) THEN ClaimedBy(c, @) ELSE @]
  /\ Set(c, [con[c] EXCEPT !.attached = TRUE, !.url = "none", !.lost = TRUE])
  /\ UNCHANGED <<ctl, prod, abandoned, late, launches, events>>

\* The claims of c become those of somebody else
Disowned(c, o) ==
  [i \in Slots |-> IF con[c].attached /\ slot[i].owner = c
                   THEN [slot[i] EXCEPT !.owner = o, !.silent = @ /\ o = "dead"]
                   ELSE slot[i]]

\* The window is closed: run() returns, ~LLSubscriber releases the claim.
close(c) ==
  /\ con[c].pc = "run"
  /\ slot' = Disowned(c, "nobody")
  /\ Set(c, NoConsumer)
  /\ UNCHANGED <<ctl, prod, abandoned, late, launches, events>>

\* The process dies, its claims stay.
crash(c) ==
  /\ con[c].pc # "gone"
  /\ slot' = Disowned(c, "dead")
  /\ ctl' = [ctl EXCEPT !.owner = IF @ = c THEN "dead" ELSE @]
  /\ abandoned' = (abandoned \/ con[c].pc = "wait")
  /\ Set(c, NoConsumer)
  /\ UNCHANGED <<prod, late, launches, events>>

-----------------------------------------------------------------------------
(* Time, and the specification                                              *)

\* A window ends; it may end for a live consumer.
Ends(live) == late' = (IF live THEN late + 1 ELSE late) /\ (live => events + late < MaxEvents)

\* kCommandOwnerStaleNs after the last heartbeat of the owner: it died, or it
\* has not called the library for so long
control_owner_goes_stale ==
  /\ ctl.owner # "nobody" /\ ~ctl.silent /\ Ends(ctl.owner # "dead")
  /\ ctl' = [ctl EXCEPT !.silent = TRUE]
  /\ UNCHANGED <<slot, prod, con, abandoned, launches, events>>

owner_goes_stale(i) ==
  /\ slot[i].owner # "nobody" /\ ~slot[i].silent /\ Ends(slot[i].owner # "dead")
  /\ slot' = [slot EXCEPT ![i].silent = TRUE]
  /\ UNCHANGED <<ctl, prod, con, abandoned, launches, events>>

\* A consumer that was or is being told i, and is about to open it
Expected(i) ==
  \/ \E c \in Consumers : con[c].pc = "assigned" /\ con[c].index = i
  \/ \E k \in DOMAIN ctl.down :
       /\ ctl.down[k].type = "kSlotAssigned" /\ ctl.down[k].index = i
       /\ con[ctl.down[k].from].pc = "wait" /\ ctl.owner = ctl.down[k].from

\* kIdleGracePeriod after last_active, which the producer keeps up to date
\* while there is a claim; it knows nothing of a consumer on its way.
grace_elapses(i) ==
  /\ slot[i].pub /\ ~slot[i].idle /\ slot[i].owner = "nobody" /\ Ends(Expected(i))
  /\ slot' = [slot EXCEPT ![i].idle = TRUE]
  /\ UNCHANGED <<ctl, prod, con, abandoned, launches, events>>

Producer ==
  \/ serve_request \/ control_drained
  \/ look \/ reclaim \/ attend \/ execute
  \/ (\E publishing \in BOOLEAN : finish(publishing))

\* What a consumer does without being asked: it connects, then it renders.
Continues(c) ==
  \/ claim(c) \/ busy(c) \/ request(c) \/ await_reply(c) \/ take_reply(c) \/ open_view(c)
  \/ start_url(c) \/ init(c) \/ update(c)

\* A window of the producer or of the library ends.
Elapses ==
  \/ control_owner_goes_stale
  \/ \E i \in Slots : owner_goes_stale(i) \/ grace_elapses(i)

Next ==
  \/ Producer
  \/ \E c \in Consumers :
       \/ launch(c) \/ Continues(c) \/ timeout(c)
       \/ keyCallback(c) \/ mouse(c) \/ resize(c) \/ reattach(c)
       \/ close(c) \/ crash(c)
  \/ Elapses

Spec == Init /\ [][Next]_vars

\* The producer's loop runs and its periods elapse, a live consumer goes on and
\* renders, and the windows of those who are gone end; those of a live consumer
\* may.
FairSpec ==
  /\ Spec /\ WF_vars(Producer) /\ SF_vars(finish(TRUE)) /\ WF_vars(Elapses /\ late' = late)
  /\ \A c \in Consumers : WF_vars(Continues(c))

-----------------------------------------------------------------------------
(* Properties                                                               *)

Owners == Consumers \union NoOwners

Commands ==
  [type : {"kSetUrl"}, arg : Urls] \union [type : {"kResize"}, arg : WindowSizes]
  \union [type : {"kMouse"}, arg : {0}]

\* Rings stay within their cells, sizes within the limits of the view.
TypeOK ==
  /\ ctl.owner \in Owners /\ ctl.silent \in BOOLEAN /\ {Len(ctl.up), Len(ctl.down)} \subseteq 0..ControlCells
  /\ \A i \in Slots :
       /\ slot[i].owner \in Owners /\ Len(slot[i].cmds) <= RingCells
       /\ \A k \in DOMAIN slot[i].cmds : slot[i].cmds[k] \in Commands
       /\ slot[i].width \in 1..kMaxSize /\ slot[i].canvas \in 0..kMaxSize
       /\ slot[i].color \in Colors
       /\ {slot[i].pub, slot[i].silent, slot[i].drawn, slot[i].dirty, slot[i].had_subscriber,
           slot[i].idle, slot[i].early} \subseteq BOOLEAN
  /\ late \in 0..MaxEvents
  /\ prod.pc \in {"control", "look", "attend", "drain"} /\ prod.i \in Slots
  /\ \A c \in Consumers :
       /\ con[c].pc \in {"gone", "claim", "send", "wait", "assigned", "url", "init", "run"}
       /\ con[c].index \in Slots /\ con[c].url \in Urls \union {"none"}
       /\ con[c].texture \in WindowSizes \union {kDefaultSize}
       /\ {con[c].mine, con[c].attached, con[c].have, con[c].lost} \subseteq BOOLEAN

\* A consumer takes the answer to its own request, finds the view it was told
\* free and in place, and once it has claimed it, it is neither freed under it
\* nor taken from it: as long as every requester waited for its answer and no
\* window ended for a consumer that is alive.
OwnViewKept ==
  ~abandoned /\ late = 0 =>
    \A c \in Consumers :
      /\ con[c].pc = "assigned" => /\ con[c].mine
                                   /\ slot[con[c].index].pub
                                   /\ slot[con[c].index].owner = "nobody"
      /\ con[c].pc \in {"url", "init", "run"} => Owns(c)

\* The same without the condition: whoever is told a view can have it, also
\* after a requester crashed or gave up.
AssignedIsThere ==
  \A c \in Consumers :
    con[c].pc = "assigned" => slot[con[c].index].pub /\ slot[con[c].index].owner = "nobody"

\* A frame is taken from a canvas of its size that has been drawn.
FramesAreDrawn == \A i \in Slots : ~slot[i].blank

\* A URL that the producer has received stays the URL of the view until the
\* consumer sends another, unless it was received before the producer noticed
\* its sender: then the colour drawn by lot for a new subscriber replaces it.
UrlKept ==
  \A c \in Consumers :
    LET s == slot[con[c].index] IN
    /\ con[c].url # "none" /\ Owns(c) /\ ~s.early
    /\ \A k \in DOMAIN s.cmds : s.cmds[k].type # "kSetUrl"
    => s.color = con[c].url

\* draw() reads as many bytes from mFrameBuf as the texture has: mFrameBuf
\* holds a frame of the largest size, so no larger texture is ever filled.
DrawnFits == \A c \in Consumers : con[c].have => con[c].texture <= kMaxSize

\* A view without a live owner returns to the pool or finds one, whatever
\* became of the consumer it was created for.
ReturnsToPool == \A i \in Slots : []<>(~slot[i].pub \/ slot[i].owner \in Consumers)

\* A window whose size the producer was told, and can serve, gets frames of
\* that size.
Unfilled(c) == /\ con[c].pc = "run" /\ con[c].texture \in 1..kMaxSize
               /\ Owns(c) /\ ~con[c].lost /\ ~con[c].have
WindowIsFilled == \A c \in Consumers : []<>~Unfilled(c)
=============================================================================
