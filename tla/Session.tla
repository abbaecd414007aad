------------------------------- MODULE Session -------------------------------
(***************************************************************************)
(* The life of a name: LLPublisher::create with its decision to reclaim,   *)
(* ~LLPublisher, and the LLSubscribers that attach, lose their producer    *)
(* and find the next one.  On POSIX a name leads to at most one segment;   *)
(* unlink detaches the name and leaves the segment to those who have it    *)
(* mapped.  A segment is numbered by its creation, and its session_id is   *)
(* that number (session ids are taken to be unique).                       *)
(*                                                                         *)
(* Time is kept as ages: every stored time is the number of ticks since,   *)
(* up to an age that every window of the code calls old.  `now - t` is     *)
(* then the age of t; a now that was read earlier has an age of its own.   *)
(* C++ leaves the order of the operands of `now_ns() - load()` open: every *)
(* evaluation may take either, and `wrapped` records that a heartbeat came *)
(* between them while a create was judging the name.                       *)
(***************************************************************************)
EXTENDS Integers

CONSTANTS
  Pubs, Subs,      \* the LLPublishers and LLSubscribers of one name
  ProducerStale,   \* LLConfig::stale_producer_ms, in ticks
  SubStale,        \* Impl::stale_ns of a subscriber, in ticks
  Retry,           \* Impl::retry_ns, in ticks
  MinRead,         \* Impl::min_read_ns, in ticks, 0 = unlimited
  MaxStall,        \* longest judgement of a heartbeat, longest poll, in ticks
  MaxQuiet,        \* longest time between two heartbeats of a live publisher
  Overlap,         \* create and ~LLPublisher may run while another create runs
  MaxSegs,         \* bound: segments created, and no create begins after the last
  MaxFrames        \* bound: frames committed in a session

ASSUME SessionAssumption ==
  /\ {ProducerStale, SubStale, Retry, MaxQuiet} \subseteq Nat \ {0}
  /\ MaxStall \in Nat /\ Retry <= SubStale /\ MinRead \in Nat
  /\ Overlap \in BOOLEAN
  /\ MaxSegs \in Nat /\ MaxFrames \in Nat

VARIABLES
  name,     \* the segment the name leads to, 0 if none
  made,     \* number of segments created
  seg,      \* the segments: size and header
  pub, sub, \* the publishers and the subscribers
  wrapped   \* history: the age that a create computed has wrapped

vars == <<name, made, seg, pub, sub, wrapped>>

\* Old enough for every window, also after a stall.
Old      == (IF SubStale > ProducerStale THEN SubStale ELSE ProducerStale) + MaxStall
RetryOld == Retry + MaxStall

Blank == [sized |-> FALSE, magic |-> FALSE, session_id |-> 0,
          heartbeat |-> Old, latest |-> 0, shutdown |-> FALSE]

NoPub == [pc |-> "out", seg |-> 0, first |-> "hb", t |-> 0, busy |-> 0]

NoSub == [pc |-> "none", caller |-> "open", seg |-> 0, session |-> 0, last_frame |-> 0,
          peer_shutdown |-> FALSE, last_progress |-> SubStale, last_attempt |-> RetryOld, last_read |-> MinRead,
          now |-> 0, candidate |-> 0, first |-> "hb", t |-> 0]

Init ==
  /\ name = 0 /\ made = 0
  /\ seg = [i \in 1..MaxSegs |-> Blank]
  /\ pub = [p \in Pubs |-> NoPub]
  /\ sub = [s \in Subs |-> NoSub]
  /\ wrapped = FALSE

\* An age is kept up to a limit.
AtMost(age, old) == IF age < old THEN age ELSE old

SetPub(p, me) == pub' = [pub EXCEPT ![p] = me]
SetSub(s, me) == sub' = [sub EXCEPT ![s] = me]
Goto(p, pc)   == SetPub(p, [pub[p] EXCEPT !.pc = pc])

Creating(p) == pub[p].pc \in {"truncate", "init", "magic", "open", "validate",
                              "age", "unlink", "recreate"}
Live(p)     == pub[p].pc = "live"

\* now_ns() - heartbeat: the operand that is evaluated first
Operands == {"hb", "now"}
Operand(first, i) == IF first = "hb" THEN seg[i].heartbeat ELSE 0

\* The heartbeat is newer than the now that was read before it.
Wraps(me) == me.first = "now" /\ seg[me.seg].heartbeat < me.t

\* The difference, once the other operand is evaluated as well; if it wraps, it
\* is larger than any window.
AgeFrom(me) ==
  IF me.first = "hb" THEN me.t ELSE IF Wraps(me) THEN Old ELSE seg[me.seg].heartbeat - me.t

-----------------------------------------------------------------------------
(* LLPublisher::create, over LLSegment                                      *)

\* LLSegment::create with create_only: a new, empty segment under the name.
NewSegment(p) ==
  /\ made < MaxSegs
  /\ name' = made + 1 /\ made' = made + 1
  /\ SetPub(p, [NoPub EXCEPT !.pc = "truncate", !.seg = made + 1])

create(p) ==
  /\ pub[p].pc = "out" /\ made < MaxSegs
  /\ Overlap \/ \A q \in Pubs : ~Creating(q) /\ pub[q].pc # "unlinking"
  /\ \/ name = 0 /\ NewSegment(p)
     \/ name # 0 /\ SetPub(p, [NoPub EXCEPT !.pc = "open"]) /\ UNCHANGED <<name, made>>
  /\ UNCHANGED <<seg, sub, wrapped>>

\* truncate and map; from here on others can map it too
truncate(p) ==
  /\ pub[p].pc = "truncate"
  /\ seg' = [seg EXCEPT ![pub[p].seg].sized = TRUE]
  /\ Goto(p, "init")
  /\ UNCHANGED <<name, made, sub, wrapped>>

\* MappingFailure: create gives up, the empty segment keeps its name.
truncate_fails(p) ==
  /\ pub[p].pc = "truncate"
  /\ SetPub(p, NoPub)
  /\ UNCHANGED <<name, made, seg, sub, wrapped>>

\* The name exists: can it be mapped at all?
open_existing(p) ==
  /\ pub[p].pc = "open"
  /\ IF name # 0 /\ seg[name].sized
     THEN SetPub(p, [pub[p] EXCEPT !.pc = "validate", !.seg = name])
     ELSE Goto(p, "unlink")
  /\ UNCHANGED <<name, made, seg, sub, wrapped>>

\* validate_header and the clean-shutdown marker, then the age
validate_existing(p) ==
  /\ pub[p].pc = "validate"
  /\ LET h == seg[pub[p].seg] IN
     IF h.magic /\ ~h.shutdown
     THEN \E first \in Operands :
            SetPub(p, [pub[p] EXCEPT !.pc = "age", !.first = first,
                                     !.t = Operand(first, pub[p].seg)])
     ELSE Goto(p, "unlink")
  /\ UNCHANGED <<name, made, seg, sub, wrapped>>

\* MUTANT of judge_age: the name is free for the taking.
judge_age_Always(p) ==
  /\ pub[p].pc = "age"
  /\ wrapped' = (wrapped \/ Wraps(pub[p]))
  /\ SetPub(p, [NoPub EXCEPT !.pc = "unlink"])
  /\ UNCHANGED <<name, made, seg, sub>>

\* AlreadyExists, or reclaim
judge_age(p) ==
  /\ pub[p].pc = "age"
  /\ wrapped' = (wrapped \/ Wraps(pub[p]))
  /\ SetPub(p, [NoPub EXCEPT !.pc =
       IF AgeFrom(pub[p]) >= ProducerStale THEN "unlink" ELSE "out"])
  /\ UNCHANGED <<name, made, seg, sub>>

\* MUTANT of unlink: the old name stays.
unlink_Omitted(p) ==
  /\ pub[p].pc = "unlink"
  /\ SetPub(p, [NoPub EXCEPT !.pc = "recreate"])
  /\ UNCHANGED <<name, made, seg, sub, wrapped>>

\* LLSegment::unlink: whatever the name leads to now
unlink(p) ==
  /\ pub[p].pc = "unlink"
  /\ name' = 0
  /\ SetPub(p, [NoPub EXCEPT !.pc = "recreate"])
  /\ UNCHANGED <<made, seg, sub, wrapped>>

recreate(p) ==
  /\ pub[p].pc = "recreate"
  /\ \/ name = 0 /\ NewSegment(p)
     \/ name # 0 /\ SetPub(p, NoPub) /\ UNCHANGED <<name, made>>
  /\ UNCHANGED <<seg, sub, wrapped>>

\* MUTANT of init_header: the magic goes first.
init_header_MagicFirst(p) ==
  /\ pub[p].pc = "init"
  /\ seg' = [seg EXCEPT ![pub[p].seg].magic = TRUE, ![pub[p].seg].heartbeat = 0]
  /\ Goto(p, "magic")
  /\ UNCHANGED <<name, made, sub, wrapped>>

\* The header, its rings and slots, its session id and first heartbeat
init_header(p) ==
  /\ pub[p].pc = "init"
  /\ seg' = [seg EXCEPT ![pub[p].seg].session_id = pub[p].seg, ![pub[p].seg].heartbeat = 0]
  /\ Goto(p, "magic")
  /\ UNCHANGED <<name, made, sub, wrapped>>

store_magic(p) ==
  /\ pub[p].pc = "magic"
  /\ seg' = [seg EXCEPT ![pub[p].seg].magic = TRUE]
  /\ Goto(p, "live")
  /\ UNCHANGED <<name, made, sub, wrapped>>

-----------------------------------------------------------------------------
(* The rest of a publisher's life                                           *)

heartbeat(p) ==
  /\ Live(p)
  /\ seg' = [seg EXCEPT ![pub[p].seg].heartbeat = 0]
  /\ UNCHANGED <<name, made, pub, sub, wrapped>>

\* MUTANT of commit: the frame is counted twice.
commit_Twice(p) ==
  /\ Live(p) /\ seg[pub[p].seg].latest < MaxFrames
  /\ seg' = [seg EXCEPT ![pub[p].seg].latest = @ + 2, ![pub[p].seg].heartbeat = 0]
  /\ UNCHANGED <<name, made, pub, sub, wrapped>>

\* commit() names the frame and is a heartbeat
commit(p) ==
  /\ Live(p) /\ seg[pub[p].seg].latest < MaxFrames
  /\ seg' = [seg EXCEPT ![pub[p].seg].latest = @ + 1, ![pub[p].seg].heartbeat = 0]
  /\ UNCHANGED <<name, made, pub, sub, wrapped>>

\* ~LLPublisher: the marker, then the name
destroy(p) ==
  /\ Live(p)
  /\ Overlap \/ \A q \in Pubs : ~Creating(q)
  /\ seg' = [seg EXCEPT ![pub[p].seg].shutdown = TRUE]
  /\ Goto(p, "unlinking")
  /\ UNCHANGED <<name, made, sub, wrapped>>

destroy_unlink(p) ==
  /\ pub[p].pc = "unlinking"
  /\ name' = 0
  /\ SetPub(p, NoPub)
  /\ UNCHANGED <<made, seg, sub, wrapped>>

\* The process dies, wherever it is; name and segment stay.
crash(p) ==
  /\ Creating(p) \/ Live(p) \/ pub[p].pc = "unlinking"
  /\ SetPub(p, NoPub)
  /\ UNCHANGED <<name, made, seg, sub, wrapped>>

-----------------------------------------------------------------------------
(* LLSubscriber                                                             *)

open(s) ==
  /\ sub[s].pc = "none"
  /\ SetSub(s, [NoSub EXCEPT !.pc = "map"])
  /\ UNCHANGED <<name, made, seg, pub, wrapped>>

\* poll() returns.
Return(me) == [me EXCEPT !.pc = "idle", !.now = 0, !.first = "hb", !.t = 0]

\* MUTANT of Gate: a refused attempt restarts an interval longer than the poll period.
Gate_Restarts(me) ==
  IF me.last_attempt - me.now < Retry + 1 THEN [Return(me) EXCEPT !.last_attempt = me.now]
  ELSE [me EXCEPT !.pc = "map", !.last_attempt = me.now, !.first = "hb", !.t = 0]

\* The retry gate of poll(): Disconnected, or on to try_connect
Gate(me) ==
  IF me.last_attempt - me.now < Retry THEN Return(me)
  ELSE [me EXCEPT !.pc = "map", !.last_attempt = me.now, !.first = "hb", !.t = 0]

\* producer_responsive(), before ("beat") and after ("again") try_connect: its first operand
Ask(me, pc, first) == [me EXCEPT !.pc = pc, !.first = first, !.t = Operand(first, me.seg)]

\* poll() returned true: Throttled, or on to the frames
ReadGate(me) ==
  IF me.last_read < MinRead THEN Return(me)
  ELSE [me EXCEPT !.pc = "latest", !.first = "hb", !.t = 0, !.last_read = 0]

\* poll(): recently productive, or look at the heartbeat
poll(s) ==
  /\ sub[s].pc = "idle"
  /\ LET me == [sub[s] EXCEPT !.caller = "poll", !.now = 0] IN
     \E first \in Operands :
       SetSub(s, IF me.seg = 0 THEN Gate(me)
                 ELSE IF me.last_progress < SubStale THEN ReadGate(me)
                 ELSE Ask(me, "beat", first))
  /\ UNCHANGED <<name, made, seg, pub, wrapped>>

\* producer_responsive(): its second operand, and what poll() makes of it
judge_producer(s) ==
  /\ sub[s].pc \in {"beat", "again"}
  /\ LET me == sub[s] IN
     SetSub(s, IF AgeFrom(me) < SubStale THEN ReadGate(me)
               ELSE IF me.pc = "beat" THEN Gate(me)
               ELSE Return(me))
  /\ UNCHANGED <<name, made, seg, pub, wrapped>>

\* try_connect() returned: the clock of progress is reset either way.
Connected(me, first) ==
  LET back == [me EXCEPT !.pc = "idle", !.last_progress = AtMost(me.now, SubStale),
                         !.now = 0, !.candidate = 0]
  IN  IF me.caller = "poll" /\ me.seg # 0 THEN Ask(back, "again", first) ELSE back

\* MUTANT of Adopt: the verdict on the old session is kept.
Adopt_KeepsShutdown(me, i) ==
  [me EXCEPT !.seg = i, !.session = seg[i].session_id, !.last_frame = 0]

\* A new session: everything that counted the old one starts over.
Adopt(me, i) ==
  [me EXCEPT !.seg = i, !.session = seg[i].session_id, !.last_frame = 0, !.peer_shutdown = FALSE]

\* try_connect: map what the name leads to now
map(s) ==
  /\ sub[s].pc = "map"
  /\ \E first \in Operands :
       SetSub(s, IF name # 0 /\ seg[name].sized
                 THEN [sub[s] EXCEPT !.pc = "validate", !.candidate = name]
                 ELSE Connected(sub[s], first))
  /\ UNCHANGED <<name, made, seg, pub, wrapped>>

\* try_connect: validate_header, and adopt a session that is not ours already
validate(s) ==
  /\ sub[s].pc = "validate"
  /\ LET me == sub[s]  h == seg[me.candidate] IN
     \E first \in Operands :
       SetSub(s, Connected(
         IF ~h.magic \/ (me.seg # 0 /\ h.session_id = me.session) THEN me
         ELSE Adopt(me, me.candidate), first))
  /\ UNCHANGED <<name, made, seg, pub, wrapped>>

\* read_latest: the frame `latest` names is new, and copied
read_frame(s) ==
  /\ sub[s].pc = "latest"
  /\ seg[sub[s].seg].latest \notin {0, sub[s].last_frame}
  /\ SetSub(s, [sub[s] EXCEPT !.pc = "idle", !.now = 0, !.last_progress = 0,
                              !.last_frame = seg[sub[s].seg].latest])
  /\ UNCHANGED <<name, made, seg, pub, wrapped>>

\* read_latest: nothing new
no_frame(s) ==
  /\ sub[s].pc = "latest"
  /\ seg[sub[s].seg].latest \in {0, sub[s].last_frame}
  /\ SetSub(s, [sub[s] EXCEPT !.pc = "shutdown"])
  /\ UNCHANGED <<name, made, seg, pub, wrapped>>

\* read_latest: NoNewFrame, or Disconnected if the producer said goodbye
load_shutdown(s) ==
  /\ sub[s].pc = "shutdown"
  /\ SetSub(s, [sub[s] EXCEPT !.pc = "idle", !.now = 0,
                  !.peer_shutdown = sub[s].peer_shutdown \/ seg[sub[s].seg].shutdown])
  /\ UNCHANGED <<name, made, seg, pub, wrapped>>

-----------------------------------------------------------------------------
(* Time, and the specification                                              *)

Older(age, old) == AtMost(age + 1, old)

InCall(s) == sub[s].pc \notin {"none", "idle"}

\* A live publisher has given its heartbeat within MaxQuiet, nobody's
\* judgement and no poll has lasted for MaxStall.
tick ==
  /\ \A p \in Pubs : /\ pub[p].pc \in {"magic", "live"} => seg[pub[p].seg].heartbeat < MaxQuiet
                     /\ pub[p].pc = "age" => pub[p].busy < MaxStall
  /\ \A s \in Subs : InCall(s) => sub[s].now < MaxStall
  /\ seg' = [i \in DOMAIN seg |-> [seg[i] EXCEPT !.heartbeat = Older(@, Old)]]
  /\ pub' = [p \in Pubs |-> IF pub[p].pc # "age" THEN pub[p]
                            ELSE [pub[p] EXCEPT !.t = Older(@, Old), !.busy = @ + 1]]
  /\ sub' = [s \in Subs |->
       [sub[s] EXCEPT !.last_progress = Older(@, SubStale), !.last_attempt = Older(@, RetryOld),
                      !.last_read = Older(@, MinRead),
                      !.now = IF InCall(s) THEN @ + 1 ELSE @,
                      !.t = IF sub[s].pc \in {"beat", "again"} THEN Older(@, Old) ELSE @]]
  /\ UNCHANGED <<name, made, wrapped>>

\* A create that was begun, and a destructor
Continues(p) ==
  \/ truncate(p) \/ truncate_fails(p) \/ open_existing(p) \/ validate_existing(p)
  \/ judge_age(p) \/ unlink(p) \/ recreate(p)
  \/ init_header(p) \/ store_magic(p) \/ destroy_unlink(p)

\* A subscriber's open, and its calls of read_latest
Reads(s) ==
  \/ open(s) \/ poll(s) \/ judge_producer(s) \/ map(s) \/ validate(s)
  \/ read_frame(s) \/ no_frame(s) \/ load_shutdown(s)

Next ==
  \/ \E p \in Pubs : \/ create(p) \/ heartbeat(p) \/ commit(p) \/ destroy(p) \/ crash(p)
                     \/ Continues(p)
  \/ \E s \in Subs : Reads(s)
  \/ tick

Spec == Init /\ [][Next]_vars

\* Time passes, a begun call goes on, a live publisher gives its heartbeat and
\* a subscriber keeps reading.  Nobody has to create, commit, destroy or crash.
\* A heartbeat may come between the two operands of producer_responsive(), but
\* not every time.
FairSpec ==
  /\ Spec /\ WF_vars(tick)
  /\ \A p \in Pubs : WF_vars(Continues(p)) /\ WF_vars(heartbeat(p))
  /\ \A s \in Subs : WF_vars(Reads(s)) /\ SF_vars(~Wraps(sub[s]) /\ judge_producer(s))

-----------------------------------------------------------------------------
(* Properties                                                               *)

Segs  == 0..MaxSegs
Ages  == 0..Old

\* Fields of the header, of the publishers and of the subscribers' Impl.
TypeOK ==
  /\ name \in Segs /\ made \in Segs
  /\ seg \in [1..MaxSegs -> [sized : BOOLEAN, magic : BOOLEAN, session_id : Segs,
                heartbeat : Ages, latest : 0..MaxFrames, shutdown : BOOLEAN]]
  /\ pub \in [Pubs -> [pc : {"out", "live", "unlinking", "truncate", "init", "magic",
                             "open", "validate", "age", "unlink", "recreate"},
                       seg : Segs, first : Operands, t : Ages, busy : 0..MaxStall]]
  /\ sub \in [Subs -> [pc : {"none", "idle", "map", "validate", "beat", "again",
                             "latest", "shutdown"},
                       caller : {"open", "poll"}, seg : Segs, session : Segs,
                       last_frame : 0..MaxFrames, peer_shutdown : BOOLEAN,
                       last_progress : 0..SubStale, last_attempt : 0..RetryOld, last_read : 0..MinRead,
                       now : 0..MaxStall, candidate : Segs, first : Operands, t : Ages]]
  /\ wrapped \in BOOLEAN

\* "A second live publisher under the same name is refused, not allowed to
\* steal it": a live publisher is found under its name, come what may.
NeverStolen == \A p \in Pubs : Live(p) => name = pub[p].seg

\* No other create takes the name of a live publisher for abandoned and no
\* destructor unlinks it, unless a heartbeat came between the two operands of
\* the age that a create computed.
LiveNameKept == ~wrapped => NeverStolen

\* What a subscriber has adopted is a header that was complete when it was
\* looked at: the session id it remembers is the one the segment ends up with.
HeaderComplete ==
  \A s \in Subs : sub[s].seg # 0 =>
    sub[s].session = sub[s].seg /\ seg[sub[s].seg].magic

\* producer_shutdown() is true only of the session the subscriber is attached
\* to now, never of one before it.
ShutdownIsTrue == \A s \in Subs : sub[s].peer_shutdown => seg[sub[s].seg].shutdown

\* create is refused only because of a publisher that is alive, or gave its
\* last heartbeat within stale_producer_ms of the moment create looked at it: a
\* dead one does not block the name.
RefusedOnlyIfRecent ==
  [][\A p \in Pubs :
       (judge_age(p) \/ recreate(p)) /\ pub'[p].pc = "out" =>
         \/ \E q \in Pubs : Live(q)
         \/ name # 0 /\ seg[name].heartbeat - pub[p].busy < ProducerStale]_vars

\* The subscriber is on the publisher's session and has read its newest frame.
Synced(s, p) ==
  Live(p) /\ sub[s].seg = pub[p].seg /\ sub[s].last_frame = seg[pub[p].seg].latest

\* A subscriber that keeps reading ends up on the session of a publisher that
\* stays, whatever it was attached to before, and has read its newest frame,
\* unless a live publisher has lost its name.
Recovers ==
  \A p \in Pubs, s \in Subs : <>[](Live(p) /\ NeverStolen) => <>[]Synced(s, p)
=============================================================================
