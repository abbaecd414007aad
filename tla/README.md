# A TLA+ model of llshmframe

llshmframe moves frames and commands between two processes through one
shared-memory segment, without a lock. This directory models its protocols in
TLA+, checks them with TLC on small instances and proves the central ones with
TLAPS for every instance. File and line references are to the repository; the
correspondence of every definition with the code is in `PROJECT.json` ("map").

## The system

A segment has a name, a header (`LLHeader`), `slot_count` frame slots and two
command rings. One `LLPublisher` creates it; any number of `LLSubscriber`s
attach.

| component | state | operations | what makes it correct |
|---|---|---|---|
| frame channel | per slot `seq`, `frame_id`, geometry, payload; `latest`, `shutdown`; publisher: `pending`, `write_slot`, `frame_id`; subscriber: `last_frame`, `dropped` | `begin_write`, `commit`, `cancel_write`, `publish`, `read_latest` | what is read was published, whole; reads end; the newest frame gets through; a dead publisher blocks nobody |
| command rings | `head`, `tail`, cells; `next_cmd`, `dropped` | `send`, `receive` over `LLRing::push`, `pop` | bounded FIFO, nothing lost or torn, also when an end dies inside a call |
| command ownership | `command_owner_gen`, `command_owner_heartbeat_ns`; subscriber: `owns_commands`, `owner_gen` | claim in `try_connect`, `still_owns_commands`, `~LLSubscriber`, `has_subscriber`, `command_owner_stale` | one subscriber in the rings; a live owner keeps its claim; a dead one is replaced |
| session lifecycle | `magic`, `session_id`, `last_heartbeat_ns`; subscriber: mapping, `session`, `last_progress`, `last_attempt` | `create` with reclaim, `~LLPublisher`, `open`, `poll`, `heartbeat`, `producer_responsive` | one live publisher per name; a subscriber finds the current session |
| segment | the names and mappings of the OS | `LLSegment::create`, `open`, `unlink` | nobody unlinks a name that became somebody else's |
| layout | `LLConfig`, `LLLayout` | `config_valid`, `compute_layout`, `validate_header`, sizes in `begin_write` and `publish` | regions are disjoint and inside the mapping; no arithmetic wraps |
| rate gates | `min_interval_ns`, `last_publish_ns`, `min_read_ns`, `last_read_ns` | `set_max_publish_hz`, `publish_due`, `set_max_read_hz`, `read_due` | a gated call changes nothing but its counter; gates open again |
| multiview example | producer: `Slot`s (publisher, canvas, size, colour, `dirty`, `had_subscriber`, `last_active`); consumer: claim of the control channel, view index, texture size, `mHaveFrame` | the producer's loop, `allocate_slot`, `free_slot`; `connectToProducer`, the callbacks, `update` | a consumer gets and keeps the view it asked for; views return to the pool; a window is filled |
| other examples | `sender`, `receiver`, `minimal`: none of their own | | |
| utilities | none | `to_string`, `segment_bytes`, `make_session_id`, `write_bmp_bgra` | |

The components interact through the header only. `read_latest` calls `poll`,
which refreshes the ownership heartbeat and re-attaches; `send` and `receive`
pass the ownership check before they touch a ring; `create` and `poll` judge
the other side by its heartbeat. What is hard: every pair of accesses of two
processes can interleave, either process can die between any two of them, and
all judgement of liveness is by unsigned differences of clock values read at
different moments. The multiview example adds a protocol on top: requests and
replies on a shared control channel, with timeouts on both sides. `PROJECT.json` ("hazards") lists these places by line.

## Modules

`FrameChannel` models the frame half. One action per access to shared memory
that another process can observe: `begin_write` (seq odd), `write_geometry`,
`render` (one word of the payload), `commit_stamp`, `commit_seq`,
`commit_latest`, `cancel_write`, `destroy`, `crash` for the publisher;
`read_latest`, `load_latest`, `load_shutdown`, `load_seq`, `load_bytes`,
`copy_field` (one word, in any order), `check_seq` for a reader. The order
between them is what the fences of the code enforce, no more. A payload word is
the number of the write attempt that stored it, so a torn frame is a frame with
two numbers. `published` and `overwritten` are history. `Capacities` are the buffer sizes
that callers pass.

`CommandRing` models one direction of the command channel; the initial state
chooses which end is the subscriber's (`owner_end`). `handoff` replaces that
subscriber at any point of a call. Counters are modulo `Word`. `BoundedFifo` is
what the ring promises; `CommandRing!Queued` is the refinement mapping.

`CommandOwnership` models who may be at the subscriber's end of the rings: the
claim loop (`load_gen` to `first_beat`), the check of every call
(`check_claim`, `beat_now`, `beat`), `destroy`, `crash`, and the publisher's
`command_owner_stale` (`observe` to `observed`). `tick` advances the clock. In
`now_ns() - load()` C++ leaves open which operand is evaluated first: every
evaluation chooses (`load_age`, `observe_age`), in every run and in the proofs.
What the protocol was not built for is recorded in the history variable
`faults`: attaches that overlap (`overlap`), an age that wraps because a
heartbeat was stored after the time was read and before it was loaded (`wrap`), a
call that takes more than `MaxStall` ticks (`stall`), an owner that stays away
for more than `MaxQuiet` (`quiet`). The constant `Faults` says which may happen
in a run; each property says which of them it survives.

`Session` models the life of a name: the name table (a name leads to at most one
segment; `unlink` detaches it), `create` in its steps (`create`, `truncate`,
`open_existing`, `validate_existing`, `judge_age`, `unlink`, `recreate`,
`init_header`, `store_magic`), `heartbeat`, `commit`, `destroy` and
`destroy_unlink`, `crash` anywhere, and a subscriber's `open`, `poll`,
`judge_producer`, `map`, `validate`, and `read_latest` as far as sessions go,
behind the stale window, the retry gate and the read gate. Stored times are kept
as ages, so that the model is finite without a bound on the clock. The operands of
an age are evaluated in either order here too; `wrapped` records that a heartbeat
came between them while a `create` was judging the name. A frame is a number, the
seqlock is left to `FrameChannel`.

`Layout` models the arithmetic: `config_valid`, `align_up`, `compute_layout`,
`segment_bytes`, the addresses of slots, cells and payloads, `validate_header`,
and the geometry that `begin_write` accepts, in unsigned integers of two widths.
A segment is created for a configuration, possibly changed in one field or cut
short (`make_foreign`), and attached to.

`Multiview` composes the promises of the modules below it into the example:
rings are bounded FIFOs, a frame is read whole, a claim is taken in one step. The
producer's loop is split where a consumer can come in between: one request
(`serve_request`), the look at `has_subscriber()` (`look`), its consequence for
the slot (`reclaim` or `attend`), one command from its ring (`execute`), and the
regeneration and publishing once the ring is empty (`finish`). A consumer's steps are those of
`connectToProducer` (`claim` to `start_url`), its window callbacks and `update`.
Windows and timeouts are steps (`control_owner_goes_stale`, `owner_goes_stale`,
`grace_elapses`, `timeout`, `busy`) and may happen to a consumer that is alive and slow
as well as to a dead one, the incident that llinternal.h:58-67 reports included:
`silent` says that the heartbeat of a claim is old, every call of its owner clears
it, and who finds it set steals the claim or frees the view. `late` counts the
windows that ended for a live consumer; `abandoned`, `mine`, `lost` and `early` are
history as well. A URL is the colour it selects.

`FrameChannelProofs`, `CommandRingProofs`, `LayoutProofs`, `SessionProofs`,
`CommandOwnershipProofs` and `MultiviewProofs` hold the theorems about the module they are named after.

## Runs

| run | result | what it shows |
|---|---|---|
| `FrameReads` | holds | Ok means a published frame, whole, not older than the one `latest` named and at most one frame back; the drop count does not wrap; every `read_latest` returns and a frame that stays newest is read |
| `FrameOrder` | violated | Ok is not always a newer frame |
| `FrameCancel` | violated | a cancelled write can become readable |
| `CommandRing` | holds | the ring is a bounded FIFO in both directions and delivers |
| `Ownership` | holds | attaches one at a time, no call stalls, but owners may stay away and ages may wrap: until one of these happens one subscriber is in the rings, a live owner keeps its claim and is not called stale; also afterwards a call begun after a theft stays out of the rings, and a late destructor leaves the new claim alone |
| `OwnershipAttach` | holds | all four faults, two attachers racing for one stale claim among them: the claim loop ends and a dead owner is replaced |
| `OwnershipRace` | violated | two subscribers that attach at the same time can both be in the rings |
| `Session` | holds | if creates do not overlap: a live publisher keeps its name unless the age that a `create` computed has wrapped, no half-made header is adopted, a goodbye is that of the current session, `create` is refused only because of a recent heartbeat, and a subscriber ends up on the session of a publisher that stays under its name, with its newest frame |
| `SessionSteal` | violated | two creates at the same time: one takes the name of the other, which goes on without it |
| `Layout` | holds | what `validate_header` admits has disjoint, aligned parts inside the mapping; a publisher's own segment is never refused; what `begin_write` admits fits |
| `Multiview` | holds | a consumer takes its own answer, finds the view and keeps it, unless somebody abandoned a request or a window ended for a live consumer; whatever windows end, no blank frame, a URL is kept, views return to the pool, windows are filled |
| `MultiviewHeals` | violated | after an abandoned request a consumer is sent to a view that is not there |

An owner that pauses *inside* a call for longer than the window (the fault `stall`)
can be in the rings together with its successor, and so can one that comes back
late and passes its check just before it is stolen from (`quiet`): nothing in the
code prevents it. Each of the four faults alone, allowed in `OwnershipRace.cfg`
(with no check for deadlock and a clock that goes far enough, 9 or 10), violates
`OneInRings`, so none can be left out of the condition of `RingExclusive`.
`StolenNeverEnters` and `NeverCleared` survive `quiet` and `wrap`; both are violated
once attaches overlap, because two claims in one clock tick carry the same token. That
they exclude `stall` is what their proof needs; a search with two subscribers that was not
exhausted found no
counterexample.

### Bounds

`FrameReads`: three slots, so five attempts go around the slots and reach a slot
again while a reader is in it; two rounds per call (`Retries`, 4 in the code) are
enough for a round to fail and the next to succeed. The payload is one word
beside the header fields, enough to mix two frames; frames of any number of
words are the subject of the theorem `NoTearing`. One reader: readers do not
write shared memory, so they do not influence each other. `FrameCancel` needs
`slot_count` cancels to reach the slot that `latest` names, and takes `Retries`
as in the code. Ring: two cells and a word of 4, so five sends fill the ring,
refuse one and wrap the counters; two hand-offs let a successor die as well.
Ownership: two subscribers; `Ownership` has `Stale` = 4 > `MaxQuiet` + 2
`MaxStall` (the longest age a live owner can show without a fault: a pause, its own call and the
judge's call) and four ticks after the start, enough for an owner to stay away for the whole
window and be stolen from, and for a third attach. `OwnershipAttach` has
`Stale` = 2, so that two ticks make a claim stale, all faults, and no publisher
looking on, whose steps change nothing for the others. `Init` sets the clock to `Stale`: the machine has been
up longer than the window, and a fresh header's heartbeat 0 is in the past.

`Session`: two publishers and two segments, so a name is created, abandoned in
every way (no size, no header, no magic, no heartbeat, shutdown) and reclaimed;
one subscriber, because subscribers do not write what other subscribers or
`create` look at here. `ProducerStale` and `SubStale` = 3 > `MaxQuiet` +
`MaxStall`; `Retry` = `MinRead` = 1, so that both gates close and open between
two polls; ages stop at the first value that every window calls old, so time
itself is not bounded. A `create` begins only while a segment is left to be made, so
that none is cut off by the bound. One frame per session tells "read" from "not read".

`Layout`: the code's limits are constants and are given small values with the
same relations (a line of 4, words of 8 and 16 bits); callers' values lie below,
at and above each limit; foreign fields take values that are small, plausible
and large; frame sizes include 128 x 128 x 4, which wraps the 16 bits as
2^31 x 2^31 x 4 wraps 64.

`Multiview`: one view and two consumers, so they compete for the view and one can
inherit what the other left; one control cell and one cell per view, so that a
request, a reply and a command can be refused; the window sizes are one that fits
and one above the limit, the URL differs from the colour of a new slot. One event of the user
or one window that ends for a live consumer (`MaxEvents` bounds their sum): each
of them with every interleaving, not both. `MultiviewHeals` has two views and
three launches, so that a wrong index can be told, and also the window without
area; the theorems cover all sizes.

### Fairness

`FrameReads` assumes that a reader continues a call it began and keeps
calling, nothing of the publisher. `CommandRing` assumes the same of the
receiver, nothing of the sender. `OwnershipAttach` assumes that a subscriber
that is alive continues a call and keeps calling, and that
`compare_exchange_weak` does not fail for ever when the value matches (strong
fairness of `cas_succeeds`). `Session` assumes that time passes, that a begun
`create` or destructor goes on, that a live publisher gives its heartbeat and
that a subscriber keeps reading; nobody has to create, commit, destroy or crash. A
heartbeat may fall between the two operands of `producer_responsive`, but not on every
call (strong fairness of a judgement that does not wrap): the gap is a few
instructions.
`Multiview` assumes that the producer's loop runs, that its publish period
elapses again and again (strong fairness of a round that publishes), that a
consumer goes on connecting and then rendering, and that the windows of those who
are gone end; the windows of a live consumer may end. All of
these are loops of the application, which the library's documentation asks for;
crashes, timeouts and what users do are never fair. `Layout` and `Multiview` may
stop: nothing is left to do once a segment has been judged, or once no consumer
is started any more.

### Disagreements between code and documentation

1. `FrameCancel`: `cancel_write` (llpublisher.cpp:206) says that `latest` points
   elsewhere. After `slot_count` - 1 cancelled writes the next `begin_write`
   gets the slot that `latest` names; cancelling that leaves the new bytes
   readable under the old frame id.
2. `FrameOrder`: `commit` makes the slot even before it stores `latest`. A reader
   that was lapped can take the new frame early; `latest` still names the frame
   before, which is then returned as Ok. By the same path a publisher that dies
   between the two stores can leave a frame that is returned again and again.
3. `OwnershipRace`: claim and first heartbeat are two stores; in between a new
   owner is judged by the heartbeat of the old one. A second way to the same end
   needs no overlap: `now_ns() - load()` (llsubscriber.cpp:138) wraps if the time is
   read first and the heartbeat is stored before it is loaded, and a live owner in
   the middle of a call is robbed. The run with `Faults` = {"wrap"} and
   `MaxClock` = 10 is violated too.
4. `SessionSteal`: `create` takes a segment that another `create` has not finished
   for abandoned and unlinks it; README.md:92-93 says that a live publisher is
   not stolen from. With `Overlap` = FALSE the run is violated by the wrap of the
   age at llpublisher.cpp:97.
5. `MultiviewHeals`: every request has id 1, so `reply_to` does not tell whose
   answer it is, and answers survive their requester in the ring.

Met while modelling, without a run of their own:

- The same wrap at llpublisher.cpp:339 makes `command_owner_stale` true of a live
  owner, and in `producer_responsive` (llsubscriber.cpp:192) sends a subscriber
  through `try_connect` for nothing. Hence `QuietMeansDead`, `ClaimKept`,
  `RingExclusive` and `LiveNameKept` are promised only until an age has wrapped;
  without that condition each of them fails.
- The window of 3 also reaches `command_owner_stale`: it can be true of an owner
  between its claim and its first heartbeat, and the multiview producer would
  free that view.
- With `Overlap`, `~LLPublisher` can be split by a `create`: the shutdown marker
  is seen, the segment reclaimed, and the destructor then unlinks the new name.
- `begin_write` (llpublisher.cpp:180) multiplies what the caller passes in 64
  bits before it compares: 2^31 x 2^31 x 4 is 0 and admitted. README.md:163-165
  says this arithmetic can never wrap, which is true of the configuration.
  `AcceptedFits` is therefore conditional.
- A start URL that the producer receives in the round before it notices its
  sender is replaced by a colour drawn by lot (multiview_producer.cpp:293-296;
  multiview_consumer.cpp:136-138 says the first regeneration reflects it).
  `UrlKept` excludes this case (`early`).
- multiview_consumer.cpp:40 and :68 put the library's steal window at about 2 s;
  it is 8 s, longer than `kControlClaimTimeout`.
- The multiview control publisher never gives a heartbeat; `stale_producer_ms`
  after its start a second producer may reclaim its name.
- A read that ends Contended has copied part of a frame into `mFrameBuf`, which is
  drawn as long as `mHaveFrame` is true.
- llshmframe.h:275 says that `poll()` returns `connected()`; it returns whether
  the producer is responsive.

## Proofs

`FrameChannelProofs` proves, for every number of slots the code admits, every
payload size, every set of readers and every bound: type correctness, no
tearing (`NoTearing`), `NeverOlder` and `AtMostOneBack`. None of these is
inductive. The invariant `IInv` adds: `seq` is odd exactly in the slot being
written (`ParityInv`); how `frame_id`, `latest`, the slots' ids and the history
relate at each step of a commit (`HistoryInv`); a closed slot holds the image
committed under its id unless a cancelled write reopened it (`ImageInv`); and
what a reader may conclude from what it has loaded (`ReaderInv`): in particular
that the words it has copied are still in the slot *if* the slot's `seq` is
still the one it started from. The key lemma is that no publisher step lets a
`seq` or a slot's id go back (`PublisherMonotone`).

`CommandRingProofs` proves, for every ring size that divides the word: types,
`NoCellRace`, `LosslessFifo`, `GaplessIds`, and that the ring implements
`BoundedFifo` (`Refinement`). The invariant ties the wrapped counters to the
lengths of the histories and the cells in between to what was pushed; the rest
is arithmetic of remainders, proved as lemmas (`ModDistance`: unsigned
subtraction is the distance; `ModShift`: masking commutes with wrap-around;
`ModDistinct`: cells in use are distinct).

`DropCountBounded` (no wrap in `frames_dropped`) stands on `IInv` and one more
invariant, `DInv`: the count stays below the frame that `latest` names, which
never goes back, and hence below the last frame read, which can go back by one.

`LayoutProofs` proves all four invariants of `Layout` for every line, every size
of the structs and all limits: `AdoptedSegmentIsSafe`, `OwnSegmentIsAccepted`,
`AcceptedFrameFits`, `LayoutTypes`. The work is in `LayoutFacts`: for a valid
configuration no sum or product of `compute_layout` wraps, so each result is the
mathematical one, is a multiple of the line and lies where the previous part
ends; from there parts are disjoint (`PartsApart`) and inside (`PartsInside`). The
invariant `LInv` says in addition that a segment nobody tampered with has the
header of a valid configuration and its size, and that an attached view is
what `validate_header` recomputed, not what the header claims.
`LimitsAssumption` is what the proof needs of the limits: a segment at all of
them is smaller than 2^64 (in the code, 2^53 or so). `PowerAssumption` states
two facts about powers of two that the provers do not know.

`SessionProofs` has two layers. `SInv` holds whatever the timing and however
creates overlap: a header names its session before it becomes valid, and only
ever gains (`SegGrows`), so what a subscriber concluded from it stays true. It
gives `AdoptedHeadersAreComplete` and `ShutdownIsOfThisSession`. `TurnInv`
(hypothesis `Orderly`: creates do not overlap) adds that nobody else touches the
name while a `create` runs, so that what
it mapped is what the name leads to, and that the operand it has read is not
newer than what is there; it gives `RefusalsAreRecent`. `HoldInv` (hypothesis
`Prompt`: also `MaxQuiet` + `MaxStall` < `ProducerStale`) adds, as long as no age that
a `create` computed has wrapped, that at
most one publisher has a segment, that the name leads to it, and that whoever
judges its heartbeat read a recent one; it gives `LiveNameIsKept`. The order of the
operands is free throughout. The hypothesis and the condition are needed:
`SessionSteal` is violated by an overlap, and without overlap by a wrap.

`CommandOwnershipProofs` has three layers, for any number of subscribers.
`PastInv`, whatever the timing: no stored or remembered time is of the future
(`OwnershipTypes`). `TokenInv`, under `Unhurried` (`MaxStall` < `Stale`) and as long as
no attach overlapped another and no call stalled (`Paced`), lets owners be away
for ever, ages wrap and claims be stolen: every subscriber that believes it owns the channel has a
token of its own. The token is the time of the claim, so this is not obvious; it
holds because a thief waits until the heartbeat is `Stale` old, and no heartbeat,
not even one that a former owner stores late, is more than a call older than the
youngest token (`Beaten`, `Guarded`). It gives `StolenStaysOut` and
`ClaimIsNotCleared`. `OwnerInv`, under `Steady` (`Lull` + 2 `MaxStall` <
`Stale`, where `Lull` is the longer of `MaxQuiet` and `MaxStall`) and until the first
fault of any kind, says that a
live owner's heartbeat is always fresh enough for whoever judges it, so there is
one owner and the claim is its own. It gives `RingsAreExclusive`,
`StaleOwnerIsDead` and `LiveClaimIsKept`. `OwnershipRace` shows that neither
`overlap` nor `wrap` can be dropped from the faults.

`MultiviewProofs` proves the five invariants of `Multiview` for any number of
consumers, views, cells, sizes and colours. Four of them hold whoever dies and
however slow the others are; `PromisesAreKept` is about the time before somebody
abandons a request (`abandoned`) and before a window ends for a consumer that is
alive (`late` = 0). Three
invariants, each about other fields, stand on the types (`TypeInv`).
`PictureInv`: the canvas of a view in use has the size of the view and is drawn
or dirty, and the loop only works on slots in use; it gives `PublishedIsDrawn` and
`TexturesAreFilled`. `PromiseInv` relates the control channel to the slots: who
asks owns the channel, so at most one request or reply is under way and it is that of
the one consumer that waits; a view that was promised is in use, unclaimed, not
idle, and promised to nobody else; one that is attached belongs to who attached.
`Silence` says that only the claims of the dead are silent. Both are invariant while
`late` = 0, so that a promised view is not idle and an owned one not silent and neither can be
reclaimed; the windows are thus the only way in which a patient consumer loses its
view. `PromiseInv` gives `PromisesAreKept`, and `MultiviewHeals` shows that it ends with the first
abandoned request. `UrlInv` says where an owner's URL is: the
last one in the ring, or, with none in the ring, in the colour of a slot whose
subscriber the producer knows about (no colour by lot follows), or it came too early;
it gives `UrlStays`. Ring lemmas (`PendingAppend`, `PendingTail`) replace an
induction over the ring, because the loop takes one command at a time.

The hypotheses on timing are about constants of the modules, not assumptions: the
theorems state them (`ASSUME Steady PROVE ...`), and the runs `Ownership` and
`Session` check instances that satisfy them. What is a condition on the past
(`faults`, `wrapped`, `abandoned`, `late`) is part of the property itself. In the code
the window is 8 s for owners (2 s by default for publishers) and a call takes
microseconds, so that the condition that matters is that an application comes
back in time. What is assumed of the constants otherwise is in the `ASSUME`s of
the modules, which TLC evaluates in the runs. The inductive invariants were
model-checked before they were proved.

Only model-checked: the liveness properties (`ReadTerminates`, `AttachEnds`,
`Recovers` and the like): fairness is outside the prover's reach.

## What is not modelled, and the plan

Abstracted throughout: the content of payloads, timestamps, command types and
`reply_to` (but for the multiview requests), counters that are only reported.
Assumed: a non-empty command comes with its data (`data != nullptr`),
`session_id`s are unique, the caller keeps one thread per object as the header
asks. In `Session` the effect of `receive` on `last_progress` and the destruction
of a subscriber are left out: neither changes what a name leads to. In `Layout`
the name is left out.

Not modelled:

- the Windows branch of `LLSegment`, where `unlink` does nothing and a segment
  lives as long as a handle;
- the publish gate (`set_max_publish_hz`, `publish_due`): it refuses or allows a
  whole `publish` and keeps one time of its own;
- `sender`, `receiver` and `minimal`: loops around the calls that are modelled;
- `write_bmp_bgra` (file output), `to_string`, the hash in `make_session_id`,
  Boost.Interprocess (vendored);
- the pixels and byte codecs of the multiview example.

Next: every invariant the passing runs check is proved. What is left for the
prover are the step-wise facts under the liveness properties (what a step of an
unlucky interleaving may undo), which would shorten the argument from fairness
that TLC now makes alone.
