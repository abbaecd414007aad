-------------------------- MODULE CommandOwnership --------------------------
(***************************************************************************)
(* Who may drive the command rings of a session.  LLHeader holds a claim   *)
(* (command_owner_gen, 0 = unclaimed) and the time of the owner's last     *)
(* sign of life (command_owner_heartbeat_ns).  An LLSubscriber that        *)
(* attaches claims the channel if it is free, or if the owner has been     *)
(* quiet for kCommandOwnerStaleNs; from then on every send, receive and    *)
(* poll checks that the claim is still its own and refreshes the           *)
(* heartbeat.  The publisher looks at the same two words to tell whether   *)
(* the owner crashed.                                                      *)
(*                                                                         *)
(* Each load, store, compare-exchange and now_ns() is a step.  Time is a   *)
(* clock that ticks between steps.  `now_ns() - load()` leaves open which  *)
(* operand is evaluated first, so every evaluation may take either order.  *)
(*                                                                         *)
(* The history variable `faults` records what the channel was not built    *)
(* for: attaches that overlap, an age that wraps because a heartbeat came  *)
(* between its two operands, a call that outlasts MaxStall, an owner that  *)
(* stays away for longer than MaxQuiet.  Faults says which of them may     *)
(* happen; the properties say which of them they survive.                  *)
(***************************************************************************)
EXTENDS Integers, FiniteSets

CONSTANTS
  Subs,          \* the LLSubscribers
  Stale,         \* kCommandOwnerStaleNs, in ticks
  Word,          \* 2^64, the modulus of times and ages
  MaxStall,      \* longest call that is no fault, in ticks
  MaxQuiet,      \* longest time between two calls of an owner that is none
  Faults,        \* the faults that may happen
  Watching,      \* bound: whether the publisher calls command_owner_stale
  MaxClock,      \* bound: the clock
  MaxAttaches    \* bound: number of times a subscriber attaches

ASSUME CommandOwnershipAssumption ==
  /\ Stale \in Nat \ {0}
  /\ MaxClock \in Nat /\ Stale <= MaxClock /\ MaxClock < Word /\ Word \in Nat
  /\ Faults \subseteq {"overlap", "wrap", "stall", "quiet"}
  /\ Watching \in BOOLEAN
  /\ MaxStall \in Nat /\ MaxQuiet \in Nat /\ MaxAttaches \in Nat

VARIABLES
  clock,         \* now_ns()
  gen,           \* LLHeader::command_owner_gen
  hb,            \* LLHeader::command_owner_heartbeat_ns
  sub,           \* the subscribers
  obs,           \* the publisher in command_owner_stale(), and the verdict
  attaches,      \* bounded number of attaches so far
  faults         \* history: the faults that have happened

vars == <<clock, gen, hb, sub, obs, attaches, faults>>

Gone == [pc |-> "gone", existing |-> 0, t |-> 0, claim |-> 0,
         owns_commands |-> FALSE, owner_gen |-> 0, started |-> 0, stolen |-> FALSE]

NotObserving == [pc |-> "idle", t |-> 0, stale |-> FALSE, started |-> 0, settled |-> {}]

\* The machine has been up for longer than the stale window.
Init ==
  /\ clock = Stale
  /\ gen = 0 /\ hb = 0
  /\ sub = [s \in Subs |-> Gone]
  /\ obs = NotObserving
  /\ attaches = 0 /\ faults = {}

Attaching(s) ==
  sub[s].pc \in {"load", "age", "hb_read", "now_read", "claim", "cas", "claimed", "first_beat"}
Calling(s)   == sub[s].pc \in {"check", "now", "beat", "ring"}
Live(s)      == sub[s].pc # "gone"

\* MUTANT of Age: the difference is taken the wrong way round.
Age_Swapped(now, beat) == (beat - now) % Word

\* now - heartbeat in unsigned arithmetic
Age(now, beat) == (now - beat) % Word

Set(s, me) == sub' = [sub EXCEPT ![s] = me]

\* The step is a fault, or several at once.
Happens(these) == these \subseteq Faults /\ faults' = faults \union these

-----------------------------------------------------------------------------
(* LLSubscriber::open and Impl::try_connect, on a session it did not know   *)

open(s) ==
  /\ sub[s].pc = "gone" /\ attaches < MaxAttaches
  /\ attaches' = attaches + 1
  /\ Happens(IF \E q \in Subs : Attaching(q) THEN {"overlap"} ELSE {})
  /\ Set(s, [Gone EXCEPT !.pc = "load", !.started = clock])
  /\ UNCHANGED <<clock, gen, hb, obs>>

\* The top of the claim loop: a claimed channel is worth a look at its age.
LoopTop(me, g) ==
  [me EXCEPT !.existing = g, !.pc = IF g # 0 THEN "age" ELSE "claim", !.t = 0, !.claim = 0]

load_gen(s) ==
  /\ sub[s].pc = "load"
  /\ Set(s, LoopTop(sub[s], gen))
  /\ UNCHANGED <<clock, gen, hb, obs, attaches, faults>>

\* The operand of the age that is evaluated first, and what is left to read
Operand(first) == IF first = "hb_read" THEN hb ELSE clock

\* The age, once the other operand is evaluated as well
Elapsed(me) == IF me.pc = "hb_read" THEN Age(clock, me.t) ELSE Age(me.t, hb)

\* A heartbeat later than the now that was read before it: the age wraps.
Wraps(me) == IF me.pc = "now_read" /\ me.t < hb THEN {"wrap"} ELSE {}

load_age(s) ==
  /\ sub[s].pc = "age"
  /\ \E first \in {"hb_read", "now_read"} :
       Set(s, [sub[s] EXCEPT !.pc = first, !.t = Operand(first)])
  /\ UNCHANGED <<clock, gen, hb, obs, attaches, faults>>

\* MUTANT of judge_age: every owner is taken for dead.
judge_age_Always(s) ==
  /\ sub[s].pc \in {"hb_read", "now_read"} /\ Happens(Wraps(sub[s]))
  /\ Set(s, [sub[s] EXCEPT !.pc = "claim", !.t = 0])
  /\ UNCHANGED <<clock, gen, hb, obs, attaches>>

\* MUTANT of judge_age: a claimed channel is never stolen.
judge_age_Never(s) ==
  /\ sub[s].pc \in {"hb_read", "now_read"} /\ Happens(Wraps(sub[s]))
  /\ Set(s, [sub[s] EXCEPT !.pc = "idle", !.t = 0, !.existing = 0])
  /\ UNCHANGED <<clock, gen, hb, obs, attaches>>

\* Genuinely held: attached, but without the command channel.
judge_age(s) ==
  /\ sub[s].pc \in {"hb_read", "now_read"} /\ Happens(Wraps(sub[s]))
  /\ \/ /\ Elapsed(sub[s]) < Stale
        /\ Set(s, [sub[s] EXCEPT !.pc = "idle", !.t = 0, !.existing = 0])
     \/ /\ Elapsed(sub[s]) >= Stale
        /\ Set(s, [sub[s] EXCEPT !.pc = "claim", !.t = 0])
  /\ UNCHANGED <<clock, gen, hb, obs, attaches>>

\* MUTANT of take_token: a token that is never 0, and not of now.
take_token_PlusOne(s) ==
  /\ sub[s].pc = "claim"
  /\ Set(s, [sub[s] EXCEPT !.pc = "cas", !.claim = clock + 1])
  /\ UNCHANGED <<clock, gen, hb, obs, attaches, faults>>

\* The token is the time.
take_token(s) ==
  /\ sub[s].pc = "claim"
  /\ Set(s, [sub[s] EXCEPT !.pc = "cas", !.claim = IF clock = 0 THEN 1 ELSE clock])
  /\ UNCHANGED <<clock, gen, hb, obs, attaches, faults>>

cas_succeeds(s) ==
  /\ sub[s].pc = "cas" /\ gen = sub[s].existing
  /\ gen' = sub[s].claim
  /\ Set(s, [sub[s] EXCEPT !.pc = "claimed", !.owns_commands = TRUE,
                           !.owner_gen = sub[s].claim, !.existing = 0, !.claim = 0])
  /\ UNCHANGED <<clock, hb, obs, attaches, faults>>

\* MUTANT of cas_fails: the loop goes on with the claim it saw first.
cas_fails_Stale(s) ==
  /\ sub[s].pc = "cas"
  /\ Set(s, LoopTop(sub[s], sub[s].existing))
  /\ UNCHANGED <<clock, gen, hb, obs, attaches, faults>>

\* Somebody was faster, or compare_exchange_weak failed spuriously.
cas_fails(s) ==
  /\ sub[s].pc = "cas"
  /\ Set(s, LoopTop(sub[s], gen))
  /\ UNCHANGED <<clock, gen, hb, obs, attaches, faults>>

\* The first heartbeat comes after the claim: now_ns(), then the store.
first_now(s) ==
  /\ sub[s].pc = "claimed"
  /\ Set(s, [sub[s] EXCEPT !.pc = "first_beat", !.t = clock])
  /\ UNCHANGED <<clock, gen, hb, obs, attaches, faults>>

first_beat(s) ==
  /\ sub[s].pc = "first_beat"
  /\ hb' = sub[s].t
  /\ Set(s, [sub[s] EXCEPT !.pc = "idle", !.t = 0])
  /\ UNCHANGED <<clock, gen, obs, attaches, faults>>

-----------------------------------------------------------------------------
(* poll, send and receive of a subscriber that believes it is the owner:    *)
(* still_owns_commands, then, for send and receive, the ring.  For the      *)
(* others they return false without touching the segment.  `stolen` records *)
(* whether the claim was already lost when the call began.                   *)

call(s) ==
  /\ sub[s].pc = "idle" /\ sub[s].owns_commands
  /\ Set(s, [sub[s] EXCEPT !.pc = "check", !.started = clock,
                           !.stolen = gen # sub[s].owner_gen])
  /\ UNCHANGED <<clock, gen, hb, obs, attaches, faults>>

\* MUTANT of check_claim: the claim is not looked at again.
check_claim_Skipped(s) ==
  /\ sub[s].pc = "check"
  /\ Set(s, [sub[s] EXCEPT !.pc = "now"])
  /\ UNCHANGED <<clock, gen, hb, obs, attaches, faults>>

check_claim(s) ==
  /\ sub[s].pc = "check"
  /\ IF gen # sub[s].owner_gen
     THEN Set(s, [sub[s] EXCEPT !.pc = "idle", !.owns_commands = FALSE])
     ELSE Set(s, [sub[s] EXCEPT !.pc = "now"])
  /\ UNCHANGED <<clock, gen, hb, obs, attaches, faults>>

beat_now(s) ==
  /\ sub[s].pc = "now"
  /\ Set(s, [sub[s] EXCEPT !.pc = "beat", !.t = clock])
  /\ UNCHANGED <<clock, gen, hb, obs, attaches, faults>>

\* poll() is done, send() and receive() go on into the ring.
beat(s) ==
  /\ sub[s].pc = "beat"
  /\ hb' = sub[s].t
  /\ \E next \in {"idle", "ring"} : Set(s, [sub[s] EXCEPT !.pc = next, !.t = 0])
  /\ UNCHANGED <<clock, gen, obs, attaches, faults>>

leave_ring(s) ==
  /\ sub[s].pc = "ring"
  /\ Set(s, [sub[s] EXCEPT !.pc = "idle"])
  /\ UNCHANGED <<clock, gen, hb, obs, attaches, faults>>

-----------------------------------------------------------------------------
(* The end of a subscriber                                                  *)

Forget(s) == [obs EXCEPT !.settled = obs.settled \ {s}]

\* MUTANT of Release: an unconditional store.
Release_Unconditional(s) == 0

\* The compare_exchange_strong of the destructor.
Release(s) == IF gen = sub[s].owner_gen THEN 0 ELSE gen

\* LLSubscriber::~LLSubscriber
destroy(s) ==
  /\ sub[s].pc = "idle"
  /\ gen' = IF sub[s].owns_commands THEN Release(s) ELSE gen
  /\ Set(s, Gone) /\ obs' = Forget(s)
  /\ UNCHANGED <<clock, hb, attaches, faults>>

\* The process dies, wherever it is; the segment keeps its claim.
crash(s) ==
  /\ Live(s)
  /\ Set(s, Gone) /\ obs' = Forget(s)
  /\ UNCHANGED <<clock, gen, hb, attaches, faults>>

-----------------------------------------------------------------------------
(* LLPublisher::command_owner_stale                                         *)

\* The live holder of the claim, past its first heartbeat.
Settled(s) == Live(s) /\ ~Attaching(s) /\ sub[s].owns_commands /\ gen = sub[s].owner_gen

\* obs.settled: the owners that have been there since the call began
observe ==
  /\ obs.pc = "idle" /\ Watching
  /\ obs' = [pc |-> IF gen = 0 THEN "judged" ELSE "age", t |-> 0, stale |-> FALSE,
             started |-> IF gen = 0 THEN 0 ELSE clock,
             settled |-> {s \in Subs : Settled(s)}]
  /\ UNCHANGED <<clock, gen, hb, sub, attaches, faults>>

observe_age ==
  /\ obs.pc = "age"
  /\ \E first \in {"hb_read", "now_read"} :
       obs' = [obs EXCEPT !.pc = first, !.t = Operand(first)]
  /\ UNCHANGED <<clock, gen, hb, sub, attaches, faults>>

\* MUTANT of observe_judge: half the window is enough.
observe_judge_Early ==
  /\ obs.pc \in {"hb_read", "now_read"} /\ Happens(Wraps(obs))
  /\ obs' = [obs EXCEPT !.pc = "judged", !.t = 0, !.started = 0,
                      !.stale = 2 * Elapsed(obs) >= Stale]
  /\ UNCHANGED <<clock, gen, hb, sub, attaches>>

observe_judge ==
  /\ obs.pc \in {"hb_read", "now_read"} /\ Happens(Wraps(obs))
  /\ obs' = [obs EXCEPT !.pc = "judged", !.t = 0, !.started = 0,
                      !.stale = Elapsed(obs) >= Stale]
  /\ UNCHANGED <<clock, gen, hb, sub, attaches>>

observed ==
  /\ obs.pc = "judged"
  /\ obs' = NotObserving
  /\ UNCHANGED <<clock, gen, hb, sub, attaches, faults>>

-----------------------------------------------------------------------------
(* Time, and the specification                                              *)

Overlong(started) == clock - started >= MaxStall

\* Somebody's call outlasts MaxStall with this tick, the publisher's included.
Stalls ==
  \/ \E s \in Subs : (Attaching(s) \/ Calling(s)) /\ Overlong(sub[s].started)
  \/ obs.pc \in {"age", "hb_read", "now_read"} /\ Overlong(obs.started)

\* Some owner's absence outlasts MaxQuiet.
FallsQuiet ==
  \E s \in Subs : /\ sub[s].pc = "idle" /\ sub[s].owns_commands
                  /\ clock - sub[s].started >= MaxQuiet

tick ==
  /\ clock < MaxClock
  /\ clock' = clock + 1
  /\ Happens((IF Stalls THEN {"stall"} ELSE {}) \union (IF FallsQuiet THEN {"quiet"} ELSE {}))
  /\ UNCHANGED <<gen, hb, sub, obs, attaches>>

\* The steps a running subscriber takes without being asked again.
Continues(s) ==
  \/ load_gen(s) \/ load_age(s) \/ judge_age(s) \/ take_token(s)
  \/ cas_succeeds(s) \/ cas_fails(s) \/ first_now(s) \/ first_beat(s)
  \/ check_claim(s) \/ beat_now(s) \/ beat(s) \/ leave_ring(s)

Next ==
  \/ \E s \in Subs :
       \/ open(s) \/ call(s) \/ destroy(s) \/ crash(s) \/ Continues(s)
  \/ observe \/ observe_age \/ observe_judge \/ observed
  \/ tick

Spec == Init /\ [][Next]_vars

\* A running subscriber keeps running and an owner keeps calling; the weak
\* compare-exchange does not fail for ever.
FairSpec ==
  /\ Spec
  /\ \A s \in Subs : /\ WF_vars(Continues(s))
                     /\ WF_vars(call(s))
                     /\ SF_vars(cas_succeeds(s))

-----------------------------------------------------------------------------
(* Properties                                                               *)

Times == 0..MaxClock

\* The words of the header and the fields of Impl have the types of the code,
\* and neither the claim nor the heartbeat is a time in the future.
TypeOK ==
  /\ clock \in Times /\ gen \in 0..clock /\ hb \in 0..clock /\ attaches \in 0..MaxAttaches
  /\ sub \in [Subs ->
       [pc : {"gone", "load", "age", "hb_read", "now_read", "claim", "cas", "claimed", "first_beat",
              "idle", "check", "now", "beat", "ring"},
        existing : Times, t : Times, claim : Times,
        owns_commands : BOOLEAN, owner_gen : Times, started : Times, stolen : BOOLEAN]]
  /\ obs \in [pc : {"idle", "age", "hb_read", "now_read", "judged"}, t : Times,
              stale : BOOLEAN, started : Times, settled : SUBSET Subs]
  /\ faults \subseteq Faults

\* "This is enforced, not just documented": no two subscribers are inside the
\* rings at once (they are single-producer and single-consumer), come what may.
OneInRings ==
  \A s, q \in Subs : sub[s].pc = "ring" /\ sub[q].pc = "ring" => s = q

\* No two subscribers are inside the rings at once as long as nothing of what
\* `faults` records has happened: still_owns_commands lets only the holder of
\* the claim through, and its holder is not robbed.
RingExclusive == faults = {} => OneInRings

\* A subscriber that is alive and holds the claim keeps it, no attach steals it
\* and no destructor of a former owner clears it: unless one of the faults has
\* happened, so these are the only ways to lose it.
ClaimKept ==
  [][faults = {} =>
       \A s \in Subs :
         (Live(s) /\ sub[s].owns_commands /\ gen = sub[s].owner_gen)
         => (gen' = gen \/ sub'[s].pc = "gone")]_vars

\* No attach began during another and no call outlasted MaxStall.  Owners may
\* have been away for long, ages may have wrapped, claims may be stolen.
Paced == faults \subseteq {"quiet", "wrap"}

\* A call that begins after the claim was stolen never gets into the rings:
\* the check of still_owns_commands cannot be fooled by a later claim.
StolenNeverEnters == Paced => \A s \in Subs : sub[s].pc = "ring" => ~sub[s].stolen

\* An owner that lost the claim while it was away does not take it from the
\* new owner when it is destroyed: a live holder is never replaced by 0.
NeverCleared ==
  [][Paced => \A s \in Subs : Settled(s) /\ gen' = 0 => sub'[s].pc = "gone"]_vars

\* command_owner_stale never reports an owner that was attached when the call
\* began and is still alive when it returns: unless one of the faults happened.
QuietMeansDead ==
  faults = {} /\ obs.pc = "judged" /\ obs.stale => \A s \in obs.settled : ~Settled(s)

\* The claim loop of try_connect ends.
AttachEnds == \A s \in Subs : Attaching(s) ~> ~Attaching(s)

\* The claim in the header belongs to nobody, and has been quiet for Stale.
Abandoned ==
  /\ gen # 0 => Age(clock, hb) >= Stale
  /\ \A s \in Subs : sub[s].owns_commands => sub[s].owner_gen # gen

\* A channel whose owner died quietly is claimed again once a subscriber
\* attaches: by that one, or by one that attaches at the same time.
DeadOwnerReplaced ==
  \A s \in Subs :
    (sub[s].pc = "load" /\ Abandoned)
      ~> (sub[s].pc = "gone" \/ \E q \in Subs : Live(q) /\ sub[q].owns_commands)
=============================================================================
