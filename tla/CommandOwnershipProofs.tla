----------------------- MODULE CommandOwnershipProofs -----------------------
(***************************************************************************)
(* Proofs about CommandOwnership, for any number of subscribers, any       *)
(* window and any clock.  Three layers:                                    *)
(*  - nothing in the segment or in a subscriber is of the future (PastInv),*)
(*    whatever the timing;                                                 *)
(*  - subscribers that attach one at a time, and calls shorter than the    *)
(*    window, give every owner a token of its own (TokenInv), even if      *)
(*    owners go quiet and lose the channel;                                *)
(*  - owners that moreover call often enough, and whose age does not wrap, *)
(*    never lose it (OwnerInv).                                            *)
(* The second and third hold until `faults` says otherwise (PacedInv,      *)
(* CalmInv): what is assumed of the history is in the properties, what is  *)
(* assumed of the constants in the theorems.                               *)
(***************************************************************************)
EXTENDS CommandOwnership, TLAPS

Pcs == {"gone", "load", "age", "hb_read", "now_read", "claim", "cas", "claimed", "first_beat",
        "idle", "check", "now", "beat", "ring"}

\* A subscriber whose times are all at most c
SubRec(c) ==
  [pc : Pcs, existing : 0..c, t : 0..c, claim : 0..c,
   owns_commands : BOOLEAN, owner_gen : 0..c, started : 0..c, stolen : BOOLEAN]

\* Where it stands determines whether it thinks that it owns the channel.
Sound(me) ==
  /\ me.pc \in {"gone", "load", "age", "hb_read", "now_read", "claim", "cas"} => ~me.owns_commands
  /\ me.pc \in {"claimed", "first_beat", "check", "now", "beat", "ring"} => me.owns_commands
  /\ me.pc = "cas" => me.claim # 0
  /\ me.owns_commands => me.owner_gen # 0

ObsRec(c) == [pc : {"idle", "age", "hb_read", "now_read", "judged"}, t : 0..c,
              stale : BOOLEAN, started : 0..c, settled : SUBSET Subs]

PastInv ==
  /\ clock \in Stale..MaxClock /\ gen \in 0..clock /\ hb \in 0..clock
  /\ attaches \in 0..MaxAttaches /\ faults \subseteq Faults
  /\ sub \in [Subs -> SubRec(clock)] /\ obs \in ObsRec(clock)
  /\ \A s \in Subs : Sound(sub[s])

-----------------------------------------------------------------------------
(* Nothing is of the future                                                 *)

LEMMA ConstantTypes ==
  /\ Stale \in Nat \ {0} /\ MaxClock \in Nat /\ Word \in Nat \ {0}
  /\ Stale <= MaxClock /\ MaxClock < Word
  /\ MaxStall \in Nat /\ MaxQuiet \in Nat /\ MaxAttaches \in Nat
BY CommandOwnershipAssumption

LEMMA ClockTypes ==
  ASSUME PastInv
  PROVE  clock \in Nat \ {0} /\ gen \in Nat /\ hb \in Nat
         /\ 0 \in 0..clock /\ clock \in 0..clock /\ clock <= MaxClock
BY ConstantTypes DEF PastInv

LEMMA GoneGood == \A c \in Nat : Gone \in SubRec(c) /\ Sound(Gone)
BY DEF Gone, SubRec, Pcs, Sound

\* A step that replaces one subscriber
LEMMA PastSet ==
  ASSUME PastInv, NEW s \in Subs, NEW me \in SubRec(clock), Sound(me), Set(s, me),
         clock' = clock, gen' \in 0..clock, hb' \in 0..clock, attaches' \in 0..MaxAttaches,
         obs' \in ObsRec(clock), faults' \subseteq Faults
  PROVE  PastInv'
<1>1. sub' \in [Subs -> SubRec(clock)] /\ sub'[s] = me
      /\ \A q \in Subs : q # s => sub'[q] = sub[q]
  BY DEF Set, PastInv
<1>2. \A q \in Subs : Sound(sub'[q])
  BY <1>1 DEF PastInv
<1> QED
  BY <1>1, <1>2 DEF PastInv, SubRec, ObsRec, Sound

LEMMA PastSub ==
  ASSUME PastInv, NEW s \in Subs, open(s) \/ call(s) \/ destroy(s) \/ crash(s) \/ Continues(s)
  PROVE  PastInv'
<1> DEFINE me == sub[s]
<1>1. /\ me \in SubRec(clock) /\ Sound(me) /\ obs \in ObsRec(clock)
      /\ attaches \in 0..MaxAttaches /\ gen \in 0..clock /\ hb \in 0..clock
  BY DEF PastInv
<1>2. clock \in Nat \ {0} /\ 0 \in 0..clock /\ clock \in 0..clock
  BY ClockTypes
<1>3. clock' = clock /\ Forget(s) \in ObsRec(clock) /\ faults' \subseteq Faults
  BY <1>1 DEF PastInv, Happens, open, call, destroy, crash, Continues, load_gen, load_age, judge_age, take_token,
              cas_succeeds, cas_fails, first_now, first_beat, check_claim, beat_now, beat,
              leave_ring, Forget, ObsRec
<1>4. ASSUME NEW you \in SubRec(clock), Sound(you), Set(s, you), gen' \in 0..clock,
             hb' \in 0..clock, attaches' = attaches, obs' = obs \/ obs' = Forget(s)
      PROVE  PastInv'
  BY <1>1, <1>3, <1>4, PastSet
<1>5. CASE open(s)
  <2> DEFINE you == [Gone EXCEPT !.pc = "load", !.started = clock]
  <2>1. Set(s, you) /\ UNCHANGED <<gen, hb, obs>> /\ attaches' = attaches + 1
        /\ attaches < MaxAttaches
    BY <1>5 DEF open
  <2>2. you \in SubRec(clock) /\ Sound(you)
    BY <1>2 DEF Gone, SubRec, Pcs, Sound
  <2> HIDE DEF you
  <2>3. attaches' \in 0..MaxAttaches
    BY <1>1, <2>1, ConstantTypes
  <2> QED
    BY <1>1, <1>3, <2>1, <2>2, <2>3, PastSet
<1>6. CASE destroy(s) \/ crash(s)
  <2>1. gen' \in 0..clock
    BY <1>1, <1>2, <1>6 DEF destroy, crash, Release
  <2>2. Gone \in SubRec(clock) /\ Sound(Gone)
    BY <1>2, GoneGood
  <2> QED
    BY <1>1, <1>4, <1>6, <2>1, <2>2 DEF destroy, crash
<1>7. ASSUME NEW g \in 0..clock, me.pc \in {"load", "cas"}
      PROVE  LoopTop(me, g) \in SubRec(clock) /\ Sound(LoopTop(me, g))
  <2> HIDE DEF me
  <2> DEFINE pc == IF g # 0 THEN "age" ELSE "claim"
             you == [me EXCEPT !.existing = g, !.pc = pc, !.t = 0, !.claim = 0]
  <2>1. pc \in {"age", "claim"}
    OBVIOUS
  <2> HIDE DEF pc
  <2>2. you \in SubRec(clock) /\ you.pc = pc /\ you.owns_commands = me.owns_commands
    BY <1>1, <1>2, <1>7, <2>1 DEF SubRec, Pcs
  <2>3. ~me.owns_commands
    BY <1>1, <1>7 DEF Sound
  <2>4. you = LoopTop(me, g)
    BY DEF LoopTop, pc
  <2> HIDE DEF you
  <2>5. Sound(you)
    BY <2>1, <2>2, <2>3 DEF Sound
  <2> QED
    BY <2>2, <2>4, <2>5
<1>8. CASE load_gen(s) \/ cas_fails(s)
  BY <1>1, <1>4, <1>7, <1>8 DEF load_gen, cas_fails
<1>9. CASE load_age(s)
  <2>a. PICK first \in {"hb_read", "now_read"} :
          Set(s, [me EXCEPT !.pc = first, !.t = Operand(first)])
    BY <1>9 DEF load_age
  <2> DEFINE t == Operand(first)
             you == [me EXCEPT !.pc = first, !.t = t]
  <2>0. t \in 0..clock
    BY <1>1, <1>2 DEF Operand
  <2>1. Set(s, you) /\ UNCHANGED <<attaches, obs>>
        /\ gen' \in 0..clock /\ hb' \in 0..clock
    BY <1>1, <1>9, <2>a DEF load_age
  <2> HIDE DEF me, t
  <2>2. you \in SubRec(clock) /\ you.pc = first
        /\ you.owns_commands = me.owns_commands /\ you.owner_gen = me.owner_gen
    BY <1>1, <1>2, <2>0 DEF SubRec, Pcs
  <2> HIDE DEF you
  <2>3. Sound(you)
    BY <1>1, <1>9, <2>2 DEF Sound, load_age, me
  <2> QED
    BY <1>4, <2>1, <2>2, <2>3
<1>10. CASE judge_age(s)
  <2>1. ASSUME Set(s, [me EXCEPT !.pc = "idle", !.t = 0, !.existing = 0]) PROVE PastInv'
    <3> DEFINE you == [me EXCEPT !.pc = "idle", !.t = 0, !.existing = 0]
    <3>1. Set(s, you) /\ UNCHANGED <<gen, hb, attaches, obs>>
      BY <1>10, <2>1 DEF judge_age
    <3> HIDE DEF me
    <3>2. you \in SubRec(clock) /\ you.pc = "idle" /\ you.owns_commands = me.owns_commands
          /\ you.owner_gen = me.owner_gen
      BY <1>1, <1>2 DEF SubRec, Pcs
    <3> HIDE DEF you
    <3>3. Sound(you)
      BY <1>1, <3>2 DEF Sound
    <3> QED
      BY <1>1, <1>4, <3>1, <3>2, <3>3
  <2>2. ASSUME Set(s, [me EXCEPT !.pc = "claim", !.t = 0]) PROVE PastInv'
    <3> DEFINE you == [me EXCEPT !.pc = "claim", !.t = 0]
    <3>1. Set(s, you) /\ UNCHANGED <<gen, hb, attaches, obs>>
          /\ me.pc \in {"hb_read", "now_read"}
      BY <1>10, <2>2 DEF judge_age
    <3> HIDE DEF me
    <3>2. you \in SubRec(clock) /\ you.pc = "claim" /\ you.owns_commands = me.owns_commands
          /\ you.owner_gen = me.owner_gen
      BY <1>1, <1>2 DEF SubRec, Pcs
    <3> HIDE DEF you
    <3>3. Sound(you)
      BY <1>1, <3>1, <3>2 DEF Sound
    <3> QED
      BY <1>1, <1>4, <3>1, <3>2, <3>3
  <2> QED
    BY <1>10, <2>1, <2>2 DEF judge_age
<1>11. CASE take_token(s)
  <2> DEFINE you == [me EXCEPT !.pc = "cas", !.claim = IF clock = 0 THEN 1 ELSE clock]
  <2>1. Set(s, you) /\ UNCHANGED <<attaches, obs>>
        /\ gen' \in 0..clock /\ hb' \in 0..clock
    BY <1>1, <1>11 DEF take_token, SubRec
  <2> HIDE DEF me
  <2>2. you \in SubRec(clock) /\ you.pc = "cas"
        /\ you.owns_commands = me.owns_commands /\ you.owner_gen = me.owner_gen /\ you.claim = clock
    BY <1>1, <1>2 DEF SubRec, Pcs
  <2> HIDE DEF you
  <2>3. Sound(you)
    BY <1>1, <1>11, <2>2, <1>2 DEF Sound, take_token, me
  <2> QED
    BY <1>4, <2>1, <2>2, <2>3
<1>12. CASE cas_succeeds(s)
  <2> DEFINE you == [me EXCEPT !.pc = "claimed", !.owns_commands = TRUE,
                               !.owner_gen = me.claim, !.existing = 0, !.claim = 0]
  <2>1. Set(s, you) /\ UNCHANGED <<attaches, obs>>
        /\ gen' \in 0..clock /\ hb' \in 0..clock
    BY <1>1, <1>12 DEF cas_succeeds, SubRec
  <2> HIDE DEF me
  <2>2. you \in SubRec(clock) /\ you.pc = "claimed" /\ you.owns_commands = TRUE
        /\ you.owner_gen = me.claim
    BY <1>1, <1>2 DEF SubRec, Pcs
  <2> HIDE DEF you
  <2>3. Sound(you)
    BY <1>1, <1>12, <2>2 DEF Sound, cas_succeeds, me
  <2> QED
    BY <1>4, <2>1, <2>2, <2>3
<1>13. CASE first_now(s)
  <2> DEFINE you == [me EXCEPT !.pc = "first_beat", !.t = clock]
  <2>1. Set(s, you) /\ UNCHANGED <<attaches, obs>>
        /\ gen' \in 0..clock /\ hb' \in 0..clock
    BY <1>1, <1>13 DEF first_now, SubRec
  <2> HIDE DEF me
  <2>2. you \in SubRec(clock) /\ you.pc = "first_beat"
        /\ you.owns_commands = me.owns_commands /\ you.owner_gen = me.owner_gen
    BY <1>1, <1>2 DEF SubRec, Pcs
  <2> HIDE DEF you
  <2>3. Sound(you)
    BY <1>1, <1>13, <2>2 DEF Sound, first_now, me
  <2> QED
    BY <1>4, <2>1, <2>2, <2>3
<1>14. CASE first_beat(s)
  <2> DEFINE you == [me EXCEPT !.pc = "idle", !.t = 0]
  <2>1. Set(s, you) /\ UNCHANGED <<attaches, obs>>
        /\ gen' \in 0..clock /\ hb' \in 0..clock
    BY <1>1, <1>14 DEF first_beat, SubRec
  <2> HIDE DEF me
  <2>2. you \in SubRec(clock) /\ you.pc = "idle"
        /\ you.owns_commands = me.owns_commands /\ you.owner_gen = me.owner_gen
    BY <1>1, <1>2 DEF SubRec, Pcs
  <2> HIDE DEF you
  <2>3. Sound(you)
    BY <1>1, <1>14, <2>2 DEF Sound, first_beat, me
  <2> QED
    BY <1>4, <2>1, <2>2, <2>3
<1>15. CASE call(s)
  <2> DEFINE you == [me EXCEPT !.pc = "check", !.started = clock, !.stolen = gen # me.owner_gen]
  <2>1. Set(s, you) /\ UNCHANGED <<attaches, obs>>
        /\ gen' \in 0..clock /\ hb' \in 0..clock
    BY <1>1, <1>15 DEF call, SubRec
  <2> HIDE DEF me
  <2>2. you \in SubRec(clock) /\ you.pc = "check"
        /\ you.owns_commands = me.owns_commands /\ you.owner_gen = me.owner_gen
    BY <1>1, <1>2 DEF SubRec, Pcs
  <2> HIDE DEF you
  <2>3. Sound(you)
    BY <1>1, <1>15, <2>2 DEF Sound, call, me
  <2> QED
    BY <1>4, <2>1, <2>2, <2>3
<1>16. CASE check_claim(s)
  <2> DEFINE a == [me EXCEPT !.pc = "idle", !.owns_commands = FALSE]
             b == [me EXCEPT !.pc = "now"]
  <2>1. Set(s, a) \/ Set(s, b)
    BY <1>16 DEF check_claim
  <2>2. me.owns_commands /\ UNCHANGED <<gen, hb, attaches, obs>>
    BY <1>1, <1>16 DEF check_claim, Sound
  <2> HIDE DEF me
  <2>3. a \in SubRec(clock) /\ a.pc = "idle" /\ a.owns_commands = FALSE
    BY <1>1 DEF SubRec, Pcs
  <2>4. b \in SubRec(clock) /\ b.pc = "now" /\ b.owns_commands = me.owns_commands
        /\ b.owner_gen = me.owner_gen
    BY <1>1 DEF SubRec, Pcs
  <2> HIDE DEF a, b
  <2>5. Sound(a) /\ Sound(b)
    BY <1>1, <2>2, <2>3, <2>4 DEF Sound
  <2> QED
    BY <1>1, <1>4, <2>1, <2>2, <2>3, <2>4, <2>5
<1>17. CASE beat_now(s)
  <2> DEFINE you == [me EXCEPT !.pc = "beat", !.t = clock]
  <2>1. Set(s, you) /\ UNCHANGED <<attaches, obs>>
        /\ gen' \in 0..clock /\ hb' \in 0..clock
    BY <1>1, <1>17 DEF beat_now, SubRec
  <2> HIDE DEF me
  <2>2. you \in SubRec(clock) /\ you.pc = "beat"
        /\ you.owns_commands = me.owns_commands /\ you.owner_gen = me.owner_gen
    BY <1>1, <1>2 DEF SubRec, Pcs
  <2> HIDE DEF you
  <2>3. Sound(you)
    BY <1>1, <1>17, <2>2 DEF Sound, beat_now, me
  <2> QED
    BY <1>4, <2>1, <2>2, <2>3
<1>18. CASE beat(s)
  <2>1. PICK next \in {"idle", "ring"} : Set(s, [me EXCEPT !.pc = next, !.t = 0])
    BY <1>18 DEF beat
  <2> DEFINE you == [me EXCEPT !.pc = next, !.t = 0]
  <2>2. Set(s, you) /\ UNCHANGED <<gen, attaches, obs>> /\ hb' \in 0..clock /\ me.owns_commands
    BY <1>1, <1>18, <2>1 DEF beat, SubRec, Sound
  <2> HIDE DEF me
  <2>3. you \in SubRec(clock) /\ you.pc = next /\ you.owns_commands = me.owns_commands
        /\ you.owner_gen = me.owner_gen
    BY <1>1, <1>2 DEF SubRec, Pcs
  <2> HIDE DEF you
  <2>4. Sound(you)
    BY <1>1, <2>2, <2>3 DEF Sound
  <2> QED
    BY <1>1, <1>4, <2>2, <2>3, <2>4
<1>19. CASE leave_ring(s)
  <2> DEFINE you == [me EXCEPT !.pc = "idle"]
  <2>1. Set(s, you) /\ UNCHANGED <<attaches, obs>>
        /\ gen' \in 0..clock /\ hb' \in 0..clock
    BY <1>1, <1>19 DEF leave_ring, SubRec
  <2> HIDE DEF me
  <2>2. you \in SubRec(clock) /\ you.pc = "idle"
        /\ you.owns_commands = me.owns_commands /\ you.owner_gen = me.owner_gen
    BY <1>1, <1>2 DEF SubRec, Pcs
  <2> HIDE DEF you
  <2>3. Sound(you)
    BY <1>1, <1>19, <2>2 DEF Sound, leave_ring, me
  <2> QED
    BY <1>4, <2>1, <2>2, <2>3
<1> QED
  BY <1>5, <1>6, <1>8, <1>9, <1>10, <1>11, <1>12, <1>13, <1>14, <1>15, <1>16, <1>17, <1>18,
     <1>19 DEF Continues

LEMMA PastObs ==
  ASSUME PastInv, observe \/ observe_age \/ observe_judge \/ observed
  PROVE  PastInv'
<1>1. obs \in ObsRec(clock) /\ 0 \in 0..clock /\ clock \in 0..clock /\ hb \in 0..clock
  BY ClockTypes DEF PastInv
<1>2. UNCHANGED <<clock, gen, hb, sub, attaches>> /\ faults' \subseteq Faults
  BY DEF PastInv, Happens, observe, observe_age, observe_judge, observed
<1>3. \A first : Operand(first) \in 0..clock
  BY <1>1 DEF Operand
<1>4. ASSUME observe PROVE obs' \in ObsRec(clock)
  BY <1>1, <1>4 DEF observe, ObsRec
<1>5. ASSUME observe_age PROVE obs' \in ObsRec(clock)
  <2>1. PICK first \in {"hb_read", "now_read"} :
          obs' = [obs EXCEPT !.pc = first, !.t = Operand(first)]
    BY <1>5 DEF observe_age
  <2> QED
    BY <1>1, <1>3, <2>1 DEF ObsRec
<1>6. ASSUME observe_judge PROVE obs' \in ObsRec(clock)
  <2> DEFINE b == Elapsed(obs) >= Stale
  <2>1. obs' = [obs EXCEPT !.pc = "judged", !.t = 0, !.started = 0, !.stale = b]
    BY <1>6 DEF observe_judge
  <2>2. b \in BOOLEAN
    OBVIOUS
  <2> HIDE DEF b
  <2> QED
    BY <1>1, <2>1, <2>2 DEF ObsRec
<1>7. ASSUME observed PROVE obs' \in ObsRec(clock)
  BY <1>1, <1>7 DEF observed, NotObserving, ObsRec
<1>8. obs' \in ObsRec(clock)
  BY <1>4, <1>5, <1>6, <1>7
<1> QED
  BY <1>2, <1>8 DEF PastInv, ObsRec, SubRec, Sound

LEMMA PastTick ==
  ASSUME PastInv, tick
  PROVE  PastInv'
<1>1. /\ clock \in Nat /\ clock' = clock + 1 /\ clock < MaxClock /\ MaxClock \in Nat
      /\ Stale \in Nat /\ UNCHANGED <<gen, hb, sub, obs, attaches>>
      /\ faults' \subseteq Faults
  BY ClockTypes, ConstantTypes DEF tick, Happens, PastInv
<1>2. \A n \in 0..clock : n \in 0..clock + 1
  BY <1>1
<1>3. SubRec(clock) \subseteq SubRec(clock + 1) /\ ObsRec(clock) \subseteq ObsRec(clock + 1)
  BY <1>2 DEF SubRec, ObsRec
<1>4. clock' \in Stale..MaxClock /\ gen' \in 0..clock' /\ hb' \in 0..clock'
      /\ attaches' \in 0..MaxAttaches
  BY <1>1, <1>2 DEF PastInv
<1>5. sub' \in [Subs -> SubRec(clock')] /\ obs' \in ObsRec(clock')
  BY <1>1, <1>3 DEF PastInv
<1>6. \A s \in Subs : Sound(sub[s])'
  BY <1>1 DEF PastInv, Sound
<1> QED
  BY <1>1, <1>4, <1>5, <1>6 DEF PastInv

LEMMA PastInit == Init => PastInv
<1> SUFFICES ASSUME Init PROVE PastInv
  OBVIOUS
<1>1. clock \in Stale..MaxClock /\ clock \in Nat /\ gen \in 0..clock /\ hb \in 0..clock
      /\ attaches \in 0..MaxAttaches /\ faults \subseteq Faults
  BY ConstantTypes DEF Init
<1>2. obs \in ObsRec(clock)
  BY <1>1 DEF Init, NotObserving, ObsRec
<1>3. sub \in [Subs -> SubRec(clock)] /\ \A s \in Subs : Sound(sub[s])
  BY <1>1, GoneGood DEF Init
<1> QED
  BY <1>1, <1>2, <1>3 DEF PastInv

LEMMA PastStep == PastInv /\ [Next]_vars => PastInv'
<1> SUFFICES ASSUME PastInv, [Next]_vars PROVE PastInv'
  OBVIOUS
<1>1. CASE UNCHANGED vars
  BY <1>1 DEF vars, PastInv, SubRec, ObsRec, Sound
<1> QED
  BY <1>1, PastSub, PastObs, PastTick DEF Next

LEMMA PastInvariant == Spec => []PastInv
BY PastInit, PastStep, PTL DEF Spec

\* The claim and the heartbeat in the header, and every time a subscriber or the
\* publisher remembers, are times that now_ns() has returned: none is of the
\* future, whatever the timing and however many subscribers race.
THEOREM OwnershipTypes == Spec => []TypeOK
<1>1. PastInv => TypeOK
  <2> SUFFICES ASSUME PastInv PROVE TypeOK
    OBVIOUS
  <2>1. clock \in Times /\ \A n \in 0..clock : n \in Times
    BY ConstantTypes DEF PastInv, Times
  <2> QED
    BY <2>1 DEF PastInv, TypeOK, SubRec, ObsRec, Pcs
<1> QED
  BY <1>1, PastInvariant, PTL

-----------------------------------------------------------------------------
(* What a step does to the fields of the subscriber that takes it, all but  *)
(* `existing`, which only decides whether the exchange succeeds             *)

Others(s) == \A q \in Subs : q # s => sub'[q] = sub[q]

\* A step that neither starts a call nor gains or loses the channel
Moves(s, pc, t, claim) ==
  /\ Others(s)
  /\ sub'[s].pc = pc /\ sub'[s].t = t /\ sub'[s].claim = claim
  /\ sub'[s].owns_commands = sub[s].owns_commands /\ sub'[s].owner_gen = sub[s].owner_gen
  /\ sub'[s].started = sub[s].started /\ sub'[s].stolen = sub[s].stolen

Opens(s) ==
  /\ Others(s)
  /\ sub'[s].pc = "load" /\ ~sub'[s].owns_commands /\ sub'[s].started = clock

Wins(s) ==
  /\ Others(s)
  /\ sub'[s].pc = "claimed" /\ sub'[s].owns_commands /\ sub'[s].owner_gen = sub[s].claim
  /\ sub'[s].started = sub[s].started

Calls(s) ==
  /\ Others(s)
  /\ sub'[s].pc = "check" /\ sub'[s].owns_commands /\ sub'[s].owner_gen = sub[s].owner_gen
  /\ sub'[s].started = clock /\ sub'[s].stolen = (gen # sub[s].owner_gen)

Loses(s) == Others(s) /\ sub'[s].pc = "idle" /\ ~sub'[s].owns_commands

LEMMA Fields ==
  ASSUME PastInv, NEW s \in Subs
  PROVE  /\ open(s) => Opens(s)
         /\ load_gen(s) => Moves(s, IF gen # 0 THEN "age" ELSE "claim", 0, 0)
         /\ load_age(s) => \E first \in {"hb_read", "now_read"} :
                             Moves(s, first, Operand(first), sub[s].claim)
         /\ judge_age(s) /\ Elapsed(sub[s]) < Stale => Moves(s, "idle", 0, sub[s].claim)
         /\ judge_age(s) /\ ~(Elapsed(sub[s]) < Stale) => Moves(s, "claim", 0, sub[s].claim)
         /\ take_token(s) => Moves(s, "cas", sub[s].t, clock)
         /\ cas_succeeds(s) => Wins(s)
         /\ cas_fails(s) => Moves(s, IF gen # 0 THEN "age" ELSE "claim", 0, 0)
         /\ first_now(s) => Moves(s, "first_beat", clock, sub[s].claim)
         /\ first_beat(s) => Moves(s, "idle", 0, sub[s].claim)
         /\ call(s) => Calls(s)
         /\ check_claim(s) /\ gen # sub[s].owner_gen => Loses(s)
         /\ check_claim(s) /\ gen = sub[s].owner_gen => Moves(s, "now", sub[s].t, sub[s].claim)
         /\ beat_now(s) => Moves(s, "beat", clock, sub[s].claim)
         /\ beat(s) => \E next \in {"idle", "ring"} : Moves(s, next, 0, sub[s].claim)
         /\ leave_ring(s) => Moves(s, "idle", sub[s].t, sub[s].claim)
         /\ destroy(s) \/ crash(s) => Others(s) /\ sub'[s] = Gone
<1>a. sub \in [Subs -> SubRec(clock)]
  BY DEF PastInv
<1>b. clock \in Nat \ {0} /\ hb \in Nat /\ Word \in Nat \ {0}
      /\ Stale \in Int /\ sub[s].t \in Int
  BY <1>a, ClockTypes, ConstantTypes DEF SubRec
<1>c. Elapsed(sub[s]) \in Int
  BY <1>b DEF Elapsed, Age
<1>1. ASSUME open(s) PROVE Opens(s)
  BY <1>a, <1>b, <1>c, <1>1 DEF Set, Others, SubRec, open, Opens, Gone
<1>2. ASSUME load_gen(s) PROVE Moves(s, IF gen # 0 THEN "age" ELSE "claim", 0, 0)
  BY <1>a, <1>b, <1>c, <1>2 DEF Set, Others, SubRec, load_gen, LoopTop, Moves
<1>3. ASSUME load_age(s)
      PROVE  \E first \in {"hb_read", "now_read"} :
               Moves(s, first, Operand(first), sub[s].claim)
  <2>1. PICK first \in {"hb_read", "now_read"} :
          Set(s, [sub[s] EXCEPT !.pc = first, !.t = Operand(first)])
    BY <1>3 DEF load_age
  <2>2. Moves(s, first, Operand(first), sub[s].claim)
    BY <1>a, <2>1 DEF Set, Others, SubRec, Moves
  <2> QED
    BY <2>2
<1>4. ASSUME judge_age(s) /\ Elapsed(sub[s]) < Stale PROVE Moves(s, "idle", 0, sub[s].claim)
  <2>1. Set(s, [sub[s] EXCEPT !.pc = "idle", !.t = 0, !.existing = 0])
    BY <1>b, <1>c, <1>4 DEF judge_age
  <2> QED
    BY <1>a, <2>1 DEF Set, Others, SubRec, Moves
<1>5. ASSUME judge_age(s) /\ ~(Elapsed(sub[s]) < Stale)
      PROVE  Moves(s, "claim", 0, sub[s].claim)
  <2>1. Set(s, [sub[s] EXCEPT !.pc = "claim", !.t = 0])
    BY <1>b, <1>c, <1>5 DEF judge_age
  <2> QED
    BY <1>a, <2>1 DEF Set, Others, SubRec, Moves
<1>6. ASSUME take_token(s) PROVE Moves(s, "cas", sub[s].t, clock)
  BY <1>a, <1>b, <1>c, <1>6 DEF Set, Others, SubRec, take_token, Moves
<1>7. ASSUME cas_succeeds(s) PROVE Wins(s)
  BY <1>a, <1>b, <1>c, <1>7 DEF Set, Others, SubRec, cas_succeeds, Wins
<1>8. ASSUME cas_fails(s) PROVE Moves(s, IF gen # 0 THEN "age" ELSE "claim", 0, 0)
  BY <1>a, <1>b, <1>c, <1>8 DEF Set, Others, SubRec, cas_fails, LoopTop, Moves
<1>9. ASSUME first_now(s) PROVE Moves(s, "first_beat", clock, sub[s].claim)
  BY <1>a, <1>b, <1>c, <1>9 DEF Set, Others, SubRec, first_now, Moves
<1>10. ASSUME first_beat(s) PROVE Moves(s, "idle", 0, sub[s].claim)
  BY <1>a, <1>b, <1>c, <1>10 DEF Set, Others, SubRec, first_beat, Moves
<1>11. ASSUME call(s) PROVE Calls(s)
  BY <1>a, <1>b, <1>c, <1>11 DEF Set, Others, SubRec, call, Calls
<1>12. ASSUME check_claim(s) /\ gen # sub[s].owner_gen PROVE Loses(s)
  BY <1>a, <1>b, <1>c, <1>12 DEF Set, Others, SubRec, check_claim, Loses
<1>13. ASSUME check_claim(s) /\ gen = sub[s].owner_gen
       PROVE  Moves(s, "now", sub[s].t, sub[s].claim)
  BY <1>a, <1>b, <1>c, <1>13 DEF Set, Others, SubRec, check_claim, Moves
<1>14. ASSUME beat_now(s) PROVE Moves(s, "beat", clock, sub[s].claim)
  BY <1>a, <1>b, <1>c, <1>14 DEF Set, Others, SubRec, beat_now, Moves
<1>15. ASSUME beat(s) PROVE \E next \in {"idle", "ring"} : Moves(s, next, 0, sub[s].claim)
  BY <1>a, <1>b, <1>c, <1>15 DEF Set, Others, SubRec, beat, Moves
<1>16. ASSUME leave_ring(s) PROVE Moves(s, "idle", sub[s].t, sub[s].claim)
  BY <1>a, <1>b, <1>c, <1>16 DEF Set, Others, SubRec, leave_ring, Moves
<1>17. ASSUME destroy(s) \/ crash(s) PROVE Others(s) /\ sub'[s] = Gone
  BY <1>a, <1>b, <1>c, <1>17 DEF Set, Others, SubRec, destroy, crash
<1> QED
  BY <1>1, <1>2, <1>3, <1>4, <1>5, <1>6, <1>7, <1>8, <1>9, <1>10, <1>11, <1>12,
     <1>13, <1>14, <1>15, <1>16, <1>17

-----------------------------------------------------------------------------
(* Attaches one at a time, and no call longer than MaxStall                 *)

Alone == \A s, q \in Subs : Attaching(s) /\ Attaching(q) => s = q

InTime ==
  \A s \in Subs :
    /\ Attaching(s) \/ Calling(s) => clock - sub[s].started <= MaxStall
    /\ sub[s].pc \in {"beat", "first_beat"} => sub[s].started <= sub[s].t

TimeInv == Alone /\ InTime

LEMMA FieldTypes ==
  ASSUME PastInv
  PROVE  /\ clock \in Nat /\ gen \in Nat /\ hb \in Nat /\ gen <= clock /\ hb <= clock
         /\ MaxStall \in Nat /\ MaxQuiet \in Nat /\ Stale \in Nat
         /\ \A s \in Subs :
              /\ sub[s].t \in Nat /\ sub[s].t <= clock
              /\ sub[s].claim \in Nat /\ sub[s].claim <= clock
              /\ sub[s].owner_gen \in Nat /\ sub[s].owner_gen <= clock
              /\ sub[s].started \in Nat /\ sub[s].started <= clock
              /\ sub[s].owns_commands \in BOOLEAN /\ sub[s].stolen \in BOOLEAN
              /\ sub[s].pc \in Pcs
<1>1. sub \in [Subs -> SubRec(clock)] /\ clock \in Nat /\ gen \in 0..clock /\ hb \in 0..clock
  BY ClockTypes DEF PastInv
<1> QED
  BY <1>1, ConstantTypes DEF SubRec

LEMMA TimeSub ==
  ASSUME Paced', PastInv, TimeInv, NEW s \in Subs,
         open(s) \/ call(s) \/ destroy(s) \/ crash(s) \/ Continues(s)
  PROVE  TimeInv'
<1>a. ASSUME open(s) PROVE \A q \in Subs : ~Attaching(q)
  <2>1. \E q \in Subs : Attaching(q) => "overlap" \in faults'
    BY <1>a DEF open, Happens
  <2> QED
    BY <1>a, <2>1 DEF open, Happens, Paced
<1>1. CASE open(s)
  <2>1. Opens(s) /\ sub[s].pc = "gone"
        /\ UNCHANGED <<clock, gen, hb, obs>>
    BY <1>1, Fields DEF open
  <2>2. Alone'
    BY <2>1, FieldTypes, <1>a, <1>1 DEF Others, Opens, TimeInv, Alone, Attaching
  <2>3. InTime'
    BY <2>1, FieldTypes, <1>a, <1>1 DEF Others, Opens, TimeInv, InTime, Attaching, Calling
  <2> QED
    BY <2>2, <2>3 DEF TimeInv
<1>2. CASE load_gen(s)
  <2>1. Moves(s, IF gen # 0 THEN "age" ELSE "claim", 0, 0) /\ sub[s].pc = "load"
        /\ UNCHANGED <<clock, gen, hb, obs>>
    BY <1>2, Fields DEF load_gen
  <2>2. Alone'
    BY <2>1, FieldTypes DEF Others, Moves, TimeInv, Alone, Attaching
  <2>3. InTime'
    BY <2>1, FieldTypes DEF Others, Moves, TimeInv, InTime, Attaching, Calling
  <2> QED
    BY <2>2, <2>3 DEF TimeInv
<1>3. CASE load_age(s)
  <2>0. PICK first \in {"hb_read", "now_read"} :
          Moves(s, first, Operand(first), sub[s].claim)
    BY <1>3, Fields
  <2>1. Moves(s, first, Operand(first), sub[s].claim) /\ sub[s].pc = "age"
        /\ UNCHANGED <<clock, gen, hb, obs>>
    BY <1>3, <2>0 DEF load_age
  <2>2. Alone'
    BY <2>1, FieldTypes DEF Others, Moves, TimeInv, Alone, Attaching
  <2>3. InTime'
    BY <2>1, FieldTypes DEF Others, Moves, TimeInv, InTime, Attaching, Calling
  <2> QED
    BY <2>2, <2>3 DEF TimeInv
<1>4. CASE judge_age(s) /\ Elapsed(sub[s]) < Stale
  <2>1. Moves(s, "idle", 0, sub[s].claim)
        /\ sub[s].pc \in {"hb_read", "now_read"}
        /\ UNCHANGED <<clock, gen, hb, obs>>
    BY <1>4, Fields DEF judge_age
  <2>2. Alone'
    BY <2>1, FieldTypes DEF Others, Moves, TimeInv, Alone, Attaching
  <2>3. InTime'
    BY <2>1, FieldTypes DEF Others, Moves, TimeInv, InTime, Attaching, Calling
  <2> QED
    BY <2>2, <2>3 DEF TimeInv
<1>5. CASE judge_age(s) /\ ~(Elapsed(sub[s]) < Stale)
  <2>1. Moves(s, "claim", 0, sub[s].claim)
        /\ sub[s].pc \in {"hb_read", "now_read"}
        /\ UNCHANGED <<clock, gen, hb, obs>>
    BY <1>5, Fields DEF judge_age
  <2>2. Alone'
    BY <2>1, FieldTypes DEF Others, Moves, TimeInv, Alone, Attaching
  <2>3. InTime'
    BY <2>1, FieldTypes DEF Others, Moves, TimeInv, InTime, Attaching, Calling
  <2> QED
    BY <2>2, <2>3 DEF TimeInv
<1>6. CASE take_token(s)
  <2>1. Moves(s, "cas", sub[s].t, clock) /\ sub[s].pc = "claim"
        /\ UNCHANGED <<clock, gen, hb, obs>>
    BY <1>6, Fields DEF take_token
  <2>2. Alone'
    BY <2>1, FieldTypes DEF Others, Moves, TimeInv, Alone, Attaching
  <2>3. InTime'
    BY <2>1, FieldTypes DEF Others, Moves, TimeInv, InTime, Attaching, Calling
  <2> QED
    BY <2>2, <2>3 DEF TimeInv
<1>7. CASE cas_succeeds(s)
  <2>1. Wins(s) /\ sub[s].pc = "cas"
        /\ gen' = sub[s].claim /\ UNCHANGED <<clock, hb, obs>>
    BY <1>7, Fields DEF cas_succeeds
  <2>2. Alone'
    BY <2>1, FieldTypes DEF Others, Wins, TimeInv, Alone, Attaching
  <2>3. InTime'
    BY <2>1, FieldTypes DEF Others, Wins, TimeInv, InTime, Attaching, Calling
  <2> QED
    BY <2>2, <2>3 DEF TimeInv
<1>8. CASE cas_fails(s)
  <2>1. Moves(s, IF gen # 0 THEN "age" ELSE "claim", 0, 0) /\ sub[s].pc = "cas"
        /\ UNCHANGED <<clock, gen, hb, obs>>
    BY <1>8, Fields DEF cas_fails
  <2>2. Alone'
    BY <2>1, FieldTypes DEF Others, Moves, TimeInv, Alone, Attaching
  <2>3. InTime'
    BY <2>1, FieldTypes DEF Others, Moves, TimeInv, InTime, Attaching, Calling
  <2> QED
    BY <2>2, <2>3 DEF TimeInv
<1>9. CASE first_now(s)
  <2>1. Moves(s, "first_beat", clock, sub[s].claim) /\ sub[s].pc = "claimed"
        /\ UNCHANGED <<clock, gen, hb, obs>>
    BY <1>9, Fields DEF first_now
  <2>2. Alone'
    BY <2>1, FieldTypes DEF Others, Moves, TimeInv, Alone, Attaching
  <2>3. InTime'
    BY <2>1, FieldTypes DEF Others, Moves, TimeInv, InTime, Attaching, Calling
  <2> QED
    BY <2>2, <2>3 DEF TimeInv
<1>10. CASE first_beat(s)
  <2>1. Moves(s, "idle", 0, sub[s].claim) /\ sub[s].pc = "first_beat"
        /\ hb' = sub[s].t /\ UNCHANGED <<clock, gen, obs>>
    BY <1>10, Fields DEF first_beat
  <2>2. Alone'
    BY <2>1, FieldTypes DEF Others, Moves, TimeInv, Alone, Attaching
  <2>3. InTime'
    BY <2>1, FieldTypes DEF Others, Moves, TimeInv, InTime, Attaching, Calling
  <2> QED
    BY <2>2, <2>3 DEF TimeInv
<1>11. CASE call(s)
  <2>1. Calls(s) /\ sub[s].pc = "idle" /\ sub[s].owns_commands
        /\ UNCHANGED <<clock, gen, hb, obs>>
    BY <1>11, Fields DEF call
  <2>2. Alone'
    BY <2>1, FieldTypes DEF Others, Calls, TimeInv, Alone, Attaching
  <2>3. InTime'
    BY <2>1, FieldTypes DEF Others, Calls, TimeInv, InTime, Attaching, Calling
  <2> QED
    BY <2>2, <2>3 DEF TimeInv
<1>12. CASE check_claim(s) /\ gen # sub[s].owner_gen
  <2>1. Loses(s) /\ sub[s].pc = "check"
        /\ UNCHANGED <<clock, gen, hb, obs>>
    BY <1>12, Fields DEF check_claim
  <2>2. Alone'
    BY <2>1, FieldTypes DEF Others, Loses, TimeInv, Alone, Attaching
  <2>3. InTime'
    BY <2>1, FieldTypes DEF Others, Loses, TimeInv, InTime, Attaching, Calling
  <2> QED
    BY <2>2, <2>3 DEF TimeInv
<1>13. CASE check_claim(s) /\ gen = sub[s].owner_gen
  <2>1. Moves(s, "now", sub[s].t, sub[s].claim) /\ sub[s].pc = "check"
        /\ UNCHANGED <<clock, gen, hb, obs>>
    BY <1>13, Fields DEF check_claim
  <2>2. Alone'
    BY <2>1, FieldTypes DEF Others, Moves, TimeInv, Alone, Attaching
  <2>3. InTime'
    BY <2>1, FieldTypes DEF Others, Moves, TimeInv, InTime, Attaching, Calling
  <2> QED
    BY <2>2, <2>3 DEF TimeInv
<1>14. CASE beat_now(s)
  <2>1. Moves(s, "beat", clock, sub[s].claim) /\ sub[s].pc = "now"
        /\ UNCHANGED <<clock, gen, hb, obs>>
    BY <1>14, Fields DEF beat_now
  <2>2. Alone'
    BY <2>1, FieldTypes DEF Others, Moves, TimeInv, Alone, Attaching
  <2>3. InTime'
    BY <2>1, FieldTypes DEF Others, Moves, TimeInv, InTime, Attaching, Calling
  <2> QED
    BY <2>2, <2>3 DEF TimeInv
<1>15. CASE beat(s)
  <2>0. PICK next \in {"idle", "ring"} : Moves(s, next, 0, sub[s].claim)
    BY <1>15, Fields
  <2>1. Moves(s, next, 0, sub[s].claim) /\ sub[s].pc = "beat"
        /\ hb' = sub[s].t /\ UNCHANGED <<clock, gen, obs>>
    BY <1>15, <2>0 DEF beat
  <2>2. Alone'
    BY <2>1, FieldTypes DEF Others, Moves, TimeInv, Alone, Attaching
  <2>3. InTime'
    BY <2>1, FieldTypes DEF Others, Moves, TimeInv, InTime, Attaching, Calling
  <2> QED
    BY <2>2, <2>3 DEF TimeInv
<1>16. CASE leave_ring(s)
  <2>1. Moves(s, "idle", sub[s].t, sub[s].claim) /\ sub[s].pc = "ring"
        /\ UNCHANGED <<clock, gen, hb, obs>>
    BY <1>16, Fields DEF leave_ring
  <2>2. Alone'
    BY <2>1, FieldTypes DEF Others, Moves, TimeInv, Alone, Attaching
  <2>3. InTime'
    BY <2>1, FieldTypes DEF Others, Moves, TimeInv, InTime, Attaching, Calling
  <2> QED
    BY <2>2, <2>3 DEF TimeInv
<1>17. CASE destroy(s)
  <2>1. Others(s) /\ sub'[s] = Gone /\ sub[s].pc = "idle"
        /\ gen' = (IF sub[s].owns_commands /\ gen = sub[s].owner_gen THEN 0 ELSE gen)
        /\ obs' = Forget(s) /\ UNCHANGED <<clock, hb>>
    BY <1>17, Fields DEF destroy, Release
  <2>2. Alone'
    BY <2>1, FieldTypes DEF Others, Gone, TimeInv, Alone, Attaching
  <2>3. InTime'
    BY <2>1, FieldTypes DEF Others, Gone, TimeInv, InTime, Attaching, Calling
  <2> QED
    BY <2>2, <2>3 DEF TimeInv
<1>18. CASE crash(s)
  <2>1. Others(s) /\ sub'[s] = Gone /\ sub[s].pc # "gone"
        /\ obs' = Forget(s) /\ UNCHANGED <<clock, gen, hb>>
    BY <1>18, Fields DEF crash, Live
  <2>2. Alone'
    BY <2>1, FieldTypes DEF Others, Gone, TimeInv, Alone, Attaching
  <2>3. InTime'
    BY <2>1, FieldTypes DEF Others, Gone, TimeInv, InTime, Attaching, Calling
  <2> QED
    BY <2>2, <2>3 DEF TimeInv
<1> QED
  BY <1>1, <1>2, <1>3, <1>4, <1>5, <1>6, <1>7, <1>8, <1>9, <1>10, <1>11, <1>12,
     <1>13, <1>14, <1>15, <1>16, <1>17, <1>18 DEF Continues

LEMMA TimeTick ==
  ASSUME Paced', PastInv, TimeInv, tick
  PROVE  TimeInv'
<1>0. ~Stalls
  BY DEF tick, Happens, Paced
<1>1. /\ clock' = clock + 1 /\ UNCHANGED <<gen, hb, sub, obs>>
      /\ \A s \in Subs : Attaching(s) \/ Calling(s) => clock - sub[s].started < MaxStall
  BY <1>0, FieldTypes DEF tick, Stalls, Overlong
<1>2. Alone'
  BY <1>1 DEF TimeInv, Alone, Attaching
<1>3. InTime'
  BY <1>1, FieldTypes DEF TimeInv, InTime, Attaching, Calling
<1> QED
  BY <1>2, <1>3 DEF TimeInv

LEMMA ObsFrame ==
  ASSUME observe \/ observe_age \/ observe_judge \/ observed \/ UNCHANGED vars
  PROVE  UNCHANGED <<clock, gen, hb, sub>>
BY DEF observe, observe_age, observe_judge, observed, vars

\* What happened, happened.
LEMMA FaultsStay == [Next]_vars => faults \subseteq faults'
BY DEF Next, vars, open, call, destroy, crash, Continues, load_gen, load_age, judge_age,
       take_token, cas_succeeds, cas_fails, first_now, first_beat, check_claim, beat_now, beat,
       leave_ring, observe, observe_age, observe_judge, observed, tick, Happens

LEMMA TimeStep == Paced' /\ PastInv /\ TimeInv /\ [Next]_vars => TimeInv'
<1> SUFFICES ASSUME Paced', PastInv, TimeInv, [Next]_vars PROVE TimeInv'
  OBVIOUS
<1>1. CASE observe \/ observe_age \/ observe_judge \/ observed \/ UNCHANGED vars
  BY <1>1, ObsFrame DEF TimeInv, Alone, InTime, Attaching, Calling
<1> QED
  BY <1>1, TimeSub, TimeTick DEF Next

-----------------------------------------------------------------------------
(* Every owner has a token of its own                                       *)

Unhurried == MaxStall < Stale

\* One that lost the channel still counts until it notices.
Owner(s) == sub[s].owns_commands

\* Owners have distinct tokens.
Distinct ==
  \A s, q \in Subs : Owner(s) /\ Owner(q) /\ s # q => sub[s].owner_gen # sub[q].owner_gen

\* A token that is no longer the claim is older than any token taken from now on.
Dated == \A s \in Subs : Owner(s) => sub[s].owner_gen = gen \/ sub[s].owner_gen < clock

\* A heartbeat is not much older than the youngest token, also when a former
\* owner stores it late.
Beaten == \A s \in Subs : Owner(s) /\ ~Attaching(s) => sub[s].owner_gen <= hb + MaxStall

\* What an attach knows about the tokens out there
Guarded ==
  \A s, q \in Subs : Owner(s) =>
    /\ sub[q].pc = "hb_read" => sub[s].owner_gen <= sub[q].t + MaxStall
    /\ sub[q].pc = "now_read" => sub[s].owner_gen <= sub[q].t
    /\ sub[q].pc = "claim" => sub[s].owner_gen < clock
    /\ sub[q].pc = "cas" => sub[s].owner_gen < sub[q].claim
    /\ sub[q].pc = "first_beat" => sub[s].owner_gen <= sub[q].t

TokenInv == Distinct /\ Dated /\ Beaten /\ Guarded

\* A call that began without the claim does not get past the check.
StolenInv ==
  \A s \in Subs :
    /\ sub[s].pc = "check" /\ sub[s].stolen => gen # sub[s].owner_gen
    /\ sub[s].pc \in {"now", "beat", "ring"} => ~sub[s].stolen

\* What a heartbeat that was found too old tells, in either order
LEMMA StaleMeans ==
  ASSUME PastInv, NEW me, me.t \in 0..clock, me.pc \in {"hb_read", "now_read"},
         ~(Elapsed(me) < Stale)
  PROVE  /\ me.pc = "hb_read" => me.t + Stale <= clock
         /\ me.pc = "now_read" => hb + Stale <= me.t \/ me.t < hb
<1>1. clock \in Nat /\ hb \in 0..clock /\ clock < Word /\ Word \in Nat /\ Stale \in Nat
  BY ClockTypes, ConstantTypes DEF PastInv
<1>2. \A n \in 0..clock : n % Word = n
  BY <1>1
<1>3. CASE me.pc = "hb_read"
  <2>1. clock - me.t \in 0..clock
    BY <1>1
  <2> QED
    BY <1>1, <1>2, <1>3, <2>1 DEF Elapsed, Age
<1>4. CASE me.pc = "now_read" /\ ~(me.t < hb)
  <2>1. me.t - hb \in 0..clock
    BY <1>1, <1>4
  <2> QED
    BY <1>1, <1>2, <1>4, <2>1 DEF Elapsed, Age
<1> QED
  BY <1>1, <1>3, <1>4

LEMMA TokenSub ==
  ASSUME Unhurried, PastInv, TimeInv, TokenInv, NEW s \in Subs,
         open(s) \/ call(s) \/ destroy(s) \/ crash(s) \/ Continues(s)
  PROVE  TokenInv'
<1>s. \A q \in Subs : Sound(sub[q])
  BY DEF PastInv
<1>h. MaxStall < Stale
  BY DEF Unhurried
<1>j. ASSUME judge_age(s), ~(Elapsed(sub[s]) < Stale)
      PROVE  /\ sub[s].pc = "hb_read" => sub[s].t + Stale <= clock
             /\ sub[s].pc = "now_read" => hb + Stale <= sub[s].t \/ sub[s].t < hb
  BY <1>j, FieldTypes, StaleMeans DEF judge_age
<1>1. CASE open(s)
  <2>1. Opens(s) /\ sub[s].pc = "gone"
        /\ UNCHANGED <<clock, gen, hb, obs>>
    BY <1>1, Fields DEF open
  <2>2. Distinct'
    BY <2>1, FieldTypes, <1>s DEF Others, Opens, TokenInv, Distinct, Guarded, Owner, Sound
  <2>3. Dated'
    BY <2>1, FieldTypes, <1>s
    DEF Others, Opens, TokenInv, Distinct, Dated, Guarded, Owner, Sound
  <2>4. Beaten'
    BY <2>1, FieldTypes, <1>s
    DEF Others, Opens, TokenInv, Beaten, Guarded, Owner, Sound, TimeInv, InTime, Attaching,
        Calling
  <2>5. Guarded'
    BY <2>1, FieldTypes, <1>s
    DEF Others, Opens, TokenInv, Dated, Beaten, Guarded, Owner, Sound, TimeInv, Alone,
        Attaching
  <2> QED
    BY <2>2, <2>3, <2>4, <2>5 DEF TokenInv
<1>2. CASE load_gen(s)
  <2>1. Moves(s, IF gen # 0 THEN "age" ELSE "claim", 0, 0) /\ sub[s].pc = "load"
        /\ UNCHANGED <<clock, gen, hb, obs>>
    BY <1>2, Fields DEF load_gen
  <2>2. Distinct'
    BY <2>1, FieldTypes, <1>s DEF Others, Moves, TokenInv, Distinct, Guarded, Owner, Sound
  <2>3. Dated'
    BY <2>1, FieldTypes, <1>s
    DEF Others, Moves, TokenInv, Distinct, Dated, Guarded, Owner, Sound
  <2>4. Beaten'
    BY <2>1, FieldTypes, <1>s
    DEF Others, Moves, TokenInv, Beaten, Guarded, Owner, Sound, TimeInv, InTime, Attaching,
        Calling
  <2>5. Guarded'
    BY <2>1, FieldTypes, <1>s
    DEF Others, Moves, TokenInv, Dated, Beaten, Guarded, Owner, Sound, TimeInv, Alone,
        Attaching
  <2> QED
    BY <2>2, <2>3, <2>4, <2>5 DEF TokenInv
<1>3. CASE load_age(s)
  <2>0. PICK first \in {"hb_read", "now_read"} :
          Moves(s, first, Operand(first), sub[s].claim)
    BY <1>3, Fields
  <2>1. Moves(s, first, Operand(first), sub[s].claim) /\ sub[s].pc = "age"
        /\ UNCHANGED <<clock, gen, hb, obs>>
    BY <1>3, <2>0 DEF load_age
  <2>2. Distinct'
    BY <2>1, FieldTypes, <1>s, <1>h
    DEF Others, Moves, TokenInv, Distinct, Guarded, Owner, Sound, Operand
  <2>3. Dated'
    BY <2>1, FieldTypes, <1>s, <1>h
    DEF Others, Moves, TokenInv, Distinct, Dated, Guarded, Owner, Sound, Operand
  <2>4. Beaten'
    BY <2>1, FieldTypes, <1>s, <1>h
    DEF Others, Moves, TokenInv, Beaten, Guarded, Owner, Sound, TimeInv, InTime, Attaching,
        Calling, Operand
  <2>5. Guarded'
    BY <2>1, FieldTypes, <1>s, <1>h
    DEF Others, Moves, TokenInv, Dated, Beaten, Guarded, Owner, Sound, TimeInv, Alone,
        Attaching, Operand
  <2> QED
    BY <2>2, <2>3, <2>4, <2>5 DEF TokenInv
<1>4. CASE judge_age(s) /\ Elapsed(sub[s]) < Stale
  <2>1. Moves(s, "idle", 0, sub[s].claim)
        /\ sub[s].pc \in {"hb_read", "now_read"}
        /\ UNCHANGED <<clock, gen, hb, obs>>
    BY <1>4, Fields DEF judge_age
  <2>2. Distinct'
    BY <2>1, FieldTypes, <1>s, <1>h, <1>j
    DEF Others, Moves, TokenInv, Distinct, Guarded, Owner, Sound
  <2>3. Dated'
    BY <2>1, FieldTypes, <1>s, <1>h, <1>j
    DEF Others, Moves, TokenInv, Distinct, Dated, Guarded, Owner, Sound
  <2>4. Beaten'
    BY <2>1, FieldTypes, <1>s, <1>h, <1>j
    DEF Others, Moves, TokenInv, Beaten, Guarded, Owner, Sound, TimeInv, InTime, Attaching,
        Calling
  <2>5. Guarded'
    BY <2>1, FieldTypes, <1>s, <1>h, <1>j
    DEF Others, Moves, TokenInv, Dated, Beaten, Guarded, Owner, Sound, TimeInv, Alone,
        Attaching
  <2> QED
    BY <2>2, <2>3, <2>4, <2>5 DEF TokenInv
<1>5. CASE judge_age(s) /\ ~(Elapsed(sub[s]) < Stale)
  <2>1. Moves(s, "claim", 0, sub[s].claim)
        /\ sub[s].pc \in {"hb_read", "now_read"}
        /\ UNCHANGED <<clock, gen, hb, obs>>
    BY <1>5, Fields DEF judge_age
  <2>2. Distinct'
    BY <2>1, FieldTypes, <1>s, <1>h, <1>j, <1>5
    DEF Others, Moves, TokenInv, Distinct, Guarded, Owner, Sound
  <2>3. Dated'
    BY <2>1, FieldTypes, <1>s, <1>h, <1>j, <1>5
    DEF Others, Moves, TokenInv, Distinct, Dated, Guarded, Owner, Sound
  <2>4. Beaten'
    BY <2>1, FieldTypes, <1>s, <1>h, <1>j, <1>5
    DEF Others, Moves, TokenInv, Beaten, Guarded, Owner, Sound, TimeInv, InTime, Attaching,
        Calling
  <2>5. Guarded'
    BY <2>1, FieldTypes, <1>s, <1>h, <1>j, <1>5
    DEF Others, Moves, TokenInv, Dated, Beaten, Guarded, Owner, Sound, TimeInv, Alone,
        Attaching
  <2> QED
    BY <2>2, <2>3, <2>4, <2>5 DEF TokenInv
<1>6. CASE take_token(s)
  <2>1. Moves(s, "cas", sub[s].t, clock) /\ sub[s].pc = "claim"
        /\ UNCHANGED <<clock, gen, hb, obs>>
    BY <1>6, Fields DEF take_token
  <2>2. Distinct'
    BY <2>1, FieldTypes, <1>s DEF Others, Moves, TokenInv, Distinct, Guarded, Owner, Sound
  <2>3. Dated'
    BY <2>1, FieldTypes, <1>s
    DEF Others, Moves, TokenInv, Distinct, Dated, Guarded, Owner, Sound
  <2>4. Beaten'
    BY <2>1, FieldTypes, <1>s
    DEF Others, Moves, TokenInv, Beaten, Guarded, Owner, Sound, TimeInv, InTime, Attaching,
        Calling
  <2>5. Guarded'
    BY <2>1, FieldTypes, <1>s
    DEF Others, Moves, TokenInv, Dated, Beaten, Guarded, Owner, Sound, TimeInv, Alone,
        Attaching
  <2> QED
    BY <2>2, <2>3, <2>4, <2>5 DEF TokenInv
<1>7. CASE cas_succeeds(s)
  <2>1. Wins(s) /\ sub[s].pc = "cas"
        /\ gen' = sub[s].claim /\ UNCHANGED <<clock, hb, obs>>
    BY <1>7, Fields DEF cas_succeeds
  <2>2. Distinct'
    BY <2>1, FieldTypes, <1>s DEF Others, Wins, TokenInv, Distinct, Guarded, Owner, Sound
  <2>3. Dated'
    BY <2>1, FieldTypes, <1>s DEF Others, Wins, TokenInv, Distinct, Dated, Guarded, Owner, Sound
  <2>4. Beaten'
    BY <2>1, FieldTypes, <1>s
    DEF Others, Wins, TokenInv, Beaten, Guarded, Owner, Sound, TimeInv, InTime, Attaching,
        Calling
  <2>5. Guarded'
    BY <2>1, FieldTypes, <1>s
    DEF Others, Wins, TokenInv, Dated, Beaten, Guarded, Owner, Sound, TimeInv, Alone,
        Attaching
  <2> QED
    BY <2>2, <2>3, <2>4, <2>5 DEF TokenInv
<1>8. CASE cas_fails(s)
  <2>1. Moves(s, IF gen # 0 THEN "age" ELSE "claim", 0, 0) /\ sub[s].pc = "cas"
        /\ UNCHANGED <<clock, gen, hb, obs>>
    BY <1>8, Fields DEF cas_fails
  <2>2. Distinct'
    BY <2>1, FieldTypes, <1>s DEF Others, Moves, TokenInv, Distinct, Guarded, Owner, Sound
  <2>3. Dated'
    BY <2>1, FieldTypes, <1>s
    DEF Others, Moves, TokenInv, Distinct, Dated, Guarded, Owner, Sound
  <2>4. Beaten'
    BY <2>1, FieldTypes, <1>s
    DEF Others, Moves, TokenInv, Beaten, Guarded, Owner, Sound, TimeInv, InTime, Attaching,
        Calling
  <2>5. Guarded'
    BY <2>1, FieldTypes, <1>s
    DEF Others, Moves, TokenInv, Dated, Beaten, Guarded, Owner, Sound, TimeInv, Alone,
        Attaching
  <2> QED
    BY <2>2, <2>3, <2>4, <2>5 DEF TokenInv
<1>9. CASE first_now(s)
  <2>1. Moves(s, "first_beat", clock, sub[s].claim) /\ sub[s].pc = "claimed"
        /\ UNCHANGED <<clock, gen, hb, obs>>
    BY <1>9, Fields DEF first_now
  <2>2. Distinct'
    BY <2>1, FieldTypes, <1>s DEF Others, Moves, TokenInv, Distinct, Guarded, Owner, Sound
  <2>3. Dated'
    BY <2>1, FieldTypes, <1>s
    DEF Others, Moves, TokenInv, Distinct, Dated, Guarded, Owner, Sound
  <2>4. Beaten'
    BY <2>1, FieldTypes, <1>s
    DEF Others, Moves, TokenInv, Beaten, Guarded, Owner, Sound, TimeInv, InTime, Attaching,
        Calling
  <2>5. Guarded'
    BY <2>1, FieldTypes, <1>s
    DEF Others, Moves, TokenInv, Dated, Beaten, Guarded, Owner, Sound, TimeInv, Alone,
        Attaching
  <2> QED
    BY <2>2, <2>3, <2>4, <2>5 DEF TokenInv
<1>10. CASE first_beat(s)
  <2>1. Moves(s, "idle", 0, sub[s].claim) /\ sub[s].pc = "first_beat"
        /\ hb' = sub[s].t /\ UNCHANGED <<clock, gen, obs>>
    BY <1>10, Fields DEF first_beat
  <2>2. Distinct'
    BY <2>1, FieldTypes, <1>s DEF Others, Moves, TokenInv, Distinct, Guarded, Owner, Sound
  <2>3. Dated'
    BY <2>1, FieldTypes, <1>s
    DEF Others, Moves, TokenInv, Distinct, Dated, Guarded, Owner, Sound
  <2>4. Beaten'
    BY <2>1, FieldTypes, <1>s
    DEF Others, Moves, TokenInv, Beaten, Guarded, Owner, Sound, TimeInv, InTime, Attaching,
        Calling
  <2>5. Guarded'
    BY <2>1, FieldTypes, <1>s
    DEF Others, Moves, TokenInv, Dated, Beaten, Guarded, Owner, Sound, TimeInv, Alone,
        Attaching
  <2> QED
    BY <2>2, <2>3, <2>4, <2>5 DEF TokenInv
<1>11. CASE call(s)
  <2>1. Calls(s) /\ sub[s].pc = "idle" /\ sub[s].owns_commands
        /\ UNCHANGED <<clock, gen, hb, obs>>
    BY <1>11, Fields DEF call
  <2>2. Distinct'
    BY <2>1, FieldTypes, <1>s DEF Others, Calls, TokenInv, Distinct, Guarded, Owner, Sound
  <2>3. Dated'
    BY <2>1, FieldTypes, <1>s
    DEF Others, Calls, TokenInv, Distinct, Dated, Guarded, Owner, Sound
  <2>4. Beaten'
    BY <2>1, FieldTypes, <1>s
    DEF Others, Calls, TokenInv, Beaten, Guarded, Owner, Sound, TimeInv, InTime, Attaching,
        Calling
  <2>5. Guarded'
    BY <2>1, FieldTypes, <1>s
    DEF Others, Calls, TokenInv, Dated, Beaten, Guarded, Owner, Sound, TimeInv, Alone,
        Attaching
  <2> QED
    BY <2>2, <2>3, <2>4, <2>5 DEF TokenInv
<1>12. CASE check_claim(s) /\ gen # sub[s].owner_gen
  <2>1. Loses(s) /\ sub[s].pc = "check"
        /\ UNCHANGED <<clock, gen, hb, obs>>
    BY <1>12, Fields DEF check_claim
  <2>2. Distinct'
    BY <2>1, FieldTypes, <1>s DEF Others, Loses, TokenInv, Distinct, Guarded, Owner, Sound
  <2>3. Dated'
    BY <2>1, FieldTypes, <1>s
    DEF Others, Loses, TokenInv, Distinct, Dated, Guarded, Owner, Sound
  <2>4. Beaten'
    BY <2>1, FieldTypes, <1>s
    DEF Others, Loses, TokenInv, Beaten, Guarded, Owner, Sound, TimeInv, InTime, Attaching,
        Calling
  <2>5. Guarded'
    BY <2>1, FieldTypes, <1>s
    DEF Others, Loses, TokenInv, Dated, Beaten, Guarded, Owner, Sound, TimeInv, Alone,
        Attaching
  <2> QED
    BY <2>2, <2>3, <2>4, <2>5 DEF TokenInv
<1>13. CASE check_claim(s) /\ gen = sub[s].owner_gen
  <2>1. Moves(s, "now", sub[s].t, sub[s].claim) /\ sub[s].pc = "check"
        /\ UNCHANGED <<clock, gen, hb, obs>>
    BY <1>13, Fields DEF check_claim
  <2>2. Distinct'
    BY <2>1, FieldTypes, <1>s DEF Others, Moves, TokenInv, Distinct, Guarded, Owner, Sound
  <2>3. Dated'
    BY <2>1, FieldTypes, <1>s
    DEF Others, Moves, TokenInv, Distinct, Dated, Guarded, Owner, Sound
  <2>4. Beaten'
    BY <2>1, FieldTypes, <1>s
    DEF Others, Moves, TokenInv, Beaten, Guarded, Owner, Sound, TimeInv, InTime, Attaching,
        Calling
  <2>5. Guarded'
    BY <2>1, FieldTypes, <1>s
    DEF Others, Moves, TokenInv, Dated, Beaten, Guarded, Owner, Sound, TimeInv, Alone,
        Attaching
  <2> QED
    BY <2>2, <2>3, <2>4, <2>5 DEF TokenInv
<1>14. CASE beat_now(s)
  <2>1. Moves(s, "beat", clock, sub[s].claim) /\ sub[s].pc = "now"
        /\ UNCHANGED <<clock, gen, hb, obs>>
    BY <1>14, Fields DEF beat_now
  <2>2. Distinct'
    BY <2>1, FieldTypes, <1>s DEF Others, Moves, TokenInv, Distinct, Guarded, Owner, Sound
  <2>3. Dated'
    BY <2>1, FieldTypes, <1>s
    DEF Others, Moves, TokenInv, Distinct, Dated, Guarded, Owner, Sound
  <2>4. Beaten'
    BY <2>1, FieldTypes, <1>s
    DEF Others, Moves, TokenInv, Beaten, Guarded, Owner, Sound, TimeInv, InTime, Attaching,
        Calling
  <2>5. Guarded'
    BY <2>1, FieldTypes, <1>s
    DEF Others, Moves, TokenInv, Dated, Beaten, Guarded, Owner, Sound, TimeInv, Alone,
        Attaching
  <2> QED
    BY <2>2, <2>3, <2>4, <2>5 DEF TokenInv
<1>15. CASE beat(s)
  <2>0. PICK next \in {"idle", "ring"} : Moves(s, next, 0, sub[s].claim)
    BY <1>15, Fields
  <2>1. Moves(s, next, 0, sub[s].claim) /\ sub[s].pc = "beat"
        /\ hb' = sub[s].t /\ UNCHANGED <<clock, gen, obs>>
    BY <1>15, <2>0 DEF beat
  <2>2. Distinct'
    BY <2>1, FieldTypes, <1>s DEF Others, Moves, TokenInv, Distinct, Guarded, Owner, Sound
  <2>3. Dated'
    BY <2>1, FieldTypes, <1>s
    DEF Others, Moves, TokenInv, Distinct, Dated, Guarded, Owner, Sound
  <2>4. Beaten'
    BY <2>1, FieldTypes, <1>s
    DEF Others, Moves, TokenInv, Beaten, Guarded, Owner, Sound, TimeInv, InTime, Attaching,
        Calling
  <2>5. Guarded'
    BY <2>1, FieldTypes, <1>s
    DEF Others, Moves, TokenInv, Dated, Beaten, Guarded, Owner, Sound, TimeInv, Alone,
        Attaching
  <2> QED
    BY <2>2, <2>3, <2>4, <2>5 DEF TokenInv
<1>16. CASE leave_ring(s)
  <2>1. Moves(s, "idle", sub[s].t, sub[s].claim) /\ sub[s].pc = "ring"
        /\ UNCHANGED <<clock, gen, hb, obs>>
    BY <1>16, Fields DEF leave_ring
  <2>2. Distinct'
    BY <2>1, FieldTypes, <1>s DEF Others, Moves, TokenInv, Distinct, Guarded, Owner, Sound
  <2>3. Dated'
    BY <2>1, FieldTypes, <1>s
    DEF Others, Moves, TokenInv, Distinct, Dated, Guarded, Owner, Sound
  <2>4. Beaten'
    BY <2>1, FieldTypes, <1>s
    DEF Others, Moves, TokenInv, Beaten, Guarded, Owner, Sound, TimeInv, InTime, Attaching,
        Calling
  <2>5. Guarded'
    BY <2>1, FieldTypes, <1>s
    DEF Others, Moves, TokenInv, Dated, Beaten, Guarded, Owner, Sound, TimeInv, Alone,
        Attaching
  <2> QED
    BY <2>2, <2>3, <2>4, <2>5 DEF TokenInv
<1>17. CASE destroy(s)
  <2>1. Others(s) /\ sub'[s] = Gone /\ sub[s].pc = "idle"
        /\ gen' = (IF sub[s].owns_commands /\ gen = sub[s].owner_gen THEN 0 ELSE gen)
        /\ obs' = Forget(s) /\ UNCHANGED <<clock, hb>>
    BY <1>17, Fields DEF destroy, Release
  <2>2. Distinct'
    BY <2>1, FieldTypes, <1>s DEF Others, Gone, TokenInv, Distinct, Guarded, Owner, Sound
  <2>3. Dated'
    BY <2>1, FieldTypes, <1>s DEF Others, Gone, TokenInv, Distinct, Dated, Guarded, Owner, Sound
  <2>4. Beaten'
    BY <2>1, FieldTypes, <1>s
    DEF Others, Gone, TokenInv, Beaten, Guarded, Owner, Sound, TimeInv, InTime, Attaching,
        Calling
  <2>5. Guarded'
    BY <2>1, FieldTypes, <1>s
    DEF Others, Gone, TokenInv, Dated, Beaten, Guarded, Owner, Sound, TimeInv, Alone,
        Attaching
  <2> QED
    BY <2>2, <2>3, <2>4, <2>5 DEF TokenInv
<1>18. CASE crash(s)
  <2>1. Others(s) /\ sub'[s] = Gone /\ sub[s].pc # "gone"
        /\ obs' = Forget(s) /\ UNCHANGED <<clock, gen, hb>>
    BY <1>18, Fields DEF crash, Live
  <2>2. Distinct'
    BY <2>1, FieldTypes, <1>s DEF Others, Gone, TokenInv, Distinct, Guarded, Owner, Sound
  <2>3. Dated'
    BY <2>1, FieldTypes, <1>s DEF Others, Gone, TokenInv, Distinct, Dated, Guarded, Owner, Sound
  <2>4. Beaten'
    BY <2>1, FieldTypes, <1>s
    DEF Others, Gone, TokenInv, Beaten, Guarded, Owner, Sound, TimeInv, InTime, Attaching,
        Calling
  <2>5. Guarded'
    BY <2>1, FieldTypes, <1>s
    DEF Others, Gone, TokenInv, Dated, Beaten, Guarded, Owner, Sound, TimeInv, Alone,
        Attaching
  <2> QED
    BY <2>2, <2>3, <2>4, <2>5 DEF TokenInv
<1> QED
  BY <1>1, <1>2, <1>3, <1>4, <1>5, <1>6, <1>7, <1>8, <1>9, <1>10, <1>11, <1>12,
     <1>13, <1>14, <1>15, <1>16, <1>17, <1>18 DEF Continues

LEMMA StolenSub ==
  ASSUME Unhurried, PastInv, TokenInv, StolenInv, NEW s \in Subs,
         open(s) \/ call(s) \/ destroy(s) \/ crash(s) \/ Continues(s)
  PROVE  StolenInv'
<1>s. \A q \in Subs : Sound(sub[q])
  BY DEF PastInv
<1>1. CASE open(s)
  <2>1. Opens(s) /\ sub[s].pc = "gone"
        /\ UNCHANGED <<clock, gen, hb, obs>>
    BY <1>1, Fields DEF open
  <2> QED
    BY <2>1, FieldTypes, <1>s
    DEF Others, Opens, TokenInv, Distinct, Guarded, StolenInv, Owner, Sound
<1>2. CASE load_gen(s)
  <2>1. Moves(s, IF gen # 0 THEN "age" ELSE "claim", 0, 0) /\ sub[s].pc = "load"
        /\ UNCHANGED <<clock, gen, hb, obs>>
    BY <1>2, Fields DEF load_gen
  <2> QED
    BY <2>1, FieldTypes, <1>s
    DEF Others, Moves, TokenInv, Distinct, Guarded, StolenInv, Owner, Sound
<1>3. CASE load_age(s)
  <2>0. PICK first \in {"hb_read", "now_read"} :
          Moves(s, first, Operand(first), sub[s].claim)
    BY <1>3, Fields
  <2>1. Moves(s, first, Operand(first), sub[s].claim) /\ sub[s].pc = "age"
        /\ UNCHANGED <<clock, gen, hb, obs>>
    BY <1>3, <2>0 DEF load_age
  <2> QED
    BY <2>1, FieldTypes, <1>s
    DEF Others, Moves, TokenInv, Distinct, Guarded, StolenInv, Owner, Sound
<1>4. CASE judge_age(s) /\ Elapsed(sub[s]) < Stale
  <2>1. Moves(s, "idle", 0, sub[s].claim)
        /\ sub[s].pc \in {"hb_read", "now_read"}
        /\ UNCHANGED <<clock, gen, hb, obs>>
    BY <1>4, Fields DEF judge_age
  <2> QED
    BY <2>1, FieldTypes, <1>s
    DEF Others, Moves, TokenInv, Distinct, Guarded, StolenInv, Owner, Sound
<1>5. CASE judge_age(s) /\ ~(Elapsed(sub[s]) < Stale)
  <2>1. Moves(s, "claim", 0, sub[s].claim)
        /\ sub[s].pc \in {"hb_read", "now_read"}
        /\ UNCHANGED <<clock, gen, hb, obs>>
    BY <1>5, Fields DEF judge_age
  <2> QED
    BY <2>1, FieldTypes, <1>s
    DEF Others, Moves, TokenInv, Distinct, Guarded, StolenInv, Owner, Sound
<1>6. CASE take_token(s)
  <2>1. Moves(s, "cas", sub[s].t, clock) /\ sub[s].pc = "claim"
        /\ UNCHANGED <<clock, gen, hb, obs>>
    BY <1>6, Fields DEF take_token
  <2> QED
    BY <2>1, FieldTypes, <1>s
    DEF Others, Moves, TokenInv, Distinct, Guarded, StolenInv, Owner, Sound
<1>7. CASE cas_succeeds(s)
  <2>1. Wins(s) /\ sub[s].pc = "cas"
        /\ gen' = sub[s].claim /\ UNCHANGED <<clock, hb, obs>>
    BY <1>7, Fields DEF cas_succeeds
  <2> QED
    BY <2>1, FieldTypes, <1>s
    DEF Others, Wins, TokenInv, Distinct, Guarded, StolenInv, Owner, Sound
<1>8. CASE cas_fails(s)
  <2>1. Moves(s, IF gen # 0 THEN "age" ELSE "claim", 0, 0) /\ sub[s].pc = "cas"
        /\ UNCHANGED <<clock, gen, hb, obs>>
    BY <1>8, Fields DEF cas_fails
  <2> QED
    BY <2>1, FieldTypes, <1>s
    DEF Others, Moves, TokenInv, Distinct, Guarded, StolenInv, Owner, Sound
<1>9. CASE first_now(s)
  <2>1. Moves(s, "first_beat", clock, sub[s].claim) /\ sub[s].pc = "claimed"
        /\ UNCHANGED <<clock, gen, hb, obs>>
    BY <1>9, Fields DEF first_now
  <2> QED
    BY <2>1, FieldTypes, <1>s
    DEF Others, Moves, TokenInv, Distinct, Guarded, StolenInv, Owner, Sound
<1>10. CASE first_beat(s)
  <2>1. Moves(s, "idle", 0, sub[s].claim) /\ sub[s].pc = "first_beat"
        /\ hb' = sub[s].t /\ UNCHANGED <<clock, gen, obs>>
    BY <1>10, Fields DEF first_beat
  <2> QED
    BY <2>1, FieldTypes, <1>s
    DEF Others, Moves, TokenInv, Distinct, Guarded, StolenInv, Owner, Sound
<1>11. CASE call(s)
  <2>1. Calls(s) /\ sub[s].pc = "idle" /\ sub[s].owns_commands
        /\ UNCHANGED <<clock, gen, hb, obs>>
    BY <1>11, Fields DEF call
  <2> QED
    BY <2>1, FieldTypes, <1>s
    DEF Others, Calls, TokenInv, Distinct, Guarded, StolenInv, Owner, Sound
<1>12. CASE check_claim(s) /\ gen # sub[s].owner_gen
  <2>1. Loses(s) /\ sub[s].pc = "check"
        /\ UNCHANGED <<clock, gen, hb, obs>>
    BY <1>12, Fields DEF check_claim
  <2> QED
    BY <2>1, FieldTypes, <1>s
    DEF Others, Loses, TokenInv, Distinct, Guarded, StolenInv, Owner, Sound
<1>13. CASE check_claim(s) /\ gen = sub[s].owner_gen
  <2>1. Moves(s, "now", sub[s].t, sub[s].claim) /\ sub[s].pc = "check"
        /\ UNCHANGED <<clock, gen, hb, obs>>
    BY <1>13, Fields DEF check_claim
  <2> QED
    BY <2>1, FieldTypes, <1>s, <1>13
    DEF Others, Moves, TokenInv, Distinct, Guarded, StolenInv, Owner, Sound
<1>14. CASE beat_now(s)
  <2>1. Moves(s, "beat", clock, sub[s].claim) /\ sub[s].pc = "now"
        /\ UNCHANGED <<clock, gen, hb, obs>>
    BY <1>14, Fields DEF beat_now
  <2> QED
    BY <2>1, FieldTypes, <1>s
    DEF Others, Moves, TokenInv, Distinct, Guarded, StolenInv, Owner, Sound
<1>15. CASE beat(s)
  <2>0. PICK next \in {"idle", "ring"} : Moves(s, next, 0, sub[s].claim)
    BY <1>15, Fields
  <2>1. Moves(s, next, 0, sub[s].claim) /\ sub[s].pc = "beat"
        /\ hb' = sub[s].t /\ UNCHANGED <<clock, gen, obs>>
    BY <1>15, <2>0 DEF beat
  <2> QED
    BY <2>1, FieldTypes, <1>s
    DEF Others, Moves, TokenInv, Distinct, Guarded, StolenInv, Owner, Sound
<1>16. CASE leave_ring(s)
  <2>1. Moves(s, "idle", sub[s].t, sub[s].claim) /\ sub[s].pc = "ring"
        /\ UNCHANGED <<clock, gen, hb, obs>>
    BY <1>16, Fields DEF leave_ring
  <2> QED
    BY <2>1, FieldTypes, <1>s
    DEF Others, Moves, TokenInv, Distinct, Guarded, StolenInv, Owner, Sound
<1>17. CASE destroy(s)
  <2>1. Others(s) /\ sub'[s] = Gone /\ sub[s].pc = "idle"
        /\ gen' = (IF sub[s].owns_commands /\ gen = sub[s].owner_gen THEN 0 ELSE gen)
        /\ obs' = Forget(s) /\ UNCHANGED <<clock, hb>>
    BY <1>17, Fields DEF destroy, Release
  <2> QED
    BY <2>1, FieldTypes, <1>s
    DEF Others, Gone, TokenInv, Distinct, Guarded, StolenInv, Owner, Sound
<1>18. CASE crash(s)
  <2>1. Others(s) /\ sub'[s] = Gone /\ sub[s].pc # "gone"
        /\ obs' = Forget(s) /\ UNCHANGED <<clock, gen, hb>>
    BY <1>18, Fields DEF crash, Live
  <2> QED
    BY <2>1, FieldTypes, <1>s
    DEF Others, Gone, TokenInv, Distinct, Guarded, StolenInv, Owner, Sound
<1> QED
  BY <1>1, <1>2, <1>3, <1>4, <1>5, <1>6, <1>7, <1>8, <1>9, <1>10, <1>11, <1>12,
     <1>13, <1>14, <1>15, <1>16, <1>17, <1>18 DEF Continues

LEMMA TokenTick ==
  ASSUME PastInv, TokenInv, StolenInv, tick
  PROVE  TokenInv' /\ StolenInv'
<1>1. clock' = clock + 1 /\ UNCHANGED <<gen, hb, sub, obs>>
  BY DEF tick
<1>2. Distinct' /\ Beaten' /\ StolenInv'
  BY <1>1 DEF TokenInv, Distinct, Beaten, StolenInv, Owner, Attaching
<1>3. Dated' /\ Guarded'
  BY <1>1, FieldTypes DEF TokenInv, Dated, Guarded, Owner
<1> QED
  BY <1>2, <1>3 DEF TokenInv

LEMMA TokenStep ==
  ASSUME Unhurried
  PROVE  PastInv /\ TimeInv /\ TokenInv /\ StolenInv /\ [Next]_vars => TokenInv' /\ StolenInv'
<1> SUFFICES ASSUME PastInv, TimeInv, TokenInv, StolenInv, [Next]_vars
             PROVE  TokenInv' /\ StolenInv'
  OBVIOUS
<1>1. CASE observe \/ observe_age \/ observe_judge \/ observed \/ UNCHANGED vars
  BY <1>1, ObsFrame
  DEF TokenInv, Distinct, Dated, Beaten, Guarded, StolenInv, Owner, Attaching
<1> QED
  BY <1>1, TokenSub, StolenSub, TokenTick DEF Next

LEMMA TokenInit == Init => TimeInv /\ TokenInv /\ StolenInv
<1> SUFFICES ASSUME Init PROVE TimeInv /\ TokenInv /\ StolenInv
  OBVIOUS
<1>1. \A s \in Subs : sub[s].pc = "gone" /\ ~sub[s].owns_commands
  BY DEF Init, Gone
<1> QED
  BY <1>1 DEF TimeInv, Alone, InTime, TokenInv, Distinct, Dated, Beaten, Guarded, StolenInv,
              Owner, Attaching, Calling

PacedInv == PastInv /\ (Paced => TimeInv /\ TokenInv /\ StolenInv)

LEMMA TokenInvariant ==
  ASSUME Unhurried
  PROVE  Spec => []PacedInv
<1>1. ASSUME PacedInv, [Next]_vars PROVE PacedInv'
  <2>1. PastInv'
    BY <1>1, PastStep DEF PacedInv
  <2>2. ASSUME Paced' PROVE (TimeInv /\ TokenInv /\ StolenInv)'
    <3>1. Paced
      BY <1>1, <2>2, FaultsStay DEF Paced
    <3> QED
      BY <1>1, <2>2, <3>1, TimeStep, TokenStep DEF PacedInv
  <2> QED
    BY <2>1, <2>2 DEF PacedInv
<1>2. Init => PacedInv
  BY PastInit, TokenInit DEF PacedInv
<1> QED
  BY <1>1, <1>2, PTL DEF Spec

\* still_owns_commands cannot be fooled: a send, receive or poll that begins
\* after the claim was stolen ends at the check, because no later claim repeats
\* the token of an owner that has not noticed yet.  Assumed: MaxStall is shorter
\* than kCommandOwnerStaleNs; StolenNeverEnters itself is about histories without
\* overlapping attaches and calls longer than MaxStall (two attaches in one tick
\* do repeat the token).  Owners may be away for any time, and the age may be
\* read in either order and wrap.
THEOREM StolenStaysOut ==
  ASSUME Unhurried
  PROVE  Spec => []StolenNeverEnters
<1>1. PacedInv => StolenNeverEnters
  BY DEF PacedInv, StolenInv, StolenNeverEnters
<1> QED
  BY <1>1, TokenInvariant, PTL

\* The destructor of a former owner does not take the channel from the owner of
\* now: its compare-exchange finds another token.  Assumed as for StolenStaysOut:
\* a window longer than MaxStall, and a history without overlapping attaches and
\* calls longer than that, which NeverCleared states.
THEOREM ClaimIsNotCleared ==
  ASSUME Unhurried
  PROVE  Spec => NeverCleared
<1>1. ASSUME PacedInv, Paced, Next, NEW s \in Subs, Settled(s), gen' = 0
      PROVE  sub'[s].pc = "gone"
  <2>0. PastInv /\ TokenInv
    BY <1>1 DEF PacedInv
  <2>1. Owner(s) /\ gen # 0 /\ gen = sub[s].owner_gen
    BY <1>1, <2>0 DEF Settled, PastInv, Sound, Owner
  <2>2. gen' # gen
    BY <1>1, <2>1
  <2>3. PICK q \in Subs : cas_succeeds(q) \/ destroy(q)
    BY <1>1, <2>2
    DEF Next, open, call, crash, Continues, load_gen, load_age, judge_age, take_token,
        cas_fails, first_now, first_beat, check_claim, beat_now, beat, leave_ring, observe, observe_age,
        observe_judge, observed, tick
  <2>4. CASE cas_succeeds(q)
    BY <1>1, <2>0, <2>4 DEF cas_succeeds, PastInv, Sound
  <2>5. CASE destroy(q)
    <3>1. Owner(q) /\ gen = sub[q].owner_gen
      BY <2>2, <2>5 DEF destroy, Release, Owner
    <3>2. q = s
      BY <1>1, <2>0, <2>1, <3>1 DEF TokenInv, Distinct
    <3> QED
      BY <1>1, <2>0, <2>5, <3>2, Fields DEF Gone
  <2> QED
    BY <2>3, <2>4, <2>5
<1>2. PacedInv /\ [Next]_vars
      => [Paced => \A s \in Subs : Settled(s) /\ gen' = 0 => sub'[s].pc = "gone"]_vars
  BY <1>1
<1> QED
  BY <1>2, TokenInvariant, PTL DEF Spec, NeverCleared

-----------------------------------------------------------------------------
(* An owner that calls often enough keeps the channel                       *)

\* The longest time between two heartbeats' calls: an owner that has just come
\* out of a long call is not asked to be back at once.
Lull == IF MaxQuiet < MaxStall THEN MaxStall ELSE MaxQuiet

Steady == Lull + 2 * MaxStall < Stale

\* The claim is the owner's, so there is at most one; a subscriber that is about
\* to claim has none to displace.
Held ==
  /\ \A s \in Subs : Owner(s) => gen = sub[s].owner_gen
  /\ \A s \in Subs : sub[s].pc \in {"claim", "cas"} => \A q \in Subs : ~Owner(q)

\* The heartbeat is of the owner's last call, or of the one before.
Fresh ==
  \A s \in Subs : Owner(s) =>
    /\ sub[s].pc = "idle" => clock - sub[s].started <= Lull
    /\ sub[s].pc \in {"idle", "ring"} => sub[s].started <= hb
    /\ sub[s].pc \in {"check", "now", "beat"} => sub[s].started <= hb + Lull

\* An attach that judges a live owner has loaded a fresh heartbeat.
Judged ==
  \A s, q \in Subs :
    Owner(s) /\ sub[q].pc = "hb_read" => sub[q].started <= sub[q].t + Lull + MaxStall

OwnerInv == Held /\ Fresh /\ Judged

\* The same for the publisher, and what it reports
Watched ==
  /\ \A s \in obs.settled : Owner(s) /\ ~Attaching(s)
  /\ obs.pc \in {"age", "hb_read", "now_read"} => clock - obs.started <= MaxStall
  /\ obs.pc = "hb_read" /\ obs.settled # {} => obs.started <= obs.t + Lull + MaxStall
  /\ obs.pc = "judged" /\ obs.stale => obs.settled = {}

LEMMA LullTypes == Lull \in Nat /\ MaxQuiet <= Lull /\ MaxStall <= Lull
BY ConstantTypes DEF Lull

LEMMA ObsTypes ==
  ASSUME PastInv
  PROVE  /\ obs.settled \subseteq Subs /\ obs.started \in Nat /\ obs.started <= clock
         /\ obs.t \in Nat /\ obs.t <= clock /\ obs.stale \in BOOLEAN
<1>1. obs \in ObsRec(clock) /\ clock \in Nat
  BY ClockTypes DEF PastInv
<1> QED
  BY <1>1 DEF ObsRec

LEMMA OneOwner ==
  ASSUME TokenInv, OwnerInv
  PROVE  \A s, q \in Subs : Owner(s) /\ Owner(q) => s = q
BY DEF TokenInv, Distinct, OwnerInv, Held

\* The heartbeat is fresh whenever the owner is past its first one.
LEMMA FreshBeat ==
  ASSUME PastInv, TimeInv, OwnerInv, NEW s \in Subs, Owner(s), ~Attaching(s)
  PROVE  clock <= hb + Lull + MaxStall
<1>1. sub[s].pc \in {"idle", "check", "now", "beat", "ring"}
  BY FieldTypes DEF Attaching, Pcs, PastInv, Sound, Owner
<1> QED
  BY <1>1, FieldTypes, LullTypes DEF OwnerInv, Fresh, TimeInv, InTime, Calling

LEMMA OwnerSub ==
  ASSUME Steady, faults' = {}, PastInv, TimeInv, TokenInv, OwnerInv, NEW s \in Subs,
         open(s) \/ call(s) \/ destroy(s) \/ crash(s) \/ Continues(s)
  PROVE  OwnerInv'
<1>s. \A q \in Subs : Sound(sub[q])
  BY DEF PastInv
<1>h. Lull + 2 * MaxStall < Stale
  BY DEF Steady
<1>f. \A q \in Subs : Owner(q) /\ ~Attaching(q) => clock <= hb + Lull + MaxStall
  BY FreshBeat
<1>j. ASSUME judge_age(s), ~(Elapsed(sub[s]) < Stale)
      PROVE  /\ sub[s].pc = "hb_read" => sub[s].t + Stale <= clock
             /\ sub[s].pc = "now_read" => hb + Stale <= clock
  <2>1. ~(sub[s].pc = "now_read" /\ sub[s].t < hb)
    BY <1>j DEF judge_age, Happens, Wraps
  <2> QED
    BY <1>j, <2>1, FieldTypes, StaleMeans DEF judge_age
<1>1. CASE open(s)
  <2>1. Opens(s) /\ sub[s].pc = "gone"
        /\ UNCHANGED <<clock, gen, hb, obs>>
    BY <1>1, Fields DEF open
  <2>2. Held'
    BY <2>1, FieldTypes, LullTypes, OneOwner, <1>s
    DEF Others, Opens, OwnerInv, Held, Judged, Owner, Sound, TimeInv, Alone, InTime,
        Attaching
  <2>3. Fresh'
    BY <2>1, FieldTypes, LullTypes, OneOwner, <1>s
    DEF Others, Opens, OwnerInv, Held, Fresh, Owner, Sound, TimeInv, InTime, Attaching,
        Calling
  <2>4. Judged'
    BY <2>1, FieldTypes, LullTypes, OneOwner, <1>s
    DEF Others, Opens, OwnerInv, Held, Judged, Owner, Sound, TimeInv, Alone, Attaching
  <2> QED
    BY <2>2, <2>3, <2>4 DEF OwnerInv
<1>2. CASE load_gen(s)
  <2>1. Moves(s, IF gen # 0 THEN "age" ELSE "claim", 0, 0) /\ sub[s].pc = "load"
        /\ UNCHANGED <<clock, gen, hb, obs>>
    BY <1>2, Fields DEF load_gen
  <2>2. Held'
    BY <2>1, FieldTypes, LullTypes, OneOwner, <1>s
    DEF Others, Moves, OwnerInv, Held, Judged, Owner, Sound, TimeInv, Alone, InTime,
        Attaching
  <2>3. Fresh'
    BY <2>1, FieldTypes, LullTypes, OneOwner, <1>s
    DEF Others, Moves, OwnerInv, Held, Fresh, Owner, Sound, TimeInv, InTime, Attaching,
        Calling
  <2>4. Judged'
    BY <2>1, FieldTypes, LullTypes, OneOwner, <1>s
    DEF Others, Moves, OwnerInv, Held, Judged, Owner, Sound, TimeInv, Alone, Attaching
  <2> QED
    BY <2>2, <2>3, <2>4 DEF OwnerInv
<1>3. CASE load_age(s)
  <2>0. PICK first \in {"hb_read", "now_read"} :
          Moves(s, first, Operand(first), sub[s].claim)
    BY <1>3, Fields
  <2>1. Moves(s, first, Operand(first), sub[s].claim) /\ sub[s].pc = "age"
        /\ UNCHANGED <<clock, gen, hb, obs>>
    BY <1>3, <2>0 DEF load_age
  <2>2. Held'
    BY <2>1, FieldTypes, LullTypes, OneOwner, <1>s, <1>h, <1>f
    DEF Others, Moves, OwnerInv, Held, Judged, Owner, Sound, TimeInv, Alone, InTime,
        Attaching, Operand
  <2>3. Fresh'
    BY <2>1, FieldTypes, LullTypes, OneOwner, <1>s, <1>h, <1>f
    DEF Others, Moves, OwnerInv, Held, Fresh, Owner, Sound, TimeInv, InTime, Attaching,
        Calling, Operand
  <2>4. Judged'
    BY <2>1, FieldTypes, LullTypes, OneOwner, <1>s, <1>h, <1>f
    DEF Others, Moves, OwnerInv, Held, Judged, Owner, Sound, TimeInv, Alone, Attaching,
        Operand
  <2> QED
    BY <2>2, <2>3, <2>4 DEF OwnerInv
<1>4. CASE judge_age(s) /\ Elapsed(sub[s]) < Stale
  <2>1. Moves(s, "idle", 0, sub[s].claim)
        /\ sub[s].pc \in {"hb_read", "now_read"}
        /\ UNCHANGED <<clock, gen, hb, obs>>
    BY <1>4, Fields DEF judge_age
  <2>2. Held'
    BY <2>1, FieldTypes, LullTypes, OneOwner, <1>s, <1>h, <1>j
    DEF Others, Moves, OwnerInv, Held, Judged, Owner, Sound, TimeInv, Alone, InTime,
        Attaching
  <2>3. Fresh'
    BY <2>1, FieldTypes, LullTypes, OneOwner, <1>s, <1>h, <1>j
    DEF Others, Moves, OwnerInv, Held, Fresh, Owner, Sound, TimeInv, InTime, Attaching,
        Calling
  <2>4. Judged'
    BY <2>1, FieldTypes, LullTypes, OneOwner, <1>s, <1>h, <1>j
    DEF Others, Moves, OwnerInv, Held, Judged, Owner, Sound, TimeInv, Alone, Attaching
  <2> QED
    BY <2>2, <2>3, <2>4 DEF OwnerInv
<1>5. CASE judge_age(s) /\ ~(Elapsed(sub[s]) < Stale)
  <2>1. Moves(s, "claim", 0, sub[s].claim)
        /\ sub[s].pc \in {"hb_read", "now_read"}
        /\ UNCHANGED <<clock, gen, hb, obs>>
    BY <1>5, Fields DEF judge_age
  <2>a. ASSUME NEW q \in Subs, Owner(q) PROVE FALSE
    <3>1. ~Attaching(q) /\ Attaching(s)
      BY <1>s, <2>1, <2>a DEF Owner, Sound, TimeInv, Alone, Attaching
    <3>2. clock <= hb + Lull + MaxStall
      BY <1>f, <2>a, <3>1
    <3>3. CASE sub[s].pc = "hb_read"
      BY <1>h, <1>j, <1>5, <2>a, <3>1, <3>3, FieldTypes, LullTypes
      DEF OwnerInv, Judged, TimeInv, InTime
    <3>4. CASE sub[s].pc = "now_read"
      BY <1>h, <1>j, <1>5, <3>2, <3>4, FieldTypes, LullTypes
    <3> QED
      BY <2>1, <3>3, <3>4
  <2>2. Held'
    BY <2>1, <2>a DEF Others, Moves, OwnerInv, Held, Owner
  <2>3. Fresh'
    BY <2>1, FieldTypes, LullTypes, OneOwner, <1>s, <1>h, <1>j, <1>5
    DEF Others, Moves, OwnerInv, Held, Fresh, Owner, Sound, TimeInv, InTime, Attaching,
        Calling
  <2>4. Judged'
    BY <2>1, FieldTypes, LullTypes, OneOwner, <1>s, <1>h, <1>j, <1>5
    DEF Others, Moves, OwnerInv, Held, Judged, Owner, Sound, TimeInv, Alone, Attaching
  <2> QED
    BY <2>2, <2>3, <2>4 DEF OwnerInv
<1>6. CASE take_token(s)
  <2>1. Moves(s, "cas", sub[s].t, clock) /\ sub[s].pc = "claim"
        /\ UNCHANGED <<clock, gen, hb, obs>>
    BY <1>6, Fields DEF take_token
  <2>2. Held'
    BY <2>1, FieldTypes, LullTypes, OneOwner, <1>s
    DEF Others, Moves, OwnerInv, Held, Judged, Owner, Sound, TimeInv, Alone, InTime,
        Attaching
  <2>3. Fresh'
    BY <2>1, FieldTypes, LullTypes, OneOwner, <1>s
    DEF Others, Moves, OwnerInv, Held, Fresh, Owner, Sound, TimeInv, InTime, Attaching,
        Calling
  <2>4. Judged'
    BY <2>1, FieldTypes, LullTypes, OneOwner, <1>s
    DEF Others, Moves, OwnerInv, Held, Judged, Owner, Sound, TimeInv, Alone, Attaching
  <2> QED
    BY <2>2, <2>3, <2>4 DEF OwnerInv
<1>7. CASE cas_succeeds(s)
  <2>1. Wins(s) /\ sub[s].pc = "cas"
        /\ gen' = sub[s].claim /\ UNCHANGED <<clock, hb, obs>>
    BY <1>7, Fields DEF cas_succeeds
  <2>2. Held'
    BY <2>1, FieldTypes, LullTypes, OneOwner, <1>s
    DEF Others, Wins, OwnerInv, Held, Judged, Owner, Sound, TimeInv, Alone, InTime,
        Attaching
  <2>3. Fresh'
    BY <2>1, FieldTypes, LullTypes, OneOwner, <1>s
    DEF Others, Wins, OwnerInv, Held, Fresh, Owner, Sound, TimeInv, InTime, Attaching,
        Calling
  <2>4. Judged'
    BY <2>1, FieldTypes, LullTypes, OneOwner, <1>s
    DEF Others, Wins, OwnerInv, Held, Judged, Owner, Sound, TimeInv, Alone, Attaching
  <2> QED
    BY <2>2, <2>3, <2>4 DEF OwnerInv
<1>8. CASE cas_fails(s)
  <2>1. Moves(s, IF gen # 0 THEN "age" ELSE "claim", 0, 0) /\ sub[s].pc = "cas"
        /\ UNCHANGED <<clock, gen, hb, obs>>
    BY <1>8, Fields DEF cas_fails
  <2>2. Held'
    BY <2>1, FieldTypes, LullTypes, OneOwner, <1>s
    DEF Others, Moves, OwnerInv, Held, Judged, Owner, Sound, TimeInv, Alone, InTime,
        Attaching
  <2>3. Fresh'
    BY <2>1, FieldTypes, LullTypes, OneOwner, <1>s
    DEF Others, Moves, OwnerInv, Held, Fresh, Owner, Sound, TimeInv, InTime, Attaching,
        Calling
  <2>4. Judged'
    BY <2>1, FieldTypes, LullTypes, OneOwner, <1>s
    DEF Others, Moves, OwnerInv, Held, Judged, Owner, Sound, TimeInv, Alone, Attaching
  <2> QED
    BY <2>2, <2>3, <2>4 DEF OwnerInv
<1>9. CASE first_now(s)
  <2>1. Moves(s, "first_beat", clock, sub[s].claim) /\ sub[s].pc = "claimed"
        /\ UNCHANGED <<clock, gen, hb, obs>>
    BY <1>9, Fields DEF first_now
  <2>2. Held'
    BY <2>1, FieldTypes, LullTypes, OneOwner, <1>s
    DEF Others, Moves, OwnerInv, Held, Judged, Owner, Sound, TimeInv, Alone, InTime,
        Attaching
  <2>3. Fresh'
    BY <2>1, FieldTypes, LullTypes, OneOwner, <1>s
    DEF Others, Moves, OwnerInv, Held, Fresh, Owner, Sound, TimeInv, InTime, Attaching,
        Calling
  <2>4. Judged'
    BY <2>1, FieldTypes, LullTypes, OneOwner, <1>s
    DEF Others, Moves, OwnerInv, Held, Judged, Owner, Sound, TimeInv, Alone, Attaching
  <2> QED
    BY <2>2, <2>3, <2>4 DEF OwnerInv
<1>10. CASE first_beat(s)
  <2>1. Moves(s, "idle", 0, sub[s].claim) /\ sub[s].pc = "first_beat"
        /\ hb' = sub[s].t /\ UNCHANGED <<clock, gen, obs>>
    BY <1>10, Fields DEF first_beat
  <2>2. Held'
    BY <2>1, FieldTypes, LullTypes, OneOwner, <1>s
    DEF Others, Moves, OwnerInv, Held, Judged, Owner, Sound, TimeInv, Alone, InTime,
        Attaching
  <2>3. Fresh'
    BY <2>1, FieldTypes, LullTypes, OneOwner, <1>s
    DEF Others, Moves, OwnerInv, Held, Fresh, Owner, Sound, TimeInv, InTime, Attaching,
        Calling
  <2>4. Judged'
    BY <2>1, FieldTypes, LullTypes, OneOwner, <1>s
    DEF Others, Moves, OwnerInv, Held, Judged, Owner, Sound, TimeInv, Alone, Attaching
  <2> QED
    BY <2>2, <2>3, <2>4 DEF OwnerInv
<1>11. CASE call(s)
  <2>1. Calls(s) /\ sub[s].pc = "idle" /\ sub[s].owns_commands
        /\ UNCHANGED <<clock, gen, hb, obs>>
    BY <1>11, Fields DEF call
  <2>2. Held'
    BY <2>1, FieldTypes, LullTypes, OneOwner, <1>s
    DEF Others, Calls, OwnerInv, Held, Judged, Owner, Sound, TimeInv, Alone, InTime,
        Attaching
  <2>3. Fresh'
    BY <2>1, FieldTypes, LullTypes, OneOwner, <1>s
    DEF Others, Calls, OwnerInv, Held, Fresh, Owner, Sound, TimeInv, InTime, Attaching,
        Calling
  <2>4. Judged'
    BY <2>1, FieldTypes, LullTypes, OneOwner, <1>s
    DEF Others, Calls, OwnerInv, Held, Judged, Owner, Sound, TimeInv, Alone, Attaching
  <2> QED
    BY <2>2, <2>3, <2>4 DEF OwnerInv
<1>12. CASE check_claim(s) /\ gen # sub[s].owner_gen
  <2>1. Loses(s) /\ sub[s].pc = "check"
        /\ UNCHANGED <<clock, gen, hb, obs>>
    BY <1>12, Fields DEF check_claim
  <2>2. Held'
    BY <2>1, FieldTypes, LullTypes, OneOwner, <1>s, <1>12
    DEF Others, Loses, OwnerInv, Held, Judged, Owner, Sound, TimeInv, Alone, InTime,
        Attaching
  <2>3. Fresh'
    BY <2>1, FieldTypes, LullTypes, OneOwner, <1>s, <1>12
    DEF Others, Loses, OwnerInv, Held, Fresh, Owner, Sound, TimeInv, InTime, Attaching,
        Calling
  <2>4. Judged'
    BY <2>1, FieldTypes, LullTypes, OneOwner, <1>s, <1>12
    DEF Others, Loses, OwnerInv, Held, Judged, Owner, Sound, TimeInv, Alone, Attaching
  <2> QED
    BY <2>2, <2>3, <2>4 DEF OwnerInv
<1>13. CASE check_claim(s) /\ gen = sub[s].owner_gen
  <2>1. Moves(s, "now", sub[s].t, sub[s].claim) /\ sub[s].pc = "check"
        /\ UNCHANGED <<clock, gen, hb, obs>>
    BY <1>13, Fields DEF check_claim
  <2>2. Held'
    BY <2>1, FieldTypes, LullTypes, OneOwner, <1>s
    DEF Others, Moves, OwnerInv, Held, Judged, Owner, Sound, TimeInv, Alone, InTime,
        Attaching
  <2>3. Fresh'
    BY <2>1, FieldTypes, LullTypes, OneOwner, <1>s
    DEF Others, Moves, OwnerInv, Held, Fresh, Owner, Sound, TimeInv, InTime, Attaching,
        Calling
  <2>4. Judged'
    BY <2>1, FieldTypes, LullTypes, OneOwner, <1>s
    DEF Others, Moves, OwnerInv, Held, Judged, Owner, Sound, TimeInv, Alone, Attaching
  <2> QED
    BY <2>2, <2>3, <2>4 DEF OwnerInv
<1>14. CASE beat_now(s)
  <2>1. Moves(s, "beat", clock, sub[s].claim) /\ sub[s].pc = "now"
        /\ UNCHANGED <<clock, gen, hb, obs>>
    BY <1>14, Fields DEF beat_now
  <2>2. Held'
    BY <2>1, FieldTypes, LullTypes, OneOwner, <1>s
    DEF Others, Moves, OwnerInv, Held, Judged, Owner, Sound, TimeInv, Alone, InTime,
        Attaching
  <2>3. Fresh'
    BY <2>1, FieldTypes, LullTypes, OneOwner, <1>s
    DEF Others, Moves, OwnerInv, Held, Fresh, Owner, Sound, TimeInv, InTime, Attaching,
        Calling
  <2>4. Judged'
    BY <2>1, FieldTypes, LullTypes, OneOwner, <1>s
    DEF Others, Moves, OwnerInv, Held, Judged, Owner, Sound, TimeInv, Alone, Attaching
  <2> QED
    BY <2>2, <2>3, <2>4 DEF OwnerInv
<1>15. CASE beat(s)
  <2>0. PICK next \in {"idle", "ring"} : Moves(s, next, 0, sub[s].claim)
    BY <1>15, Fields
  <2>1. Moves(s, next, 0, sub[s].claim) /\ sub[s].pc = "beat"
        /\ hb' = sub[s].t /\ UNCHANGED <<clock, gen, obs>>
    BY <1>15, <2>0 DEF beat
  <2>2. Held'
    BY <2>1, FieldTypes, LullTypes, OneOwner, <1>s
    DEF Others, Moves, OwnerInv, Held, Judged, Owner, Sound, TimeInv, Alone, InTime,
        Attaching
  <2>3. Fresh'
    BY <2>1, FieldTypes, LullTypes, OneOwner, <1>s
    DEF Others, Moves, OwnerInv, Held, Fresh, Owner, Sound, TimeInv, InTime, Attaching,
        Calling
  <2>4. Judged'
    BY <2>1, FieldTypes, LullTypes, OneOwner, <1>s
    DEF Others, Moves, OwnerInv, Held, Judged, Owner, Sound, TimeInv, Alone, Attaching
  <2> QED
    BY <2>2, <2>3, <2>4 DEF OwnerInv
<1>16. CASE leave_ring(s)
  <2>1. Moves(s, "idle", sub[s].t, sub[s].claim) /\ sub[s].pc = "ring"
        /\ UNCHANGED <<clock, gen, hb, obs>>
    BY <1>16, Fields DEF leave_ring
  <2>2. Held'
    BY <2>1, FieldTypes, LullTypes, OneOwner, <1>s
    DEF Others, Moves, OwnerInv, Held, Judged, Owner, Sound, TimeInv, Alone, InTime,
        Attaching
  <2>3. Fresh'
    BY <2>1, FieldTypes, LullTypes, OneOwner, <1>s
    DEF Others, Moves, OwnerInv, Held, Fresh, Owner, Sound, TimeInv, InTime, Attaching,
        Calling
  <2>4. Judged'
    BY <2>1, FieldTypes, LullTypes, OneOwner, <1>s
    DEF Others, Moves, OwnerInv, Held, Judged, Owner, Sound, TimeInv, Alone, Attaching
  <2> QED
    BY <2>2, <2>3, <2>4 DEF OwnerInv
<1>17. CASE destroy(s)
  <2>1. Others(s) /\ sub'[s] = Gone /\ sub[s].pc = "idle"
        /\ gen' = (IF sub[s].owns_commands /\ gen = sub[s].owner_gen THEN 0 ELSE gen)
        /\ obs' = Forget(s) /\ UNCHANGED <<clock, hb>>
    BY <1>17, Fields DEF destroy, Release
  <2>2. Held'
    BY <2>1, FieldTypes, LullTypes, OneOwner, <1>s
    DEF Others, Gone, OwnerInv, Held, Judged, Owner, Sound, TimeInv, Alone, InTime,
        Attaching
  <2>3. Fresh'
    BY <2>1, FieldTypes, LullTypes, OneOwner, <1>s
    DEF Others, Gone, OwnerInv, Held, Fresh, Owner, Sound, TimeInv, InTime, Attaching,
        Calling
  <2>4. Judged'
    BY <2>1, FieldTypes, LullTypes, OneOwner, <1>s
    DEF Others, Gone, OwnerInv, Held, Judged, Owner, Sound, TimeInv, Alone, Attaching
  <2> QED
    BY <2>2, <2>3, <2>4 DEF OwnerInv
<1>18. CASE crash(s)
  <2>1. Others(s) /\ sub'[s] = Gone /\ sub[s].pc # "gone"
        /\ obs' = Forget(s) /\ UNCHANGED <<clock, gen, hb>>
    BY <1>18, Fields DEF crash, Live
  <2>2. Held'
    BY <2>1, FieldTypes, LullTypes, OneOwner, <1>s
    DEF Others, Gone, OwnerInv, Held, Judged, Owner, Sound, TimeInv, Alone, InTime,
        Attaching
  <2>3. Fresh'
    BY <2>1, FieldTypes, LullTypes, OneOwner, <1>s
    DEF Others, Gone, OwnerInv, Held, Fresh, Owner, Sound, TimeInv, InTime, Attaching,
        Calling
  <2>4. Judged'
    BY <2>1, FieldTypes, LullTypes, OneOwner, <1>s
    DEF Others, Gone, OwnerInv, Held, Judged, Owner, Sound, TimeInv, Alone, Attaching
  <2> QED
    BY <2>2, <2>3, <2>4 DEF OwnerInv
<1> QED
  BY <1>1, <1>2, <1>3, <1>4, <1>5, <1>6, <1>7, <1>8, <1>9, <1>10, <1>11, <1>12,
     <1>13, <1>14, <1>15, <1>16, <1>17, <1>18 DEF Continues

LEMMA WatchedSub ==
  ASSUME PastInv, OwnerInv, Watched, NEW s \in Subs,
         open(s) \/ call(s) \/ destroy(s) \/ crash(s) \/ Continues(s)
  PROVE  Watched'
<1>s. \A q \in Subs : Sound(sub[q])
  BY DEF PastInv
<1>g. /\ Forget(s).settled = obs.settled \ {s} /\ Forget(s).pc = obs.pc /\ Forget(s).t = obs.t
      /\ Forget(s).started = obs.started /\ Forget(s).stale = obs.stale
  BY DEF PastInv, ObsRec, Forget
<1>1. CASE open(s)
  <2>1. Opens(s) /\ sub[s].pc = "gone"
        /\ UNCHANGED <<clock, gen, hb, obs>>
    BY <1>1, Fields DEF open
  <2> QED
    BY <2>1, ObsTypes, <1>s DEF Others, Opens, OwnerInv, Held, Owner, Sound, Watched, Attaching
<1>2. CASE load_gen(s)
  <2>1. Moves(s, IF gen # 0 THEN "age" ELSE "claim", 0, 0) /\ sub[s].pc = "load"
        /\ UNCHANGED <<clock, gen, hb, obs>>
    BY <1>2, Fields DEF load_gen
  <2> QED
    BY <2>1, ObsTypes, <1>s DEF Others, Moves, OwnerInv, Held, Owner, Sound, Watched, Attaching
<1>3. CASE load_age(s)
  <2>0. PICK first \in {"hb_read", "now_read"} :
          Moves(s, first, Operand(first), sub[s].claim)
    BY <1>3, Fields
  <2>1. Moves(s, first, Operand(first), sub[s].claim) /\ sub[s].pc = "age"
        /\ UNCHANGED <<clock, gen, hb, obs>>
    BY <1>3, <2>0 DEF load_age
  <2> QED
    BY <2>1, ObsTypes, <1>s DEF Others, Moves, OwnerInv, Held, Owner, Sound, Watched, Attaching
<1>4. CASE judge_age(s) /\ Elapsed(sub[s]) < Stale
  <2>1. Moves(s, "idle", 0, sub[s].claim)
        /\ sub[s].pc \in {"hb_read", "now_read"}
        /\ UNCHANGED <<clock, gen, hb, obs>>
    BY <1>4, Fields DEF judge_age
  <2> QED
    BY <2>1, ObsTypes, <1>s DEF Others, Moves, OwnerInv, Held, Owner, Sound, Watched, Attaching
<1>5. CASE judge_age(s) /\ ~(Elapsed(sub[s]) < Stale)
  <2>1. Moves(s, "claim", 0, sub[s].claim)
        /\ sub[s].pc \in {"hb_read", "now_read"}
        /\ UNCHANGED <<clock, gen, hb, obs>>
    BY <1>5, Fields DEF judge_age
  <2> QED
    BY <2>1, ObsTypes, <1>s DEF Others, Moves, OwnerInv, Held, Owner, Sound, Watched, Attaching
<1>6. CASE take_token(s)
  <2>1. Moves(s, "cas", sub[s].t, clock) /\ sub[s].pc = "claim"
        /\ UNCHANGED <<clock, gen, hb, obs>>
    BY <1>6, Fields DEF take_token
  <2> QED
    BY <2>1, ObsTypes, <1>s DEF Others, Moves, OwnerInv, Held, Owner, Sound, Watched, Attaching
<1>7. CASE cas_succeeds(s)
  <2>1. Wins(s) /\ sub[s].pc = "cas"
        /\ gen' = sub[s].claim /\ UNCHANGED <<clock, hb, obs>>
    BY <1>7, Fields DEF cas_succeeds
  <2> QED
    BY <2>1, ObsTypes, <1>s DEF Others, Wins, OwnerInv, Held, Owner, Sound, Watched, Attaching
<1>8. CASE cas_fails(s)
  <2>1. Moves(s, IF gen # 0 THEN "age" ELSE "claim", 0, 0) /\ sub[s].pc = "cas"
        /\ UNCHANGED <<clock, gen, hb, obs>>
    BY <1>8, Fields DEF cas_fails
  <2> QED
    BY <2>1, ObsTypes, <1>s DEF Others, Moves, OwnerInv, Held, Owner, Sound, Watched, Attaching
<1>9. CASE first_now(s)
  <2>1. Moves(s, "first_beat", clock, sub[s].claim) /\ sub[s].pc = "claimed"
        /\ UNCHANGED <<clock, gen, hb, obs>>
    BY <1>9, Fields DEF first_now
  <2> QED
    BY <2>1, ObsTypes, <1>s DEF Others, Moves, OwnerInv, Held, Owner, Sound, Watched, Attaching
<1>10. CASE first_beat(s)
  <2>1. Moves(s, "idle", 0, sub[s].claim) /\ sub[s].pc = "first_beat"
        /\ hb' = sub[s].t /\ UNCHANGED <<clock, gen, obs>>
    BY <1>10, Fields DEF first_beat
  <2> QED
    BY <2>1, ObsTypes, <1>s DEF Others, Moves, OwnerInv, Held, Owner, Sound, Watched, Attaching
<1>11. CASE call(s)
  <2>1. Calls(s) /\ sub[s].pc = "idle" /\ sub[s].owns_commands
        /\ UNCHANGED <<clock, gen, hb, obs>>
    BY <1>11, Fields DEF call
  <2> QED
    BY <2>1, ObsTypes, <1>s DEF Others, Calls, OwnerInv, Held, Owner, Sound, Watched, Attaching
<1>12. CASE check_claim(s) /\ gen # sub[s].owner_gen
  <2>1. Loses(s) /\ sub[s].pc = "check"
        /\ UNCHANGED <<clock, gen, hb, obs>>
    BY <1>12, Fields DEF check_claim
  <2> QED
    BY <2>1, ObsTypes, <1>s, <1>12
    DEF Others, Loses, OwnerInv, Held, Owner, Sound, Watched, Attaching
<1>13. CASE check_claim(s) /\ gen = sub[s].owner_gen
  <2>1. Moves(s, "now", sub[s].t, sub[s].claim) /\ sub[s].pc = "check"
        /\ UNCHANGED <<clock, gen, hb, obs>>
    BY <1>13, Fields DEF check_claim
  <2> QED
    BY <2>1, ObsTypes, <1>s DEF Others, Moves, OwnerInv, Held, Owner, Sound, Watched, Attaching
<1>14. CASE beat_now(s)
  <2>1. Moves(s, "beat", clock, sub[s].claim) /\ sub[s].pc = "now"
        /\ UNCHANGED <<clock, gen, hb, obs>>
    BY <1>14, Fields DEF beat_now
  <2> QED
    BY <2>1, ObsTypes, <1>s DEF Others, Moves, OwnerInv, Held, Owner, Sound, Watched, Attaching
<1>15. CASE beat(s)
  <2>0. PICK next \in {"idle", "ring"} : Moves(s, next, 0, sub[s].claim)
    BY <1>15, Fields
  <2>1. Moves(s, next, 0, sub[s].claim) /\ sub[s].pc = "beat"
        /\ hb' = sub[s].t /\ UNCHANGED <<clock, gen, obs>>
    BY <1>15, <2>0 DEF beat
  <2> QED
    BY <2>1, ObsTypes, <1>s DEF Others, Moves, OwnerInv, Held, Owner, Sound, Watched, Attaching
<1>16. CASE leave_ring(s)
  <2>1. Moves(s, "idle", sub[s].t, sub[s].claim) /\ sub[s].pc = "ring"
        /\ UNCHANGED <<clock, gen, hb, obs>>
    BY <1>16, Fields DEF leave_ring
  <2> QED
    BY <2>1, ObsTypes, <1>s DEF Others, Moves, OwnerInv, Held, Owner, Sound, Watched, Attaching
<1>17. CASE destroy(s)
  <2>1. Others(s) /\ sub'[s] = Gone /\ sub[s].pc = "idle"
        /\ gen' = (IF sub[s].owns_commands /\ gen = sub[s].owner_gen THEN 0 ELSE gen)
        /\ obs' = Forget(s) /\ UNCHANGED <<clock, hb>>
    BY <1>17, Fields DEF destroy, Release
  <2> QED
    BY <2>1, ObsTypes, <1>g DEF Others, Gone, OwnerInv, Held, Owner, Sound, Watched, Attaching
<1>18. CASE crash(s)
  <2>1. Others(s) /\ sub'[s] = Gone /\ sub[s].pc # "gone"
        /\ obs' = Forget(s) /\ UNCHANGED <<clock, gen, hb>>
    BY <1>18, Fields DEF crash, Live
  <2> QED
    BY <2>1, ObsTypes, <1>g DEF Others, Gone, OwnerInv, Held, Owner, Sound, Watched, Attaching
<1> QED
  BY <1>1, <1>2, <1>3, <1>4, <1>5, <1>6, <1>7, <1>8, <1>9, <1>10, <1>11, <1>12,
     <1>13, <1>14, <1>15, <1>16, <1>17, <1>18 DEF Continues

LEMMA OwnerTick ==
  ASSUME faults' = {}, PastInv, TimeInv, OwnerInv, Watched, tick
  PROVE  OwnerInv' /\ Watched'
<1>0. ~Stalls /\ ~FallsQuiet
  BY DEF tick, Happens
<1>1. /\ clock' = clock + 1 /\ UNCHANGED <<gen, hb, sub, obs>>
      /\ \A s \in Subs : sub[s].pc = "idle" /\ sub[s].owns_commands
                         => clock - sub[s].started < MaxQuiet
      /\ obs.pc \in {"age", "hb_read", "now_read"} => clock - obs.started < MaxStall
  BY <1>0, FieldTypes, ObsTypes DEF tick, Stalls, FallsQuiet, Overlong
<1>2. Held' /\ Judged'
  BY <1>1 DEF OwnerInv, Held, Judged, Owner
<1>3. Fresh'
  BY <1>1, FieldTypes, LullTypes DEF OwnerInv, Fresh, Owner
<1>4. Watched'
  BY <1>1, FieldTypes, ObsTypes DEF Watched, Owner, Attaching
<1> QED
  BY <1>2, <1>3, <1>4 DEF OwnerInv

\* The publisher's look: a settled owner is the owner, and has beaten lately.
LEMMA WatchedObs ==
  ASSUME Steady, faults' = {}, PastInv, TimeInv, OwnerInv, Watched,
         observe \/ observe_age \/ observe_judge \/ observed
  PROVE  Watched'
<1>1. UNCHANGED <<clock, gen, hb, sub>> /\ obs \in ObsRec(clock)
  BY ObsFrame DEF PastInv
<1>2. \A s \in Subs : Owner(s)' = Owner(s) /\ Attaching(s)' = Attaching(s)
  BY <1>1 DEF Owner, Attaching
<1>3. Lull + 2 * MaxStall < Stale
  BY DEF Steady
<1>f. ASSUME obs.settled # {} PROVE clock <= hb + Lull + MaxStall
  <2>1. PICK s \in Subs : Owner(s) /\ ~Attaching(s)
    BY <1>f, ObsTypes DEF Watched
  <2> QED
    BY <2>1, FreshBeat
<1>4. CASE observe
  <2>1. /\ obs'.pc \in {"judged", "age"} /\ ~obs'.stale
        /\ obs'.settled = {s \in Subs : Settled(s)}
        /\ obs'.pc = "age" => obs'.started = clock
    BY <1>4 DEF observe
  <2>2. \A s \in obs'.settled : s \in Subs /\ Owner(s) /\ ~Attaching(s)
    BY <2>1 DEF Settled, Owner
  <2> QED
    BY <1>1, <1>2, <2>1, <2>2, FieldTypes DEF Watched
<1>5. CASE observe_age
  <2>0. PICK first \in {"hb_read", "now_read"} :
          obs' = [obs EXCEPT !.pc = first, !.t = Operand(first)]
    BY <1>5 DEF observe_age
  <2>1. /\ obs.pc = "age" /\ obs'.pc = first /\ obs'.t = Operand(first)
        /\ obs'.started = obs.started /\ obs'.settled = obs.settled
    BY <1>1, <1>5, <2>0 DEF observe_age, ObsRec
  <2>2. ASSUME obs.settled # {} PROVE obs.started <= hb + Lull + MaxStall
    BY <1>f, <2>2, FieldTypes, ObsTypes, LullTypes
  <2> QED
    BY <1>1, <1>2, <2>1, <2>2, ObsTypes DEF Watched, Operand
<1>6. CASE observe_judge
  <2> DEFINE b == Elapsed(obs) >= Stale
  <2>1. obs' = [obs EXCEPT !.pc = "judged", !.t = 0, !.started = 0, !.stale = b]
        /\ obs.pc \in {"hb_read", "now_read"} /\ ~(obs.pc = "now_read" /\ obs.t < hb)
    BY <1>6 DEF observe_judge, Happens, Wraps
  <2>2. ASSUME b
        PROVE  /\ obs.pc = "hb_read" => obs.t + Stale <= clock
               /\ obs.pc = "now_read" => hb + Stale <= clock
    <3>1. Elapsed(obs) \in Int /\ Stale \in Int /\ obs.t \in 0..clock
      BY ClockTypes, ConstantTypes, ObsTypes, FieldTypes DEF Elapsed, Age
    <3>2. ~(Elapsed(obs) < Stale)
      BY <2>2, <3>1
    <3> QED
      BY <2>1, <3>1, <3>2, FieldTypes, ObsTypes, StaleMeans
  <2>3. b => obs.settled = {}
    BY <1>3, <1>f, <2>1, <2>2, ObsTypes, FieldTypes, LullTypes DEF Watched
  <2> HIDE DEF b
  <2>4. obs'.pc = "judged" /\ obs'.stale = b /\ obs'.settled = obs.settled
    BY <1>1, <2>1 DEF ObsRec
  <2> QED
    BY <1>2, <2>3, <2>4, ObsTypes DEF Watched
<1>7. CASE observed
  BY <1>7 DEF observed, NotObserving, Watched
<1> QED
  BY <1>4, <1>5, <1>6, <1>7

LEMMA OwnerStep ==
  ASSUME Steady, faults' = {}, PastInv, TimeInv, TokenInv, OwnerInv, Watched, [Next]_vars
  PROVE  OwnerInv' /\ Watched'
<1>1. CASE observe \/ observe_age \/ observe_judge \/ observed
  <2>1. OwnerInv'
    BY <1>1, ObsFrame DEF OwnerInv, Held, Fresh, Judged, Owner
  <2> QED
    BY <1>1, <2>1, WatchedObs
<1>2. CASE UNCHANGED vars
  BY <1>2 DEF vars, OwnerInv, Held, Fresh, Judged, Owner, Watched, Attaching
<1> QED
  BY <1>1, <1>2, OwnerSub, WatchedSub, OwnerTick DEF Next

CalmInv == PacedInv /\ (faults = {} => OwnerInv /\ Watched)

LEMMA CalmIsPaced ==
  ASSUME CalmInv, faults = {}
  PROVE  PastInv /\ TimeInv /\ TokenInv /\ OwnerInv /\ Watched
BY DEF CalmInv, PacedInv, Paced

LEMMA OwnerInvariant ==
  ASSUME Steady
  PROVE  Spec => []CalmInv
<1>1. Unhurried
  BY ConstantTypes, LullTypes DEF Steady, Unhurried
<1>2. Init => (faults = {} => OwnerInv /\ Watched)
  <2> SUFFICES ASSUME Init PROVE OwnerInv /\ Watched
    OBVIOUS
  <2>1. \A s \in Subs : sub[s].pc = "gone" /\ ~sub[s].owns_commands
    BY DEF Init, Gone
  <2>2. obs.settled = {} /\ obs.pc = "idle"
    BY DEF Init, NotObserving
  <2> QED
    BY <2>1, <2>2 DEF OwnerInv, Held, Fresh, Judged, Watched, Owner
<1>3. ASSUME PacedInv, faults = {} => OwnerInv /\ Watched, [Next]_vars
      PROVE  (faults = {} => OwnerInv /\ Watched)'
  <2> SUFFICES ASSUME faults' = {} PROVE OwnerInv' /\ Watched'
    OBVIOUS
  <2>1. faults = {}
    BY <1>3, FaultsStay
  <2>2. PastInv /\ TimeInv /\ TokenInv /\ OwnerInv /\ Watched
    BY <1>3, <2>1, CalmIsPaced DEF CalmInv
  <2> QED
    BY <1>3, <2>2, OwnerStep
<1>4. Spec => []PacedInv
  BY <1>1, TokenInvariant
<1> QED
  BY <1>2, <1>3, <1>4, PTL DEF Spec, CalmInv

\* The rings are single-producer and single-consumer, and no two subscribers are
\* ever inside: only the holder of the claim passes still_owns_commands, and a
\* claim is never taken from a subscriber that is alive.  Assumed: the longest pause
\* (or call) and two of the longest calls fit in the window.  RingExclusive itself
\* is about histories without a fault: no overlapping attaches, no longer
\* pause or call, and no heartbeat between the two operands of an age.
THEOREM RingsAreExclusive ==
  ASSUME Steady
  PROVE  Spec => []RingExclusive
<1>1. CalmInv => RingExclusive
  BY OneOwner, CalmIsPaced DEF RingExclusive, OneInRings, PastInv, Sound, Owner
<1> QED
  BY <1>1, OwnerInvariant, PTL

\* A command_owner_stale() that returns true is about an owner that is dead: any
\* that was attached when the call began is gone when it returns.  Assumed as for
\* RingsAreExclusive, the window by Steady, a history without a fault by
\* QuietMeansDead: an age that wraps calls a live owner stale.
THEOREM StaleOwnerIsDead ==
  ASSUME Steady
  PROVE  Spec => []QuietMeansDead
<1>1. CalmInv => QuietMeansDead
  BY CalmIsPaced DEF Watched, QuietMeansDead
<1> QED
  BY <1>1, OwnerInvariant, PTL

\* No attach steals the claim of a subscriber that is alive and no destructor of
\* another clears it: the claim changes only as its holder goes.  Assumed as for
\* RingsAreExclusive, the window by Steady, a history without a fault by
\* ClaimKept: a live owner is robbed only by one of the four faults.
THEOREM LiveClaimIsKept ==
  ASSUME Steady
  PROVE  Spec => ClaimKept
<1>1. ASSUME CalmInv, faults = {}, Next, NEW s \in Subs, Owner(s), gen' # gen
      PROVE  sub'[s].pc = "gone"
  <2>0. PastInv /\ TokenInv /\ OwnerInv
    BY <1>1, CalmIsPaced
  <2>1. PICK q \in Subs : cas_succeeds(q) \/ destroy(q)
    BY <1>1
    DEF Next, open, call, crash, Continues, load_gen, load_age, judge_age, take_token,
        cas_fails, first_now, first_beat, check_claim, beat_now, beat, leave_ring, observe, observe_age,
        observe_judge, observed, tick
  <2>2. ~cas_succeeds(q)
    BY <1>1, <2>0 DEF cas_succeeds, OwnerInv, Held
  <2>3. destroy(q) /\ Owner(q)
    BY <1>1, <2>1, <2>2 DEF destroy, Owner
  <2>4. q = s
    BY <1>1, <2>0, <2>3, OneOwner
  <2> QED
    BY <1>1, <2>0, <2>3, <2>4, Fields DEF Gone
<1>2. CalmInv /\ [Next]_vars
      => [faults = {} =>
            \A s \in Subs : (Live(s) /\ sub[s].owns_commands /\ gen = sub[s].owner_gen)
                            => (gen' = gen \/ sub'[s].pc = "gone")]_vars
  BY <1>1 DEF Owner
<1> QED
  BY <1>2, OwnerInvariant, PTL DEF Spec, ClaimKept
=============================================================================
