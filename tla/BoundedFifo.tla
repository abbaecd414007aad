---------------------------- MODULE BoundedFifo ----------------------------
(***************************************************************************)
(* What one direction of the command channel promises its two ends: a      *)
(* first-in first-out queue of at most Bound commands.  Nothing is lost,   *)
(* duplicated, reordered or altered on the way; a full queue refuses.      *)
(***************************************************************************)
EXTENDS Naturals, Sequences

CONSTANTS Bound,    \* LLConfig::command_slots
          Command   \* the commands that can be sent

VARIABLES queue,    \* commands sent and not yet received
          got       \* the command the last successful receive returned

vars == <<queue, got>>

NoCommand == [id |-> 0, size |-> 0, data |-> 0]

Init == queue = << >> /\ got = NoCommand

Put(c) == /\ Len(queue) < Bound
          /\ queue' = Append(queue, c)
          /\ UNCHANGED got

Get == /\ queue # << >>
       /\ got' = Head(queue)
       /\ queue' = Tail(queue)

Next == (\E c \in Command : Put(c)) \/ Get

Spec == Init /\ [][Next]_vars
=============================================================================
