-------------------------- MODULE CommandRingProofs --------------------------
(***************************************************************************)
(* Proofs about CommandRing, for every ring size that divides the word and *)
(* any number of commands and owners.  The counters wrap, so the invariant *)
(* relates them to the history: head and tail are the numbers of commands  *)
(* pushed and popped modulo the word (CounterInv), the cells between them  *)
(* hold the commands pushed and not yet popped (CellInv), and each end     *)
(* knows about its own cell what it has written or read (SenderInv,        *)
(* ReceiverInv).  IdInv carries the numbering of commands.                 *)
(***************************************************************************)
EXTENDS CommandRing, TLAPS

CounterInv ==
  /\ head = Len(pushed) % Word
  /\ tail = Len(popped) % Word
  /\ Len(popped) <= Len(pushed)
  /\ Len(pushed) - Len(popped) <= Slots
  /\ \A k \in 1 .. Len(popped) : popped[k] = pushed[k]

\* Cell c holds command m (the payload of an empty command is not looked at).
Holds(c, m) ==
  /\ c.id = m.id /\ c.size = m.size
  /\ m.data = IF m.size = 0 THEN 0 ELSE c.data

CellInv ==
  \A k \in 1 .. Len(pushed) :
    k > Len(popped) => Holds(cells[Index(k - 1)], pushed[k])

SenderInv ==
  LET c == cells[Index(Len(pushed))] IN
  SenderInside =>
    /\ Len(pushed) - Len(popped) < Slots
    /\ snd.cmd.size = 0 => snd.cmd.data = 0
    /\ snd.pc \in {"payload", "head"} => c.id = snd.cmd.id /\ c.size = snd.cmd.size
    /\ snd.pc = "head" => Holds(c, snd.cmd)

ReceiverInv ==
  LET m == pushed[Len(popped) + 1] IN
  ReceiverInside =>
    /\ Len(popped) < Len(pushed)
    /\ rcv.pc = "payload" => rcv.out.id = m.id /\ rcv.out.size = m.size
    /\ rcv.pc = "tail" => rcv.out = m

IdInv ==
  /\ calls <= MaxSends
  /\ next_cmd >= 1
  /\ SenderInside => snd.cmd.id = next_cmd /\ next_cmd <= calls
  /\ ~SenderInside => next_cmd <= calls + 1
  /\ pushed # << >> => next_cmd \in {pushed[Len(pushed)].id + 1, 1}
  /\ IdsHaveNoGaps

IInv == TypeOK /\ CounterInv /\ CellInv /\ SenderInv /\ ReceiverInv /\ IdInv

-----------------------------------------------------------------------------
(* Modular arithmetic *)

\* Division with remainder.
LEMMA DivMod ==
  \A a \in Int, w \in Nat \ {0} :
    a \div w \in Int /\ a % w \in 0 .. w - 1 /\ a = w * (a \div w) + (a % w)
OBVIOUS

\* The remainder is unique.
LEMMA ModUnique ==
  \A w \in Nat \ {0}, q \in Int, a \in Int : \A r \in 0 .. w - 1 :
    a = w * q + r => a % w = r
<1> SUFFICES ASSUME NEW w \in Nat \ {0}, NEW q \in Int, NEW a \in Int,
                    NEW r \in 0 .. w - 1, a = w * q + r
             PROVE  a % w = r
  OBVIOUS
<1>1. (w * q + r) % w = r
  OBVIOUS
<1> QED
  BY <1>1

\* Unsigned subtraction gives the distance, wherever the counters wrapped.
LEMMA ModDistance ==
  ASSUME NEW w \in Nat \ {0}, NEW a \in Nat, NEW b \in Nat, b <= a, a - b < w
  PROVE  ((a % w) - (b % w)) % w = a - b
<1> DEFINE p == a \div w
           q == b \div w
           s == a % w
           t == b % w
           d == q - p
           e == a - b
           x == s - t
<1>1. p \in Int /\ s \in 0 .. w - 1 /\ a = w * p + s
  BY DivMod
<1>2. q \in Int /\ t \in 0 .. w - 1 /\ b = w * q + t
  BY DivMod
<1> HIDE DEF p, q, s, t
<1>3. x = w * d + e /\ x \in Int /\ d \in Int
  BY <1>1, <1>2
<1>4. e \in 0 .. w - 1
  OBVIOUS
<1> HIDE DEF d, e, x
<1>5. x % w = e
  BY <1>3, <1>4, ModUnique
<1> QED
  BY <1>5 DEF s, t, x, e

\* Masking a wrapped counter is masking the counter, if the mask divides.
LEMMA ModShift ==
  ASSUME NEW s \in Nat \ {0}, NEW k \in Nat \ {0}, NEW w \in Nat \ {0}, w = k * s,
         NEW a \in Nat, NEW j \in Nat
  PROVE  ((a % w) + j) % s = (a + j) % s
<1> DEFINE p == a \div w
           r == a % w
           y == r + j
           u == y \div s
           v == y % s
           x == a + j
           d == k * p + u
<1>1. p \in Int /\ r \in 0 .. w - 1 /\ a = w * p + r
  <2>1. a \in Int
    OBVIOUS
  <2> QED
    BY <2>1, DivMod, Zenon
<1> HIDE DEF p, r
<1>2. y \in Int
  BY <1>1
<1> HIDE DEF y
<1>3. u \in Int /\ v \in 0 .. s - 1 /\ y = s * u + v
  BY <1>2, DivMod
<1> HIDE DEF u, v
<1>4. x = s * d + v /\ d \in Int /\ x \in Int
  <2>1. w * p = s * (k * p) /\ k * p \in Int
    BY <1>1
  <2>2. s * (k * p) + s * u = s * (k * p + u)
    BY <1>3, <2>1
  <2> QED
    BY <1>1, <1>2, <1>3, <2>1, <2>2 DEF y
<1> HIDE DEF x, d
<1>5. x % s = v
  BY <1>3, <1>4, ModUnique
<1> QED
  BY <1>5 DEF v, y, r, x

\* Incrementing a wrapped counter.
LEMMA ModSucc ==
  ASSUME NEW w \in Nat \ {0}, NEW a \in Nat
  PROVE  ((a % w) + 1) % w = (a + 1) % w
<1> DEFINE p == a \div w
           s == a % w
           x == s + 1
           y == a + 1
           u == x \div w
           v == x % w
           d == p + u
<1>1. p \in Int /\ s \in 0 .. w - 1 /\ a = w * p + s
  BY DivMod
<1> HIDE DEF p, s
<1>2. x \in Int /\ y \in Int
  BY <1>1
<1> HIDE DEF x
<1>3. u \in Int /\ v \in 0 .. w - 1 /\ x = w * u + v
  BY <1>2, DivMod
<1> HIDE DEF u, v
<1>4. y = w * d + v /\ d \in Int
  BY <1>1, <1>3 DEF x
<1> HIDE DEF y, d
<1>5. y % w = v
  BY <1>2, <1>3, <1>4, ModUnique
<1> QED
  BY <1>5 DEF v, x, s, y

\* Fewer than s apart, two counters fall into different cells.
LEMMA ModDistinct ==
  ASSUME NEW s \in Nat \ {0}, NEW a \in Nat, NEW b \in Nat, a < b, b - a < s
  PROVE  a % s # b % s
<1> SUFFICES ASSUME a % s = b % s PROVE FALSE
  OBVIOUS
<1> DEFINE p == a \div s
           q == b \div s
           t == a % s
           d == q - p
<1>1. p \in Int /\ t \in 0 .. s - 1 /\ a = s * p + t
  BY DivMod
<1>2. q \in Int /\ b = s * q + t
  BY DivMod
<1> HIDE DEF p, q, t
<1>3. b - a = s * d /\ d \in Int
  BY <1>1, <1>2
<1> HIDE DEF d
<1>4. d >= 1
  BY <1>3
<1>5. s * d >= s
  BY <1>3, <1>4
<1> QED
  BY <1>3, <1>5

-----------------------------------------------------------------------------
(* The counters, in terms of the history *)

\* Slots divides Word: masking commutes with the wrap-around of a counter.
LEMMA Mask ==
  /\ Slots \in Nat \ {0} /\ Word \in Nat \ {0} /\ Slots < Word
  /\ \A a, j \in Nat : ((a % Word) + j) % Slots = (a + j) % Slots
  /\ \A a \in Nat : (a % Word) % Slots = a % Slots
<1>1. PICK k \in 2 .. Word : Word = k * Slots
  BY CommandRingAssumption
<1>2. Slots \in Nat \ {0} /\ Word \in Nat /\ k \in Nat \ {0}
  BY <1>1, CommandRingAssumption
<1>3. Slots < Word /\ Word \in Nat \ {0}
  BY <1>1, <1>2
<1>4. \A a, j \in Nat : ((a % Word) + j) % Slots = (a + j) % Slots
  BY <1>1, <1>2, <1>3, ModShift, Zenon
<1>5. ASSUME NEW a \in Nat PROVE (a % Word) % Slots = a % Slots
  <2>1. 0 \in Nat
    OBVIOUS
  <2>2. ((a % Word) + 0) % Slots = (a + 0) % Slots
    BY <1>4, <2>1, Zenon
  <2>3. a % Word \in Int /\ a \in Int
    BY <1>3
  <2> QED
    BY <2>2, <2>3
<1> QED
  BY <1>2, <1>3, <1>4, <1>5

\* Where the counters point and what the full and empty tests compute.
LEMMA Counters ==
  ASSUME TypeOK, CounterInv
  PROVE  /\ Len(pushed) \in Nat /\ Len(popped) \in Nat
         /\ Index(head) = Index(Len(pushed))
         /\ Index(tail) = Index(Len(popped))
         /\ Used(head, tail) = Len(pushed) - Len(popped)
         /\ tail = head <=> Len(popped) = Len(pushed)
<1> DEFINE n == Len(pushed)
           m == Len(popped)
<1>1. n \in Nat /\ m \in Nat
  BY DEF TypeOK
<1> HIDE DEF n, m
<1>3. Slots \in Nat \ {0} /\ Word \in Nat \ {0} /\ Slots < Word
  BY Mask
<1>5. head = n % Word /\ tail = m % Word /\ m <= n /\ n - m < Word
  <2>1. n - m <= Slots
    BY DEF CounterInv, n, m
  <2> QED
    BY <1>1, <1>3, <2>1 DEF CounterInv, n, m
<1>6. (n % Word) % Slots = n % Slots /\ (m % Word) % Slots = m % Slots
  BY <1>1, Mask
<1>7. ((n % Word) - (m % Word)) % Word = n - m
  BY <1>1, <1>3, <1>5, ModDistance, Zenon
<1>8. Used(head, tail) = n - m
  BY <1>5, <1>7 DEF Used
<1>9. tail = head => m = n
  <2>1. 0 % Word = 0 /\ n % Word \in Int
    BY <1>1, <1>3
  <2> QED
    BY <1>1, <1>5, <1>7, <2>1
<1> QED
  BY <1>1, <1>5, <1>6, <1>8, <1>9 DEF Index, n, m

\* Cells are found inside the ring, and the ones in use are distinct.
LEMMA Cells ==
  /\ \A a \in Nat : Index(a) \in 0 .. Slots - 1
  /\ \A a, b \in Nat : a < b /\ b - a < Slots => Index(a) # Index(b)
<1>1. ASSUME NEW a \in Nat PROVE Index(a) \in 0 .. Slots - 1
  BY Mask DEF Index
<1>2. ASSUME NEW a \in Nat, NEW b \in Nat, a < b, b - a < Slots
      PROVE  Index(a) # Index(b)
  <2>1. Slots \in Nat \ {0}
    BY Mask
  <2>2. a % Slots # b % Slots
    BY <1>2, <2>1, ModDistinct
  <2> QED
    BY <2>2 DEF Index
<1> QED
  BY <1>1, <1>2

-----------------------------------------------------------------------------
(* The invariant is inductive *)

\* The empty ring.
LEMMA InitIInv == Init => IInv
<1> SUFFICES ASSUME Init PROVE IInv
  OBVIOUS
<1> USE CommandRingAssumption
<1>0. Slots \in Nat \ {0} /\ Word \in Nat \ {0}
  BY Mask
<1>1. NoCommand \in Command
  BY DEF NoCommand, Command
<1>2. TypeOK
  BY <1>0, <1>1 DEF Init, TypeOK, Idle, Waiting
<1>3. CounterInv
  <2>1. 0 % Word = 0
    BY <1>0
  <2> QED
    BY <1>0, <2>1 DEF Init, CounterInv
<1>4. CellInv /\ SenderInv /\ ReceiverInv
  BY DEF Init, CellInv, SenderInv, ReceiverInv, SenderInside, ReceiverInside, Idle, Waiting
<1>5. IdInv
  BY DEF Init, IdInv, IdsHaveNoGaps, SenderInside, Idle
<1> QED
  BY <1>2, <1>3, <1>4, <1>5 DEF IInv

\* A send that is refused, or that finds room.
LEMMA SendStep ==
  ASSUME IInv, NEW n \in 0 .. MaxBytes + 1, send(n) \/ send_refused(n)
  PROVE  IInv'
<1> USE CommandRingAssumption DEF IInv
<1>1. CASE send_refused(n)
  <2>1. TypeOK'
    BY <1>1 DEF TypeOK, send_refused, rcvVars
  <2>2. IdInv'
    BY <1>1 DEF TypeOK, send_refused, rcvVars, IdInv, IdsHaveNoGaps, SenderInside
  <2> QED
    BY <1>1, <2>1, <2>2 DEF send_refused, rcvVars, CounterInv, CellInv, SenderInv,
       ReceiverInv, SenderInside, ReceiverInside
<1>2. CASE send(n)
  <2>1. /\ snd'.pc = "header" /\ snd'.cmd = Content(next_cmd, n, calls + 1)
        /\ next_cmd <= calls + 1 /\ n <= MaxBytes /\ calls + 1 <= MaxSends
    BY <1>2 DEF send, IdInv, SenderInside, TypeOK
  <2>2. Content(next_cmd, n, calls + 1) \in Command
    <3>1. next_cmd \in 0 .. MaxSends /\ n \in 0 .. MaxBytes /\ calls + 1 \in 0 .. MaxSends
      BY <2>1 DEF TypeOK
    <3> QED
      BY <3>1 DEF Content, Command
  <2>3. TypeOK'
    <3>1. snd' \in [pc : {"idle", "header", "payload", "head"}, cmd : Command]
      BY <1>2, <2>2 DEF send
    <3>2. UNCHANGED <<owner_end, head, tail, cells, rcv, got, next_cmd, dropped, handoffs,
                      pushed, popped>> /\ calls' \in Nat
      BY <1>2 DEF TypeOK, send, rcvVars
    <3> QED
      BY <3>1, <3>2 DEF TypeOK
  <2>4. IdInv'
    BY <1>2, <2>1 DEF TypeOK, send, rcvVars, IdInv, IdsHaveNoGaps, SenderInside, Content
  <2>5. SenderInv'
    <3>1. ~(Len(pushed) - Len(popped) >= Slots)
      BY <1>2, Counters DEF send, Full
    <3>2. Len(pushed) - Len(popped) < Slots
      BY <3>1, Counters
    <3> QED
      BY <1>2, <2>1, <3>2 DEF send, SenderInv, Content
  <2> QED
    BY <1>2, <2>3, <2>4, <2>5 DEF send, rcvVars, CounterInv, CellInv, ReceiverInv,
       ReceiverInside
<1> QED
  BY <1>1, <1>2

\* Writing a part of the cell at head disturbs no command still queued.
LEMMA WriteStep ==
  ASSUME IInv, push_header \/ push_payload
  PROVE  IInv'
<1> USE DEF IInv
<1>c. MaxSends \in Nat /\ MaxBytes \in Nat /\ Slots \in Nat /\ Word \in Nat
  BY CommandRingAssumption
<1> DEFINE h == Index(Len(pushed))
<1>0. /\ Len(pushed) \in Nat /\ Len(popped) \in Nat /\ Index(head) = h
      /\ h \in 0 .. Slots - 1 /\ SenderInside
      /\ snd.cmd \in Command /\ cells[h] \in Command
      /\ cells \in [0 .. Slots - 1 -> Command]
  BY Counters, Cells DEF push_header, push_payload, SenderInside, TypeOK
<1> HIDE DEF h
<1>1. \E c \in Command : /\ cells' = [cells EXCEPT ![h] = c]
                         /\ c.id = snd.cmd.id /\ c.size = snd.cmd.size
                         /\ snd'.pc = "head" => Holds(c, snd.cmd)
  <2>1. CASE push_header
    <3> DEFINE c == [id |-> snd.cmd.id, size |-> snd.cmd.size, data |-> cells[h].data]
    <3>1. c \in Command
      BY <1>0 DEF Command
    <3> QED
      BY <1>0, <2>1, <3>1 DEF push_header
  <2>2. CASE push_payload
    <3> DEFINE c == [id |-> cells[h].id, size |-> cells[h].size,
                     data |-> IF snd.cmd.size = 0 THEN cells[h].data ELSE snd.cmd.data]
    <3>1. c \in Command
      BY <1>0 DEF Command
    <3>2. cells[h].id = snd.cmd.id /\ cells[h].size = snd.cmd.size
      BY <1>0, <2>2 DEF push_payload, SenderInv, h
    <3>3. snd.cmd.size = 0 => snd.cmd.data = 0
      BY <1>0 DEF SenderInv
    <3> QED
      BY <1>0, <2>2, <3>1, <3>2, <3>3 DEF push_payload, Holds
  <2> QED
    BY <2>1, <2>2
<1>2. /\ snd'.cmd = snd.cmd /\ snd'.pc \in {"payload", "head"}
      /\ snd' \in [pc : {"idle", "header", "payload", "head"}, cmd : Command]
      /\ UNCHANGED <<owner_end, head, tail, next_cmd, dropped, calls, rcv, got,
                     handoffs, pushed, popped>>
  BY <1>0 DEF push_header, push_payload, rcvVars
<1>3. TypeOK'
  BY <1>0, <1>1, <1>2 DEF TypeOK
<1>4. CounterInv' /\ ReceiverInv'
  BY <1>2 DEF CounterInv, ReceiverInv, ReceiverInside
<1>5. IdInv'
  BY <1>0, <1>2 DEF IdInv, IdsHaveNoGaps, SenderInside
<1>6. Len(pushed) - Len(popped) < Slots
  BY <1>0 DEF SenderInv
<1>7. CellInv'
  <2> SUFFICES ASSUME NEW k \in 1 .. Len(pushed), k > Len(popped)
               PROVE  Holds(cells'[Index(k - 1)], pushed[k])
    BY <1>2 DEF CellInv
  <2>1. Holds(cells[Index(k - 1)], pushed[k])
    BY DEF CellInv
  <2>2. k - 1 \in Nat /\ k - 1 < Len(pushed) /\ Len(pushed) - (k - 1) < Slots
    BY <1>c, <1>0, <1>6
  <2>3. Index(k - 1) # h
    BY <1>0, <2>2, Cells DEF h
  <2>4. cells'[Index(k - 1)] = cells[Index(k - 1)]
    BY <1>0, <1>1, <2>2, <2>3, Cells
  <2> QED
    BY <2>1, <2>4
<1>8. SenderInv'
  <2>1. snd.cmd.size = 0 => snd.cmd.data = 0
    BY <1>0 DEF SenderInv
  <2>2. /\ cells'[h].id = snd.cmd.id /\ cells'[h].size = snd.cmd.size
        /\ snd'.pc = "head" => Holds(cells'[h], snd.cmd)
    BY <1>0, <1>1
  <2> QED
    BY <1>2, <1>6, <2>1, <2>2 DEF SenderInv, h
<1> QED
  BY <1>3, <1>4, <1>5, <1>7, <1>8

\* The command becomes visible.
LEMMA PushStep ==
  ASSUME IInv, push_head
  PROVE  IInv'
<1> USE DEF IInv
<1>c. MaxSends \in Nat /\ MaxBytes \in Nat /\ Slots \in Nat /\ Word \in Nat
  BY CommandRingAssumption
<1> DEFINE n == Len(pushed)
<1>0. /\ n \in Nat /\ Len(popped) \in Nat /\ SenderInside /\ snd.cmd \in Command
      /\ pushed \in Seq(Command) /\ n - Len(popped) < Slots
      /\ Slots \in Nat \ {0} /\ Word \in Nat \ {0}
  BY Counters, Mask DEF push_head, SenderInside, SenderInv, TypeOK
<1>1. /\ pushed' \in Seq(Command) /\ Len(pushed') = n + 1 /\ pushed'[n + 1] = snd.cmd
      /\ \A k \in 1 .. n : pushed'[k] = pushed[k]
  BY <1>0 DEF push_head
<1>2. head' = (n + 1) % Word /\ head' \in 0 .. Word - 1
  <2>1. ((n % Word) + 1) % Word = (n + 1) % Word
    BY <1>0, ModSucc
  <2>2. (n + 1) % Word \in 0 .. Word - 1
    BY <1>0
  <2> QED
    BY <2>1, <2>2 DEF push_head, CounterInv
<1> HIDE DEF n
<1>3. TypeOK'
  <2>1. NoCommand \in Command
    BY <1>c DEF NoCommand, Command
  <2> QED
    BY <1>1, <1>2, <2>1 DEF TypeOK, push_head, rcvVars, Idle
<1>4. CounterInv'
  <2>1. head' = Len(pushed') % Word /\ tail' = Len(popped') % Word
    BY <1>1, <1>2 DEF CounterInv, push_head
  <2>2. Len(popped) <= n /\ \A k \in 1 .. Len(popped) : popped[k] = pushed[k]
    BY DEF CounterInv, n
  <2>3. \A k \in 1 .. Len(popped) : popped[k] = pushed'[k]
    BY <1>0, <1>1, <2>2
  <2>4. popped' = popped
    BY DEF push_head
  <2> QED
    BY <1>0, <1>1, <2>1, <2>2, <2>3, <2>4 DEF CounterInv
<1>5. CellInv'
  <2> SUFFICES ASSUME NEW k \in 1 .. n + 1, k > Len(popped)
               PROVE  Holds(cells[Index(k - 1)], pushed'[k])
    BY <1>1 DEF CellInv, push_head
  <2>1. CASE k = n + 1
    <3>1. Holds(cells[Index(n)], snd.cmd) /\ n + 1 - 1 = n
      BY <1>0 DEF SenderInv, push_head, n
    <3> QED
      BY <1>0, <1>1, <2>1, <3>1
  <2>2. CASE k # n + 1
    BY <1>0, <1>1, <2>2 DEF CellInv, n
  <2> QED
    BY <2>1, <2>2
<1>6. SenderInv'
  BY DEF SenderInv, SenderInside, push_head, Idle
<1>7. ReceiverInv'
  <2>1. ReceiverInside => pushed'[Len(popped) + 1] = pushed[Len(popped) + 1]
    BY <1>0, <1>1 DEF ReceiverInv, n
  <2> QED
    BY <1>0, <1>1, <2>1 DEF ReceiverInv, ReceiverInside, push_head, rcvVars, n
<1>8. IdInv'
  <2>1. next_cmd <= calls /\ snd.cmd.id = next_cmd /\ next_cmd' = next_cmd + 1
        /\ ~SenderInside'
    BY <1>0 DEF IdInv, push_head, SenderInside, Idle
  <2>2. IdsHaveNoGaps'
    <3> SUFFICES ASSUME NEW k \in 1 .. n
                 PROVE  pushed'[k + 1].id \in {pushed'[k].id + 1, 1}
      BY <1>0, <1>1 DEF IdsHaveNoGaps
    <3>1. CASE k = n
      BY <1>0, <1>1, <2>1, <3>1 DEF IdInv, n
    <3>2. CASE k # n
      <4>1. k \in 1 .. n - 1 /\ k + 1 \in 1 .. n
        BY <1>0, <3>2
      <4> QED
        BY <1>1, <4>1 DEF IdInv, IdsHaveNoGaps, n
    <3> QED
      BY <3>1, <3>2
  <2> QED
    BY <1>0, <1>1, <2>1, <2>2 DEF IdInv, push_head, TypeOK
<1> QED
  BY <1>3, <1>4, <1>5, <1>6, <1>7, <1>8

\* A receive that finds a command, and the two reads of its cell.
LEMMA ReadStep ==
  ASSUME IInv, receive \/ pop_header \/ pop_payload
  PROVE  IInv'
<1> USE DEF IInv
<1>c. MaxSends \in Nat /\ MaxBytes \in Nat /\ Slots \in Nat /\ Word \in Nat
  BY CommandRingAssumption
<1> DEFINE t == Len(popped)
           c == cells[Index(t)]
           m == pushed[t + 1]
<1>0. Len(pushed) \in Nat /\ t \in Nat /\ Index(tail) = Index(t) /\ c \in Command
  BY Counters, Cells DEF TypeOK
<1>1. UNCHANGED <<owner_end, head, tail, cells, snd, next_cmd, dropped, calls, got,
                handoffs, pushed, popped>>
  BY DEF receive, pop_header, pop_payload, sndVars
<1>2. t < Len(pushed)
  <2>1. CASE receive
    <3>1. tail # head
      BY <2>1 DEF receive, Empty
    <3>2. Len(popped) # Len(pushed) /\ Len(popped) <= Len(pushed)
      BY <3>1, Counters DEF CounterInv
    <3> QED
      BY <1>0, <3>2
  <2>2. CASE pop_header \/ pop_payload
    BY <2>2 DEF pop_header, pop_payload, ReceiverInv, ReceiverInside
  <2> QED
    BY <2>1, <2>2
<1>3. Holds(c, m) /\ t + 1 - 1 = t /\ t + 1 \in 1 .. Len(pushed)
  BY <1>0, <1>2 DEF CellInv
<1>4. m \in Command
  BY <1>0, <1>3 DEF TypeOK
<1>5. /\ rcv' \in [pc : {"idle", "header", "payload", "tail"}, out : Command]
      /\ rcv'.pc \in {"header", "payload", "tail"}
      /\ rcv'.pc = "payload" => rcv'.out.id = m.id /\ rcv'.out.size = m.size
      /\ rcv'.pc = "tail" => rcv'.out = m
  <2>1. CASE receive
    BY <2>1 DEF receive, TypeOK
  <2>2. CASE pop_header
    <3>1. rcv' = [pc |-> "payload", out |-> [id |-> c.id, data |-> 0, size |-> c.size]]
      BY <1>c, <1>0, <2>2 DEF pop_header, Command
    <3>2. [id |-> c.id, data |-> 0, size |-> c.size] \in Command
      BY <1>c, <1>0 DEF Command
    <3> QED
      BY <1>3, <3>1, <3>2 DEF Holds
  <2>3. CASE pop_payload
    <3>1. rcv.out.id = m.id /\ rcv.out.size = m.size
      BY <2>3 DEF pop_payload, ReceiverInv, ReceiverInside
    <3>2. rcv' = [pc |-> "tail", out |-> Content(m.id, m.size, c.data)]
      BY <1>0, <2>3, <3>1 DEF pop_payload
    <3>3. Content(m.id, m.size, c.data) = m
      BY <1>3, <1>4 DEF Content, Holds, Command
    <3> QED
      BY <1>4, <3>2, <3>3
  <2> QED
    BY <2>1, <2>2, <2>3
<1>6. ReceiverInv'
  BY <1>1, <1>2, <1>5 DEF ReceiverInv
<1>7. TypeOK'
  BY <1>1, <1>5 DEF TypeOK
<1> QED
  BY <1>1, <1>6, <1>7 DEF CounterInv, CellInv, SenderInv, IdInv, IdsHaveNoGaps, SenderInside

\* The cell is given back.
LEMMA TailStep ==
  ASSUME IInv, pop_tail
  PROVE  IInv'
<1> USE DEF IInv
<1>c. MaxSends \in Nat /\ MaxBytes \in Nat /\ Slots \in Nat /\ Word \in Nat \ {0}
  BY CommandRingAssumption, Mask
<1> DEFINE t == Len(popped)
<1>0. /\ Len(pushed) \in Nat /\ t \in Nat /\ popped \in Seq(Command)
      /\ t < Len(pushed) /\ rcv.out = pushed[t + 1] /\ rcv.out \in Command
  BY Counters DEF TypeOK, ReceiverInv, ReceiverInside, pop_tail
<1>1. /\ popped' \in Seq(Command) /\ Len(popped') = t + 1 /\ popped'[t + 1] = rcv.out
      /\ \A k \in 1 .. t : popped'[k] = popped[k]
  BY <1>0 DEF pop_tail
<1>2. tail' = (t + 1) % Word /\ tail' \in 0 .. Word - 1
  <2>1. ((t % Word) + 1) % Word = (t + 1) % Word
    BY <1>c, <1>0, ModSucc
  <2>2. (t + 1) % Word \in 0 .. Word - 1
    BY <1>c, <1>0
  <2> QED
    BY <2>1, <2>2 DEF pop_tail, CounterInv
<1> HIDE DEF t
<1>3. TypeOK'
  <2>1. NoCommand \in Command
    BY <1>c DEF NoCommand, Command
  <2> QED
    BY <1>0, <1>1, <1>2, <2>1 DEF TypeOK, pop_tail, sndVars, Waiting
<1>4. CounterInv'
  <2>1. head' = Len(pushed') % Word /\ tail' = Len(popped') % Word /\ pushed' = pushed
    BY <1>1, <1>2 DEF CounterInv, pop_tail
  <2>2. Len(pushed) - t <= Slots /\ \A k \in 1 .. t : popped[k] = pushed[k]
    BY DEF CounterInv, t
  <2>3. \A k \in 1 .. t + 1 : popped'[k] = pushed[k]
    BY <1>0, <1>1, <2>2
  <2> QED
    BY <1>c, <1>0, <1>1, <2>1, <2>2, <2>3 DEF CounterInv
<1>5. CellInv'
  BY <1>0, <1>1 DEF CellInv, pop_tail, t
<1>6. SenderInv'
  BY <1>c, <1>0, <1>1 DEF SenderInv, SenderInside, pop_tail, sndVars, t
<1>7. ReceiverInv'
  BY DEF ReceiverInv, ReceiverInside, pop_tail, Waiting
<1>8. IdInv'
  BY DEF IdInv, IdsHaveNoGaps, SenderInside, pop_tail, sndVars
<1> QED
  BY <1>3, <1>4, <1>5, <1>6, <1>7, <1>8

\* The owner is replaced: whatever it was doing, the ring is consistent.
LEMMA HandoffStep ==
  ASSUME IInv, handoff
  PROVE  IInv'
<1> USE CommandRingAssumption DEF IInv
<1>1. NoCommand \in Command
  BY DEF NoCommand, Command
<1>2. TypeOK'
  BY <1>1 DEF TypeOK, handoff, Idle, Waiting
<1>3. SenderInv' /\ ReceiverInv'
  BY DEF handoff, SenderInv, ReceiverInv, SenderInside, ReceiverInside, Idle, Waiting
<1>4. IdInv'
  BY DEF handoff, IdInv, IdsHaveNoGaps, SenderInside, Idle, TypeOK
<1> QED
  BY <1>2, <1>3, <1>4 DEF handoff, CounterInv, CellInv

-----------------------------------------------------------------------------
(* The theorems *)

\* The invariant is inductive.
THEOREM Inductive == IInv /\ [Next]_vars => IInv'
<1> SUFFICES ASSUME IInv, [Next]_vars PROVE IInv'
  OBVIOUS
<1>1. CASE Sender
  BY <1>1, SendStep, WriteStep, PushStep DEF Sender
<1>2. CASE receive \/ PopStep
  BY <1>2, ReadStep, TailStep DEF PopStep
<1>3. CASE handoff
  BY <1>3, HandoffStep
<1>4. CASE UNCHANGED vars
  BY <1>4 DEF vars, sndVars, rcvVars, IInv, TypeOK, CounterInv, CellInv, SenderInv, ReceiverInv,
              IdInv, IdsHaveNoGaps, SenderInside, ReceiverInside
<1> QED
  BY <1>1, <1>2, <1>3, <1>4 DEF Next, Receiver, receive_empty

\* It holds in every state the two ends and their successors can reach.
THEOREM Invariance == Spec => []IInv
BY InitIInv, Inductive, PTL DEF Spec

\* The counters and the cells stay within their types.
THEOREM TypeCorrect == Spec => []TypeOK
<1>1. IInv => TypeOK
  BY DEF IInv
<1> QED
  BY <1>1, Invariance, PTL

\* LLRing never lets push and pop into the same cell, for any ring size: the
\* plain fields of a command need no synchronisation of their own.
THEOREM NoCellRace == Spec => []CellExclusive
<1>1. ASSUME IInv PROVE CellExclusive
  <2> SUFFICES ASSUME SenderInside, ReceiverInside PROVE Index(head) # Index(tail)
    BY DEF CellExclusive
  <2>1. Len(popped) < Len(pushed) /\ Len(pushed) - Len(popped) < Slots
    BY <1>1 DEF IInv, SenderInv, ReceiverInv
  <2>2. Index(Len(popped)) # Index(Len(pushed))
    BY <1>1, <2>1, Counters, Cells DEF IInv
  <2> QED
    BY <1>1, <2>2, Counters DEF IInv
<1> QED
  BY <1>1, Invariance, PTL

\* send() and receive() lose, repeat, reorder and alter nothing, also when
\* the counters wrap and when the owner dies inside a call.
THEOREM LosslessFifo == Spec => []ExactlyOnceInOrder
<1>1. IInv => ExactlyOnceInOrder
  BY DEF IInv, CounterInv, ExactlyOnceInOrder
<1> QED
  BY <1>1, Invariance, PTL

\* Refused sends use up no id.
THEOREM GaplessIds == Spec => []IdsHaveNoGaps
<1>1. IInv => IdsHaveNoGaps
  BY DEF IInv, IdInv
<1> QED
  BY <1>1, Invariance, PTL

-----------------------------------------------------------------------------
(* Refinement *)

\* The queue of BoundedFifo, in terms of the history.
Pending == [i \in 1 .. Len(pushed) - Len(popped) |-> pushed[Len(popped) + i]]

QueueInv == Queued = Pending

\* The cells between tail and head hold exactly that queue.
LEMMA QueuedIsPending == IInv => QueueInv
<1> SUFFICES ASSUME IInv PROVE Queued = Pending
  BY DEF QueueInv
<1>0. /\ Len(pushed) \in Nat /\ Len(popped) \in Nat /\ pushed \in Seq(Command)
      /\ Used(head, tail) = Len(pushed) - Len(popped) /\ tail = Len(popped) % Word
  BY Counters DEF IInv, TypeOK, CounterInv
<1>1. ASSUME NEW i \in 1 .. Len(pushed) - Len(popped)
      PROVE  LET c == cells[Index(tail + i - 1)] IN
               Content(c.id, c.size, c.data) = pushed[Len(popped) + i]
  <2> DEFINE k == Len(popped) + i
  <2>1. k \in 1 .. Len(pushed) /\ k > Len(popped) /\ i - 1 \in Nat
    BY <1>0
  <2>2. Index(tail + i - 1) = Index(k - 1)
    <3>1. ((Len(popped) % Word) + (i - 1)) % Slots = (Len(popped) + (i - 1)) % Slots
      BY <1>0, <2>1, Mask
    <3>2. tail \in Int
      BY DEF IInv, TypeOK
    <3>3. tail + i - 1 = tail + (i - 1) /\ k - 1 = Len(popped) + (i - 1)
      BY <1>0, <3>2
    <3> QED
      BY <1>0, <3>1, <3>3 DEF Index
  <2>3. Holds(cells[Index(k - 1)], pushed[k]) /\ pushed[k] \in Command
    BY <1>0, <2>1 DEF IInv, CellInv
  <2> QED
    BY <2>2, <2>3 DEF Holds, Content, Command
<1> QED
  BY <1>0, <1>1 DEF Queued, Pending

\* Every step of the ring is a Put, a Get or a stutter of the queue.
LEMMA RefinesStep ==
  ASSUME IInv, QueueInv, QueueInv', [Next]_vars
  PROVE  [Fifo!Next]_(Fifo!vars)
<1>0. Queued = Pending /\ Queued' = Pending'
  BY DEF QueueInv
<1>1. /\ Len(pushed) \in Nat /\ Len(popped) \in Nat /\ Len(popped) <= Len(pushed)
      /\ pushed \in Seq(Command) /\ popped \in Seq(Command)
      /\ snd.cmd \in Command
  <2>1. pushed \in Seq(Command) /\ popped \in Seq(Command) /\ snd.cmd \in Command
    BY DEF IInv, TypeOK
  <2>2. Len(popped) <= Len(pushed)
    BY DEF IInv, CounterInv
  <2> QED
    BY <2>1, <2>2
<1>2. CASE push_head
  <2>1. /\ pushed' = Append(pushed, snd.cmd) /\ popped' = popped /\ got' = got
    BY <1>2 DEF push_head, rcvVars
  <2>2. Len(Pending) = Len(pushed) - Len(popped) /\ Len(Pending) < Slots
    BY <1>1, <1>2 DEF Pending, IInv, SenderInv, SenderInside, push_head
  <2>3. Pending' = Append(Pending, snd.cmd)
    BY <1>1, <2>1 DEF Pending
  <2>4. Fifo!Put(snd.cmd)
    BY <1>0, <2>1, <2>2, <2>3 DEF Fifo!Put
  <2> QED
    BY <1>1, <2>4 DEF Fifo!Next
<1>3. CASE pop_tail
  <2>1. /\ pushed' = pushed /\ popped' = Append(popped, rcv.out) /\ got' = rcv.out
        /\ rcv.out = pushed[Len(popped) + 1] /\ Len(popped) < Len(pushed)
    BY <1>3 DEF pop_tail, IInv, ReceiverInv, ReceiverInside
  <2>2. Pending # << >> /\ Head(Pending) = rcv.out
    <3>1. Len(pushed) - Len(popped) \in Nat /\ 1 \in 1 .. Len(pushed) - Len(popped)
      BY <1>1, <2>1
    <3>2. /\ Len(Pending) = Len(pushed) - Len(popped)
          /\ Pending[1] = pushed[Len(popped) + 1]
      BY <3>1 DEF Pending
    <3>3. Pending # << >>
      BY <3>1, <3>2
    <3> QED
      BY <2>1, <3>2, <3>3
  <2>3. Pending' = Tail(Pending)
    BY <1>1, <2>1 DEF Pending
  <2>4. Fifo!Get
    BY <1>0, <2>1, <2>2, <2>3 DEF Fifo!Get
  <2> QED
    BY <2>4 DEF Fifo!Next
<1>4. CASE pushed' = pushed /\ popped' = popped /\ got' = got
  BY <1>0, <1>4 DEF Pending, Fifo!vars
<1> QED
  BY <1>2, <1>3, <1>4 DEF Next, Sender, send, send_refused, push_header, push_payload,
     Receiver, receive, receive_empty, PopStep, pop_header, pop_payload, handoff, vars,
     sndVars, rcvVars

\* The ring in shared memory implements the bounded FIFO queue.
THEOREM Refinement == Spec => ImplementsFifo
<1>1. Init => Fifo!Init
  <2> SUFFICES ASSUME Init PROVE Fifo!Init
    OBVIOUS
  <2>1. Queued = Pending
    BY InitIInv, QueuedIsPending DEF QueueInv
  <2>2. Pending = << >>
    BY DEF Init, Pending
  <2> QED
    BY <2>1, <2>2 DEF Init, Fifo!Init, Fifo!NoCommand, NoCommand
<1>2. IInv /\ QueueInv /\ QueueInv' /\ [Next]_vars => [Fifo!Next]_(Fifo!vars)
  BY RefinesStep
<1>3. IInv => QueueInv
  BY QueuedIsPending
<1> QED
  BY <1>1, <1>2, <1>3, Invariance, PTL DEF Spec, ImplementsFifo, Fifo!Spec
=============================================================================
