---------------------------- MODULE ConsoleProofs ----------------------------
(***************************************************************************)
(* Proof about Console: what print!, s_handler and the panic handler say   *)
(* on a hart reaches the line in order and without a gap, for any number   *)
(* of harts and messages of any length.                                    *)
(***************************************************************************)
EXTENDS Console, TLAPS

Kinds == {"main", "trap", "panic"}
Sayings == [hart : Harts, kind : Kinds, number : Nat, byte : Nat]

ConsoleTypes ==
  /\ uart \in {"reset", "latch", "set", "ready"}
  /\ line \in Seq(Sayings) /\ lost \subseteq Sayings
  /\ kind \in [Harts -> Kinds] /\ number \in [Harts -> Nat] /\ pos \in [Harts -> Nat]
  /\ pc \in [Harts -> {"init", "idle", "lock", "put", "stopped"}]

(* What a hart is about where it is; until the UART is ready hart 0 is in  *)
(* Uart::init and has not printed.                                         *)
Stages ==
  /\ uart # "ready" => pc[0] = "init"
  /\ \A h \in Harts :
       /\ pos[h] <= Length
       /\ pc[h] = "init" => h = 0 /\ kind[h] = "main" /\ number[h] = 0
       /\ pc[h] = "idle" => kind[h] = "main"
       /\ pc[h] = "stopped" => kind[h] = "panic" /\ pos[h] = Length
       /\ pc[h] = "lock" => pos[h] = 0
       /\ kind[h] # "main" => number[h] = 1

(* What hart h has said lies before what it will say next. *)
BehindNow(h) ==
  \A a \in Said(h) :
    /\ kind[h] = "main" => a.kind = "main" /\ a.number <= number[h]
    /\ kind[h] = "trap" => a.kind # "panic"
    /\ a.kind = "trap" => a.number = 1
    /\ pc[h] \in {"lock", "put"} => Before(a, Byte(h, kind[h], number[h], pos[h] + 1))

(* A message begins when the one before it is complete: main's after       *)
(* main's, a panic's after the trap's.                                     *)
CompleteBefore(h) ==
  /\ pc[h] \in {"lock", "put"} /\ kind[h] = "main" /\ number[h] > 1 =>
       Byte(h, "main", number[h] - 1, Length) \in Said(h)
  /\ kind[h] = "panic" =>
       \A t \in Said(h) : t.kind = "trap" => Byte(h, "trap", t.number, Length) \in Said(h)

HartSays(h) ==
  InOrder(h) /\ NoneSkipped(h) /\ UpToDate(h) /\ BehindNow(h) /\ CompleteBefore(h)

ConsoleInv ==
  /\ ConsoleTypes /\ Stages
  /\ \A h \in Harts : HartSays(h)
  /\ \A b \in lost : b.hart # 0

-----------------------------------------------------------------------------
(* A hart that does nothing, and of which nothing is put, says what it     *)
(* said.                                                                   *)
LEMMA SaysTheSame ==
  ASSUME NEW h, HartSays(h), InOrder(h)', Said(h)' = Said(h),
         kind'[h] = kind[h], number'[h] = number[h], pc'[h] = pc[h], pos'[h] = pos[h]
  PROVE  HartSays(h)'
<1>1. NoneSkipped(h)'
  BY DEF HartSays, NoneSkipped
<1>2. UpToDate(h)' /\ CompleteBefore(h)'
  BY DEF HartSays, UpToDate, CompleteBefore
<1>3. BehindNow(h)'
  BY DEF HartSays, BehindNow
<1>. QED
  BY <1>1, <1>2, <1>3 DEF HartSays

(* Nothing put: what has been said stays as it is. *)
LEMMA NothingPut ==
  ASSUME ConsoleInv, UNCHANGED <<line, lost>>, NEW h \in Harts
  PROVE  Said(h)' = Said(h) /\ InOrder(h)' /\ NoneSkipped(h)'
<1>1. Sent(h)' = Sent(h)
  BY DEF Sent
<1>2. Said(h)' = Said(h)
  BY <1>1 DEF Said
<1>3. InOrder(h)'
  BY <1>1 DEF ConsoleInv, HartSays, InOrder
<1>4. NoneSkipped(h)'
  BY <1>2 DEF ConsoleInv, HartSays, NoneSkipped
<1>. QED
  BY <1>2, <1>3, <1>4

(* A hart comes to say k. *)
LEMMA SayInv ==
  ASSUME ConsoleInv, NEW h \in Harts, NEW k \in Kinds, NEW n \in Nat, Say(h, k, n),
         UNCHANGED device, pc[h] # "init",
         \A a \in Said(h) : /\ k = "main" => a.kind = "main" /\ a.number < n
                            /\ k = "trap" => a.kind = "main"
                            /\ k = "panic" => a.kind # "panic",
         k = "main" /\ n > 1 => Byte(h, "main", n - 1, Length) \in Said(h),
         k = "panic" =>
           \A t \in Said(h) : t.kind = "trap" => Byte(h, "trap", t.number, Length) \in Said(h),
         k # "main" => n = 1
  PROVE  ConsoleInv'
<1>1. UNCHANGED <<uart, line, lost>>
  BY DEF device
<1>2. /\ kind' = [kind EXCEPT ![h] = k] /\ number' = [number EXCEPT ![h] = n]
      /\ pc' = [pc EXCEPT ![h] = "lock"] /\ pos' = [pos EXCEPT ![h] = 0]
  BY DEF Say
<1>3. ConsoleTypes'
  BY <1>1, <1>2 DEF ConsoleInv, ConsoleTypes
<1>4. \A g \in Harts \ {h} : /\ kind'[g] = kind[g] /\ number'[g] = number[g]
                             /\ pc'[g] = pc[g] /\ pos'[g] = pos[g]
  BY <1>2 DEF ConsoleInv, ConsoleTypes
<1>5. kind'[h] = k /\ number'[h] = n /\ pc'[h] = "lock" /\ pos'[h] = 0
  BY <1>2 DEF ConsoleInv, ConsoleTypes
<1>6. Stages'
  BY <1>1, <1>4, <1>5, ConsoleAssumption DEF ConsoleInv, Stages
<1>7. \A g \in Harts : Said(g)' = Said(g) /\ InOrder(g)' /\ NoneSkipped(g)'
  BY <1>1, NothingPut
<1>8. HartSays(h)'
  <2>1. UpToDate(h)'
    BY <1>5 DEF UpToDate
  <2>2. CompleteBefore(h)'
    BY <1>5, <1>7 DEF CompleteBefore
  <2>3. BehindNow(h)'
    <3>. SUFFICES ASSUME NEW a \in Said(h)
                 PROVE  /\ k = "main" => a.kind = "main" /\ a.number <= n
                        /\ k = "trap" => a.kind # "panic"
                        /\ a.kind = "trap" => a.number = 1
                        /\ Before(a, Byte(h, k, n, 1))
      BY <1>5, <1>7 DEF BehindNow
    <3>1. a \in Sayings
      BY DEF Said, Sent, ConsoleInv, ConsoleTypes
    <3>2. a.kind \in Kinds /\ a.number \in Nat /\ (a.kind = "trap" => a.number = 1)
      BY <3>1 DEF Sayings, ConsoleInv, HartSays, BehindNow
    <3>3. Byte(h, k, n, 1).kind = k /\ Byte(h, k, n, 1).number = n
      BY DEF Byte
    <3>. QED
      BY <3>2, <3>3 DEF Before, Kinds
  <2>. QED
    BY <1>7, <2>1, <2>2, <2>3 DEF HartSays
<1>9. ASSUME NEW g \in Harts, g # h PROVE HartSays(g)'
  BY <1>4, <1>7, <1>9, SaysTheSame DEF ConsoleInv
<1>. QED
  BY <1>1, <1>3, <1>6, <1>8, <1>9 DEF ConsoleInv

(* The steps of Uart::init. *)
LEMMA UartInitInv ==
  ASSUME ConsoleInv, OpenLatch \/ CloseLatch \/ ClearFIFO
  PROVE  ConsoleInv'
<1>1. UNCHANGED <<line, lost, kind, number, pos>> /\ pc[0] = "init"
  BY DEF OpenLatch, CloseLatch, ClearFIFO
<1>2. 0 \in Harts
  BY ConsoleAssumption
<1>3. /\ \A g \in Harts \ {0} : pc'[g] = pc[g]
      /\ \/ uart' \in {"latch", "set"} /\ pc'[0] = "init"
         \/ uart' = "ready" /\ pc'[0] = "idle"
      /\ pc' \in [Harts -> {"init", "idle", "lock", "put", "stopped"}]
  BY <1>1, <1>2 DEF OpenLatch, CloseLatch, ClearFIFO, ConsoleInv, ConsoleTypes
<1>4. ConsoleTypes'
  BY <1>1, <1>3 DEF ConsoleInv, ConsoleTypes
<1>5. Stages'
  BY <1>1, <1>2, <1>3 DEF ConsoleInv, Stages
<1>6. \A g \in Harts : Said(g)' = Said(g) /\ InOrder(g)' /\ NoneSkipped(g)'
  BY <1>1, NothingPut
<1>7. HartSays(0)'
  <2>1. kind[0] = "main" /\ number[0] = 0
    BY <1>1, <1>2 DEF ConsoleInv, Stages
  <2>2. UpToDate(0)' /\ CompleteBefore(0)'
    BY <1>1, <1>3, <2>1 DEF UpToDate, CompleteBefore
  <2>3. BehindNow(0)'
    BY <1>1, <1>2, <1>3, <1>6, <2>1 DEF ConsoleInv, HartSays, BehindNow
  <2>. QED
    BY <1>2, <1>6, <2>2, <2>3 DEF HartSays
<1>8. ASSUME NEW g \in Harts, g # 0 PROVE HartSays(g)'
  BY <1>1, <1>3, <1>6, <1>8, SaysTheSame DEF ConsoleInv
<1>. QED
  BY <1>1, <1>4, <1>5, <1>7, <1>8 DEF ConsoleInv

(* print! has the mutex of its call. *)
LEMMA LockInv ==
  ASSUME ConsoleInv, NEW h \in Harts, Lock(h)
  PROVE  ConsoleInv'
<1>1. UNCHANGED <<uart, line, lost, kind, number, pos>> /\ pc[h] = "lock"
      /\ pc' = [pc EXCEPT ![h] = "put"]
  BY DEF Lock, device
<1>2. pc'[h] = "put" /\ \A g \in Harts \ {h} : pc'[g] = pc[g]
  BY <1>1 DEF ConsoleInv, ConsoleTypes
<1>3. ConsoleTypes'
  BY <1>1 DEF ConsoleInv, ConsoleTypes
<1>4. Stages' /\ pos[h] = 0
  BY <1>1, <1>2, ConsoleAssumption DEF ConsoleInv, Stages
<1>5. \A g \in Harts : Said(g)' = Said(g) /\ InOrder(g)' /\ NoneSkipped(g)'
  BY <1>1, NothingPut
<1>6. HartSays(h)'
  <2>1. UpToDate(h)'
    BY <1>1, <1>2, <1>4 DEF UpToDate
  <2>2. CompleteBefore(h)'
    BY <1>1, <1>2, <1>5 DEF ConsoleInv, HartSays, CompleteBefore
  <2>3. BehindNow(h)'
    BY <1>1, <1>2, <1>5 DEF ConsoleInv, HartSays, BehindNow
  <2>. QED
    BY <1>5, <2>1, <2>2, <2>3 DEF HartSays
<1>7. ASSUME NEW g \in Harts, g # h PROVE HartSays(g)'
  BY <1>1, <1>2, <1>5, <1>7, SaysTheSame DEF ConsoleInv
<1>. QED
  BY <1>1, <1>3, <1>4, <1>6, <1>7 DEF ConsoleInv


(* A byte put on the line, or lost, is said by its hart and no other, and  *)
(* on the line it comes after all that its hart has sent.                  *)
LEMMA PutSays ==
  ASSUME ConsoleInv, NEW h \in Harts, put(h), NEW b,
         b = Byte(h, kind[h], number[h], pos[h] + 1)
  PROVE  /\ line' \in Seq(Sayings) /\ lost' \subseteq Sayings
         /\ Said(h)' = Said(h) \cup {b} /\ InOrder(h)'
         /\ \A g \in Harts \ {h} : Said(g)' = Said(g) /\ InOrder(g)'
<1>1. /\ pc[h] = "put"
      /\ \/ line' = Append(line, b) /\ lost' = lost
         \/ lost' = lost \cup {b} /\ line' = line
  BY DEF put
<1>2. /\ line \in Seq(Sayings) /\ lost \subseteq Sayings
      /\ kind[h] \in Kinds /\ number[h] \in Nat /\ pos[h] \in Nat
  BY DEF ConsoleInv, ConsoleTypes
<1>3. b \in Sayings /\ b.hart = h
  BY <1>2 DEF Byte, Sayings
<1>4. CASE lost' = lost \cup {b} /\ line' = line
  <2>1. \A g \in Harts : Sent(g)' = Sent(g)
    BY <1>4 DEF Sent
  <2>2. \A g \in Harts : InOrder(g)'
    BY <1>4, <2>1 DEF ConsoleInv, HartSays, InOrder
  <2>3. Said(h)' = Said(h) \cup {b} /\ \A g \in Harts \ {h} : Said(g)' = Said(g)
    BY <1>3, <1>4, <2>1 DEF Said
  <2>. QED
    BY <1>2, <1>3, <1>4, <2>2, <2>3
<1>5. CASE line' = Append(line, b) /\ lost' = lost
  <2>. PICK m : m = Len(line) + 1
    OBVIOUS
  <2>1. /\ line' \in Seq(Sayings) /\ m \in Nat /\ Len(line) \in Nat
        /\ Len(line') = m /\ line'[m] = b
        /\ \A i \in 1..Len(line) : line'[i] = line[i]
    BY <1>2, <1>3, <1>5
  <2>2. /\ Sent(h)' = Sent(h) \cup {m}
        /\ \A i \in Sent(h) : i \in Nat /\ i < m /\ line'[i] = line[i]
    BY <1>3, <2>1 DEF Sent
  <2>3. \A g \in Harts \ {h} : Sent(g)' = Sent(g) /\ \A i \in Sent(g) : line'[i] = line[i]
    BY <1>3, <2>1 DEF Sent
  <2>4. Said(h)' = Said(h) \cup {b}
    <3>1. {line'[i] : i \in Sent(h)'} = {line[i] : i \in Sent(h)} \cup {b}
      BY <2>1, <2>2
    <3>2. {l \in lost' : l.hart = h} = {l \in lost : l.hart = h}
      BY <1>5
    <3>. QED
      BY <3>1, <3>2 DEF Said
  <2>5. \A g \in Harts \ {h} : Said(g)' = Said(g)
    BY <1>5, <2>3 DEF Said
  <2>6. \A g \in Harts \ {h} : InOrder(g)'
    BY <2>3 DEF ConsoleInv, HartSays, InOrder
  <2>7. InOrder(h)'
    <3>. SUFFICES ASSUME NEW i \in Sent(h)', NEW j \in Sent(h)', i < j
                 PROVE  Before(line'[i], line'[j])
      BY DEF InOrder
    <3>1. i \in Sent(h)
      BY <2>1, <2>2
    <3>2. CASE j \in Sent(h)
      BY <2>2, <3>1, <3>2 DEF ConsoleInv, HartSays, InOrder
    <3>3. CASE j = m
      <4>1. line[i] \in Said(h)
        BY <3>1 DEF Said
      <4>2. Before(line[i], b)
        BY <1>1, <4>1 DEF ConsoleInv, HartSays, BehindNow
      <4>. QED
        BY <2>1, <2>2, <3>1, <3>3, <4>2
    <3>. QED
      BY <2>2, <3>2, <3>3
  <2>. QED
    BY <1>2, <1>5, <2>1, <2>4, <2>5, <2>6, <2>7
<1>. QED
  BY <1>1, <1>4, <1>5

(* The byte that a hart puts is the next one of its message, and the first *)
(* one only after the message before it.                                   *)
LEMMA PutHart ==
  ASSUME ConsoleInv, NEW h \in Harts, put(h)
  PROVE  HartSays(h)'
<1>. PICK b : b = Byte(h, kind[h], number[h], pos[h] + 1)
  OBVIOUS
<1>1. /\ pc[h] = "put" /\ pos' = [pos EXCEPT ![h] = @ + 1] /\ UNCHANGED <<kind, number, pc>>
  BY DEF put
<1>2. /\ kind[h] \in Kinds /\ number[h] \in Nat /\ pos[h] \in Nat /\ pos'[h] = pos[h] + 1
  BY <1>1 DEF ConsoleInv, ConsoleTypes
<1>3. /\ b.hart = h /\ b.kind = kind[h] /\ b.number = number[h] /\ b.byte = pos[h] + 1
  BY DEF Byte
<1>4. Said(h)' = Said(h) \cup {b} /\ InOrder(h)'
  BY PutSays
<1>5. HartSays(h) /\ (kind[h] # "main" => number[h] = 1)
  BY DEF ConsoleInv, Stages
<1>6. UpToDate(h)'
  BY <1>1, <1>2, <1>4 DEF UpToDate
<1>7. CompleteBefore(h)'
  <2>1. pc[h] = "put" /\ kind[h] = "main" /\ number[h] > 1 =>
          Byte(h, "main", number[h] - 1, Length) \in Said(h)
    BY <1>5 DEF HartSays, CompleteBefore
  <2>2. kind[h] = "panic" =>
          \A t \in Said(h)' : t.kind = "trap" => Byte(h, "trap", t.number, Length) \in Said(h)'
    BY <1>3, <1>4, <1>5 DEF HartSays, CompleteBefore
  <2>. QED
    BY <1>1, <1>4, <2>1, <2>2 DEF CompleteBefore
<1>8. NoneSkipped(h)'
  <2>. SUFFICES ASSUME NEW a \in Said(h)'
               PROVE
        /\ a.byte > 1 => Byte(h, a.kind, a.number, a.byte - 1) \in Said(h)'
        /\ a.byte = 1 /\ a.number > 1 => Byte(h, a.kind, a.number - 1, Length) \in Said(h)'
        /\ a.kind = "panic" =>
             \A t \in Said(h)' : t.kind = "trap" => Byte(h, "trap", t.number, Length) \in Said(h)'
    BY DEF NoneSkipped
  <2>1. a.kind = "panic" => kind[h] = "panic"
    BY <1>2, <1>3, <1>4, <1>5 DEF HartSays, BehindNow, Kinds
  <2>2. a.kind = "panic" =>
          \A t \in Said(h)' : t.kind = "trap" => Byte(h, "trap", t.number, Length) \in Said(h)'
    BY <1>1, <1>7, <2>1 DEF CompleteBefore
  <2>3. CASE a \in Said(h)
    BY <1>4, <1>5, <2>2, <2>3 DEF HartSays, NoneSkipped
  <2>4. CASE a = b
    <3>1. b.byte > 1 => Byte(h, b.kind, b.number, b.byte - 1) \in Said(h)
      <4>1. pos[h] > 0 => Byte(h, kind[h], number[h], pos[h]) \in Said(h)
        BY <1>1, <1>5 DEF HartSays, UpToDate
      <4>2. b.byte - 1 = pos[h] /\ (b.byte > 1 => pos[h] > 0)
        BY <1>2, <1>3
      <4>. QED
        BY <1>3, <4>1, <4>2
    <3>2. b.number > 1 => Byte(h, b.kind, b.number - 1, Length) \in Said(h)
      BY <1>1, <1>2, <1>3, <1>5 DEF HartSays, CompleteBefore
    <3>. QED
      BY <1>4, <2>2, <2>4, <3>1, <3>2
  <2>. QED
    BY <1>4, <2>3, <2>4
<1>9. BehindNow(h)'
  <2>. PICK c : c = Byte(h, kind[h], number[h], pos[h] + 2)
    OBVIOUS
  <2>1. c.kind = kind[h] /\ c.number = number[h] /\ c.byte = pos[h] + 2
    BY DEF Byte
  <2>2. c = Byte(h, kind[h], number[h], pos'[h] + 1)
    BY <1>2
  <2>3. ASSUME NEW a \in Said(h)'
        PROVE  /\ kind[h] = "main" => a.kind = "main" /\ a.number <= number[h]
               /\ kind[h] = "trap" => a.kind # "panic"
               /\ a.kind = "trap" => a.number = 1
               /\ Before(a, c)
    <3>1. CASE a \in Said(h)
      <4>1. Before(a, b) /\ a.byte \in Nat
        <5>1. a \in Sayings
          BY <3>1 DEF Said, Sent, ConsoleInv, ConsoleTypes
        <5>. QED
          BY <1>1, <1>5, <3>1, <5>1 DEF HartSays, BehindNow, Sayings
      <4>2. Before(a, c)
        BY <1>2, <1>3, <2>1, <4>1 DEF Before
      <4>. QED
        BY <1>5, <3>1, <4>2 DEF HartSays, BehindNow
    <3>2. CASE a = b
      BY <1>2, <1>3, <1>5, <2>1, <3>2 DEF Before
    <3>. QED
      BY <1>4, <2>3, <3>1, <3>2
  <2>. QED
    BY <1>1, <2>2, <2>3 DEF BehindNow
<1>. QED
  BY <1>4, <1>6, <1>7, <1>8, <1>9 DEF HartSays

(* A byte put: nothing changes for the other harts, and hart 0 puts none   *)
(* before the UART is ready.                                               *)
LEMMA PutInv ==
  ASSUME ConsoleInv, NEW h \in Harts, put(h)
  PROVE  ConsoleInv'
<1>. PICK b : b = Byte(h, kind[h], number[h], pos[h] + 1)
  OBVIOUS
<1>1. /\ pc[h] = "put" /\ pos[h] < Length /\ pos' = [pos EXCEPT ![h] = @ + 1]
      /\ UNCHANGED <<uart, kind, number, pc>>
      /\ lost' = lost \/ (uart # "ready" /\ lost' = lost \cup {b})
  BY DEF put, More
<1>2. /\ \A g \in Harts \ {h} : pos'[g] = pos[g]
      /\ pos'[h] = pos[h] + 1 /\ pos[h] \in Nat /\ pos' \in [Harts -> Nat]
  BY <1>1 DEF ConsoleInv, ConsoleTypes
<1>3. /\ line' \in Seq(Sayings) /\ lost' \subseteq Sayings
      /\ \A g \in Harts \ {h} : Said(g)' = Said(g) /\ InOrder(g)'
  BY PutSays
<1>4. ConsoleTypes'
  BY <1>1, <1>2, <1>3 DEF ConsoleInv, ConsoleTypes
<1>5. Stages'
  BY <1>1, <1>2, ConsoleAssumption DEF ConsoleInv, Stages
<1>6. \A l \in lost' : l.hart # 0
  <2>1. b.hart = h
    BY DEF Byte
  <2>2. uart # "ready" => h # 0
    BY <1>1 DEF ConsoleInv, Stages
  <2>. QED
    BY <1>1, <2>1, <2>2 DEF ConsoleInv
<1>7. HartSays(h)'
  BY PutHart
<1>8. ASSUME NEW g \in Harts, g # h PROVE HartSays(g)'
  BY <1>1, <1>2, <1>3, <1>8, SaysTheSame DEF ConsoleInv
<1>. QED
  BY <1>4, <1>5, <1>6, <1>7, <1>8 DEF ConsoleInv


(* The end of print!: s_handler goes on to panic!, the panic handler       *)
(* stops, main goes on.                                                    *)
LEMMA PrintedInv ==
  ASSUME ConsoleInv, NEW h \in Harts, Printed(h)
  PROVE  ConsoleInv'
<1>1. pc[h] = "put" /\ ~(pos[h] < Length) /\ UNCHANGED <<uart, line, lost>>
  BY DEF Printed, More, device
<1>2. pos[h] = Length /\ Length > 0
  BY <1>1, ConsoleAssumption DEF ConsoleInv, ConsoleTypes, Stages
<1>3. /\ kind \in [Harts -> Kinds] /\ number \in [Harts -> Nat]
      /\ pc \in [Harts -> {"init", "idle", "lock", "put", "stopped"}]
  BY DEF ConsoleInv, ConsoleTypes
<1>4. HartSays(h) /\ (kind[h] # "main" => number[h] = 1)
  BY DEF ConsoleInv, Stages
<1>5. Byte(h, kind[h], number[h], Length) \in Said(h)
  BY <1>1, <1>2, <1>4 DEF HartSays, UpToDate
<1>6. CASE kind[h] = "trap"
  <2>1. Say(h, "panic", 1) /\ UNCHANGED device
    BY <1>6 DEF Printed
  <2>2. \A a \in Said(h) : a.kind # "panic" /\ (a.kind = "trap" => a.number = 1)
    BY <1>4, <1>6 DEF HartSays, BehindNow
  <2>3. \A t \in Said(h) : t.kind = "trap" => Byte(h, "trap", t.number, Length) \in Said(h)
    BY <1>4, <1>5, <1>6, <2>2
  <2>. QED
    BY <1>1, <2>1, <2>2, <2>3, SayInv DEF Kinds
<1>7. CASE kind[h] # "trap"
  <2>1. /\ pc' = [pc EXCEPT ![h] = IF kind[h] = "main" THEN "idle" ELSE "stopped"]
        /\ UNCHANGED <<kind, number, pos>>
    BY <1>7 DEF Printed
  <2>2. pc'[h] = (IF kind[h] = "main" THEN "idle" ELSE "stopped")
        /\ \A g \in Harts \ {h} : pc'[g] = pc[g]
    BY <1>3, <2>1
  <2>3. ConsoleTypes'
    BY <1>1, <2>1 DEF ConsoleInv, ConsoleTypes
  <2>4. Stages'
    BY <1>1, <1>2, <1>3, <1>7, <2>1, <2>2, ConsoleAssumption DEF ConsoleInv, Stages, Kinds
  <2>5. \A g \in Harts : Said(g)' = Said(g) /\ InOrder(g)' /\ NoneSkipped(g)'
    BY <1>1, NothingPut
  <2>6. HartSays(h)'
    <3>1. UpToDate(h)'
      BY <1>5, <2>1, <2>2, <2>5 DEF UpToDate
    <3>2. CompleteBefore(h)'
      BY <1>4, <2>1, <2>2, <2>5 DEF HartSays, CompleteBefore
    <3>3. BehindNow(h)'
      BY <1>4, <2>1, <2>2, <2>5 DEF HartSays, BehindNow
    <3>. QED
      BY <2>5, <3>1, <3>2, <3>3 DEF HartSays
  <2>7. ASSUME NEW g \in Harts, g # h PROVE HartSays(g)'
    BY <2>1, <2>2, <2>5, <2>7, SaysTheSame DEF ConsoleInv
  <2>. QED
    BY <1>1, <2>3, <2>4, <2>6, <2>7 DEF ConsoleInv
<1>. QED
  BY <1>6, <1>7

(* A trap or a panic cuts into a message of main only. *)
LEMMA InterruptInv ==
  ASSUME ConsoleInv, NEW h \in Harts, NEW k \in {"trap", "panic"},
         kind[h] = "main", pc[h] # "init", Say(h, k, 1), UNCHANGED device
  PROVE  ConsoleInv'
<1>1. \A a \in Said(h) : a.kind = "main"
  BY DEF ConsoleInv, HartSays, BehindNow
<1>. QED
  BY <1>1, SayInv DEF Kinds

(* main begins its next message after the last one is complete. *)
LEMMA MainPrintsInv ==
  ASSUME ConsoleInv, MainPrints
  PROVE  ConsoleInv'
<1>1. /\ 0 \in Harts /\ pc[0] = "idle" /\ kind[0] = "main" /\ number[0] \in Nat
      /\ Say(0, "main", number[0] + 1) /\ UNCHANGED device
  BY ConsoleAssumption DEF MainPrints, ConsoleInv, ConsoleTypes
<1>2. ASSUME NEW a \in Said(0) PROVE a.kind = "main" /\ a.number < number[0] + 1
  <2>1. a \in Sayings
    BY DEF Said, Sent, ConsoleInv, ConsoleTypes
  <2>. QED
    BY <1>1, <2>1 DEF Sayings, ConsoleInv, HartSays, BehindNow
<1>3. number[0] + 1 > 1 => Byte(0, "main", number[0], Length) \in Said(0)
  BY <1>1 DEF ConsoleInv, HartSays, UpToDate
<1>4. number[0] + 1 - 1 = number[0] /\ number[0] + 1 \in Nat
  BY <1>1
<1>. QED
  BY <1>1, <1>2, <1>3, <1>4, SayInv DEF Kinds

(* Every step of every hart keeps the invariant. *)
LEMMA ConsoleStep ==
  ASSUME ConsoleInv, [Next]_vars
  PROVE  ConsoleInv'
<1>1. CASE OpenLatch \/ CloseLatch \/ ClearFIFO
  BY <1>1, UartInitInv
<1>2. CASE MainPrints
  BY <1>2, MainPrintsInv
<1>3. CASE Panic
  BY <1>3, InterruptInv, ConsoleAssumption DEF Panic
<1>4. ASSUME NEW h \in Harts, Exception(h) PROVE ConsoleInv'
  BY <1>4, InterruptInv DEF Exception
<1>5. ASSUME NEW h \in Harts, Step(h) PROVE ConsoleInv'
  BY <1>5, LockInv, PutInv, PrintedInv DEF Step
<1>6. CASE UNCHANGED vars
  <2>1. UNCHANGED <<uart, line, lost, kind, number, pc, pos>>
    BY <1>6 DEF vars
  <2>2. ConsoleTypes' /\ Stages'
    BY <2>1 DEF ConsoleInv, ConsoleTypes, Stages
  <2>3. ASSUME NEW h \in Harts PROVE HartSays(h)'
    BY <2>1, NothingPut, SaysTheSame DEF ConsoleInv
  <2>. QED
    BY <2>1, <2>2, <2>3 DEF ConsoleInv
<1>. QED
  BY <1>1, <1>2, <1>3, <1>4, <1>5, <1>6 DEF Next, Loop

(* What every hart prints is on the line in order, and nothing is missing  *)
(* but what other harts than 0 put before the UART was set up, whatever    *)
(* the harts, the number and the length of the messages, and wherever a    *)
(* trap or a panic cuts in.                                                *)
THEOREM ConsoleSaidInOrder == Spec => []SaidInOrder
<1>1. Init => ConsoleInv
  <2>. SUFFICES ASSUME Init PROVE ConsoleInv
    OBVIOUS
  <2>1. \A h : Sent(h) = {} /\ Said(h) = {}
    <3>1. Len(line) = 0 /\ lost = {}
      BY DEF Init
    <3>. QED
      BY <3>1 DEF Sent, Said
  <2>2. ConsoleTypes
    BY ConsoleAssumption DEF Init, ConsoleTypes, Kinds
  <2>3. Stages
    BY ConsoleAssumption DEF Init, Stages
  <2>4. ASSUME NEW h \in Harts PROVE HartSays(h)
    BY <2>1 DEF Init, HartSays, InOrder, NoneSkipped, UpToDate, BehindNow, CompleteBefore
  <2>. QED
    BY <2>2, <2>3, <2>4 DEF Init, ConsoleInv
<1>2. ConsoleInv /\ [Next]_vars => ConsoleInv'
  BY ConsoleStep
<1>3. ConsoleInv => SaidInOrder
  BY DEF ConsoleInv, HartSays, SaidInOrder
<1>. QED
  BY <1>1, <1>2, <1>3, PTL DEF Spec
=============================================================================
