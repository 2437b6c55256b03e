------------------------------- MODULE Console -------------------------------
(***************************************************************************)
(* The kernel's output: print! and log! (src/log.rs), the UART driver      *)
(* (src/device/uart.rs), the panic handler (src/main.rs) and s_handler     *)
(* (src/trap.rs), on several harts.  Hart 0 sets up the UART and prints;   *)
(* a hart that panics, or traps, prints that and stops.  A panic or an     *)
(* exception may come at any point of the kernel's code, inside a print!   *)
(* too.  The text of a message is its number of bytes.                     *)
(***************************************************************************)
EXTENDS Integers, Sequences

CONSTANTS
  Harts,       \* hart 0 and the others
  Prints,      \* the messages main prints on hart 0
  BeforeTraps, \* those of them before trap::init
  Length       \* bytes in a message

ASSUME ConsoleAssumption ==
  /\ 0 \in Harts /\ Harts \subseteq Nat
  /\ Prints \in Nat /\ BeforeTraps \in 0..Prints /\ Length \in Nat \ {0}

VARIABLES
  uart,    \* the device: "reset", "latch" (register 0 is the divisor), "set", "ready"
  line,    \* the bytes sent, as Byte has them
  lost,    \* the bytes put that never reach the line
  kind,    \* whose message a hart prints: "main", "trap" or "panic"
  number,  \* the messages of that kind it has begun
  pc,      \* of each hart: "init", "idle", "lock", "put", "stopped"
  pos,     \* bytes of the message put so far
  held     \* the mutexes that are locked

vars == <<uart, line, lost, kind, number, pc, pos, held>>
device == <<uart, line, lost>>

Init ==
  /\ uart = "reset" /\ line = <<>> /\ lost = {} /\ held = {}
  /\ kind = [h \in Harts |-> "main"]
  /\ number = [h \in Harts |-> 0] /\ pos = [h \in Harts |-> 0]
  /\ pc = [h \in Harts |-> IF h = 0 THEN "init" ELSE "idle"]

-----------------------------------------------------------------------------
(* Uart::init: registers 0 and 1 are the baud rate while LCR has bit 7. *)
OpenLatch ==
  /\ pc[0] = "init" /\ uart = "reset" /\ uart' = "latch"
  /\ UNCHANGED <<line, lost, kind, number, pc, pos, held>>

CloseLatch ==
  /\ pc[0] = "init" /\ uart = "latch" /\ uart' = "set"
  /\ UNCHANGED <<line, lost, kind, number, pc, pos, held>>

(* The FIFO is enabled and cleared. *)
ClearFIFO ==
  /\ pc[0] = "init" /\ uart = "set" /\ uart' = "ready"
  /\ pc' = [pc EXCEPT ![0] = "idle"]
  /\ UNCHANGED <<line, lost, kind, number, pos, held>>

(* Mutant of MutexOf: the shared WRITER. *)
WRITER(h) == <<"WRITER">>

(* The mutex that print! locks: Uart::new() makes one for the call. *)
MutexOf(h) == <<h, kind[h], number[h]>>

(* A hart comes to print k. *)
Say(h, k, n) ==
  /\ kind' = [kind EXCEPT ![h] = k] /\ number' = [number EXCEPT ![h] = n]
  /\ pc' = [pc EXCEPT ![h] = "lock"] /\ pos' = [pos EXCEPT ![h] = 0]

(* println! and log! of main on hart 0. *)
MainPrints ==
  /\ pc[0] = "idle" /\ kind[0] = "main" /\ number[0] < Prints
  /\ Say(0, "main", number[0] + 1)
  /\ UNCHANGED <<device, held>>

Lock(h) ==
  /\ pc[h] = "lock" /\ MutexOf(h) \notin held
  /\ held' = held \cup {MutexOf(h)}
  /\ pc' = [pc EXCEPT ![h] = "put"]
  /\ UNCHANGED <<device, kind, number, pos>>

(* write_str puts byte after byte, as long as this holds. *)

(* Mutant of More: the last byte is left out. *)
MoreButLast(h) == pos[h] < Length - 1

More(h) == pos[h] < Length

Byte(h, k, n, b) == [hart |-> h, kind |-> k, number |-> n, byte |-> b]

(* put never looks whether the transmitter is ready: it is the device that *)
(* takes every byte once it is set up.  Before that a byte goes to the     *)
(* divisor while the latch is open, and may be cleared from the FIFO.      *)
put(h) ==
  LET b == Byte(h, kind[h], number[h], pos[h] + 1)
  IN  /\ pc[h] = "put" /\ More(h)
      /\ pos' = [pos EXCEPT ![h] = @ + 1]
      /\ \/ uart # "latch" /\ line' = Append(line, b) /\ lost' = lost
         \/ uart # "ready" /\ lost' = lost \cup {b} /\ line' = line
      /\ UNCHANGED <<uart, kind, number, pc, held>>

(* The end of print!: the guard is dropped.  s_handler goes on to panic!,  *)
(* the panic handler to loop {}.                                           *)
Printed(h) ==
  /\ pc[h] = "put" /\ ~More(h)
  /\ held' = held \ {MutexOf(h)}
  /\ IF kind[h] = "trap" THEN Say(h, "panic", 1)
     ELSE /\ pc' = [pc EXCEPT ![h] = IF kind[h] = "main" THEN "idle" ELSE "stopped"]
          /\ UNCHANGED <<kind, number, pos>>
  /\ UNCHANGED device

(* An exception reaches s_handler, once the hart has called trap::init. *)
Exception(h) ==
  /\ kind[h] = "main" /\ pc[h] # "init"
  /\ h = 0 => number[h] > BeforeTraps \/ (number[h] = BeforeTraps /\ pc[h] = "idle")
  /\ Say(h, "trap", 1)
  /\ UNCHANGED <<device, held>>

(* panic! or a failed unwrap or expect, in main and what it calls. *)
Panic ==
  /\ kind[0] = "main" /\ pc[0] # "init"
  /\ Say(0, "panic", 1)
  /\ UNCHANGED <<device, held>>

(* main has printed everything, or the hart has stopped. *)
Loop ==
  /\ \A h \in Harts : pc[h] \in {"idle", "stopped"}
  /\ UNCHANGED vars

-----------------------------------------------------------------------------
Step(h) == Lock(h) \/ put(h) \/ Printed(h)

Next ==
  \/ OpenLatch \/ CloseLatch \/ ClearFIFO \/ MainPrints \/ Panic \/ Loop
  \/ \E h \in Harts : Step(h) \/ Exception(h)

(* Every hart goes on executing, whatever the others do. *)
Spec ==
  /\ Init /\ [][Next]_vars
  /\ WF_vars(OpenLatch) /\ WF_vars(CloseLatch) /\ WF_vars(ClearFIFO)
  /\ \A h \in Harts : WF_vars(Step(h))

-----------------------------------------------------------------------------
(* Where the bytes of h are on the line, and all that h has put. *)
Sent(h) == {i \in 1..Len(line) : line[i].hart = h}
Said(h) == {line[i] : i \in Sent(h)} \cup {b \in lost : b.hart = h}

(* The order in which a hart says things: main's messages one by one, a    *)
(* trap, a panic.                                                          *)
Before(a, b) ==
  \/ a.kind = "main" /\ b.kind # "main"
  \/ a.kind = "trap" /\ b.kind = "panic"
  \/ a.kind = b.kind /\ a.number < b.number
  \/ a.kind = b.kind /\ a.number = b.number /\ a.byte < b.byte

InOrder(h) == \A i, j \in Sent(h) : i < j => Before(line[i], line[j])

(* Only a message of main is ever cut short, and only by a trap or panic.  *)
NoneSkipped(h) ==
  \A a \in Said(h) :
    /\ a.byte > 1 => Byte(h, a.kind, a.number, a.byte - 1) \in Said(h)
    /\ a.byte = 1 /\ a.number > 1 => Byte(h, a.kind, a.number - 1, Length) \in Said(h)
    /\ a.kind = "panic" =>
         \A t \in Said(h) : t.kind = "trap" => Byte(h, "trap", t.number, Length) \in Said(h)

UpToDate(h) ==
  /\ pc[h] = "put" /\ pos[h] > 0 => Byte(h, kind[h], number[h], pos[h]) \in Said(h)
  /\ pc[h] \in {"idle", "stopped"} /\ number[h] > 0 =>
       Byte(h, kind[h], number[h], Length) \in Said(h)

(* However the harts, traps and panics interleave, the bytes of every hart *)
(* on the line are in the order it said them, and of what it has said no   *)
(* byte is missing there but those put while hart 0 was still setting up   *)
(* the UART (uart.rs:46-53); hart 0 itself never loses one.                *)
SaidInOrder ==
  /\ \A h \in Harts : InOrder(h) /\ NoneSkipped(h) /\ UpToDate(h)
  /\ \A b \in lost : b.hart # 0

(* A hart that traps or panics gets to say so and to stop, also when that  *)
(* happens inside print!: it never waits for a lock that it holds itself.  *)
PanicHeard ==
  \A h \in Harts :
    kind[h] # "main" ~> pc[h] = "stopped" /\ kind[h] = "panic" /\ pos[h] = Length
=============================================================================
