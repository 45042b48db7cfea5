----------------------------- MODULE Interrupts -----------------------------
(***************************************************************************)
(* Interrupts: the stubs of src/kernel/idt.asm, irq_handler and            *)
(* int_handler of idt.c and ksysint's sti and cli, with what runs          *)
(* inside them: kbint and kgetsc (module Keyboard), ata_irq and the wait   *)
(* of ata_start_lba.                                                       *)
(*                                                                         *)
(* All gates are interrupt gates: whatever comes in finds interrupts off.  *)
(* A request is handled that way to its end; a system call turns them on.  *)
(*                                                                         *)
(* The two interrupt controllers, the drive and the timer are external.    *)
(* A line that falls again before the processor acknowledges its request   *)
(* makes the controller deliver its last line instead, with no bit in      *)
(* service; reading the drive's status makes its line fall.                *)
(***************************************************************************)
EXTENDS Keyboard

CONSTANTS
  MaxTicks,     \* bound: the ticks of the timer
  MaxNoise,     \* bound: the lines that fall for no reason
  MaxDisk       \* bound: the system calls that use the disk

ASSUME InterruptsAssumption == MaxTicks \in Nat /\ MaxNoise \in Nat /\ MaxDisk \in Nat

VARIABLES
  mode,         \* the program runs (user), or its system call: before its sti
                \* (enter), in between (call), or after its cli (leave)
  call,         \* what the call does: read a key, or read or write a sector
  dpc,          \* where in ata_start_lba it is
  _ata_irq_called,
  drive,        \* idle or busy
  irr, isr,     \* the lines that are requested, and those in service
  ghost,        \* a line a controller delivers for one that fell, or None
  hnd, hpc,     \* the line that is being handled, or None, and where irq_handler is
  ticks, noise, disks

callVars == << mode, call, dpc, _ata_irq_called, disks >>
picVars  == << irr, isr, ghost >>
hndVars  == << hnd, hpc >>
devVars  == << drive, ticks, noise >>
intVars  == << vars, callVars, picVars, hndVars, devVars >>

None    == 99
Timer   == 0        \* int_no is the line + 32
Key     == 1
Cascade == 2        \* where the second controller, with lines 8 to 15, is connected
Disk    == 14

Second(r) == r >= 8
Rank(r) == IF r > Cascade /\ ~ Second(r) THEN r + 16 ELSE r   \* low is urgent
Urgent(S) == { r \in S : \A q \in S : Rank(r) <= Rank(q) }

\* A controller holds a request back while one as urgent is in service.
Deliverable == { r \in irr : /\ \A q \in isr : ~ Second(q) => Rank(r) < Rank(q)
                             /\ \A q \in isr : Second(q) => Rank(r) < Rank(q) }

IF_flag == hnd = None /\ mode \in {"user", "call"}

IntInit ==
  /\ Init
  /\ mode = "user" /\ call = "none" /\ dpc = "none"
  /\ _ata_irq_called = 0 /\ disks = 0
  /\ irr = {} /\ isr = {} /\ ghost = None
  /\ hnd = None /\ hpc = "none"
  /\ drive = "idle" /\ ticks = 0 /\ noise = 0

-----------------------------------------------------------------------------
\* The devices.
Tick == /\ ticks < MaxTicks
        /\ ticks' = ticks + 1
        /\ irr' = irr \cup {Timer}
        /\ UNCHANGED << vars, callVars, hndVars, isr, ghost, drive, noise >>

\* The keyboard's line rises when a key comes to a controller that held none.
KeyPress == /\ Press
            /\ irr' = IF queue = << >> THEN irr \cup {Key} ELSE irr
            /\ UNCHANGED << callVars, hndVars, isr, ghost, devVars >>

DriveDone == /\ drive = "busy"
             /\ drive' = "idle"
             /\ irr' = irr \cup {Disk}
             /\ UNCHANGED << vars, callVars, hndVars, isr, ghost, ticks, noise >>

Noise == /\ noise < MaxNoise
         /\ noise' = noise + 1
         /\ ghost' = 7
         /\ UNCHANGED << vars, callVars, hndVars, irr, isr, drive, ticks >>

\* The processor takes what the controllers have for it.
Acknowledge ==
  /\ IF_flag
  /\ \/ \E r \in Urgent(Deliverable) :
          /\ hnd' = r /\ irr' = irr \ {r}
          /\ isr' = isr \cup (IF Second(r) THEN {r, Cascade} ELSE {r})
     \/ /\ Deliverable = {} /\ ghost # None
        /\ hnd' = ghost /\ UNCHANGED irr
        /\ isr' = IF Second(ghost) THEN isr \cup {Cascade} ELSE isr
  /\ ghost' = None
  /\ hpc' = "handler"
  /\ UNCHANGED << vars, callVars, devVars >>

\* int_handlers has one for the keyboard and one for the drive; no_irq does
\* nothing, and the timer has none.
ata_irq == _ata_irq_called' = 1

Handler ==
  /\ hpc = "handler"
  /\ hpc' = "eoi"
  /\ IF hnd = Key THEN kbint ELSE UNCHANGED vars
  /\ irr' = IF hnd = Key /\ Len(queue) > 1 THEN irr \cup {Key} ELSE irr
  /\ IF hnd = Disk THEN ata_irq ELSE UNCHANGED _ata_irq_called
  /\ UNCHANGED << mode, call, dpc, disks, hnd, isr, ghost, devVars >>

\* The non-specific end of interrupt clears the most urgent bit in service of the
\* controller it is sent to.
Ended(second) == isr \ Urgent({ r \in isr : Second(r) = second })

\* Mutation: `> 46' for the vectors of the second controller.
EoiPast(r) == r > 14
\* `>= 40'.
EoiSecond(r) == Second(r)

\* portbout(0x20, 0x20), also for a line that was delivered with no bit.
EoiMaster ==
  /\ hpc = "eoi"
  /\ hpc' = IF EoiSecond(hnd) THEN "eoi2" ELSE "iret"
  /\ isr' = Ended(FALSE)
  /\ UNCHANGED << vars, callVars, devVars, hnd, irr, ghost >>

\* portbout(0xA0, 0x20).
EoiSlave ==
  /\ hpc = "eoi2"
  /\ hpc' = "iret"
  /\ isr' = Ended(TRUE)
  /\ UNCHANGED << vars, callVars, devVars, hnd, irr, ghost >>

Iret ==
  /\ hpc = "iret"
  /\ hpc' = "none" /\ hnd' = None
  /\ UNCHANGED << vars, callVars, devVars, picVars >>

irq_handler == Handler \/ EoiMaster \/ EoiSlave \/ Iret

-----------------------------------------------------------------------------
\* The program.  It uses the disk now and then, and reads keys for ever.
Int80 ==
  /\ mode = "user"
  /\ \/ call' = "key" /\ UNCHANGED disks
     \/ disks < MaxDisk /\ call' \in {"read", "write"} /\ disks' = disks + 1
  /\ mode' = "enter"
  /\ UNCHANGED << vars, dpc, _ata_irq_called >>

\* Mutation: no sti; the call goes on with interrupts off.
StayOff == mode' = "enter"
TurnOn == mode' = "call"

Sti ==
  /\ mode = "enter"
  /\ TurnOn
  /\ dpc' = IF call = "key" THEN "none" ELSE "wait"
  /\ UNCHANGED << vars, call, _ata_irq_called, disks >>

CliIret ==
  /\ mode = "leave"
  /\ mode' = "user" /\ call' = "none"
  /\ UNCHANGED << vars, dpc, _ata_irq_called, disks >>

\* A key may end the call or not: kgets, and the wait of kbctl, go on until one
\* of those they wait for comes.
ReadKey ==
  /\ mode = "call" /\ call = "key"
  /\ kgetsc
  /\ mode' \in IF pc = "read" THEN {"call", "leave"} ELSE {"call"}
  /\ UNCHANGED << call, dpc, _ata_irq_called, disks >>

ReadWrite ==
  /\ mode = "call"
  /\ \/ /\ dpc = "command" /\ call = "write"        \* and outsl
        /\ dpc' = "none" /\ mode' = "leave"
        /\ UNCHANGED _ata_irq_called
     \/ /\ dpc = "command" /\ call = "read"
        /\ dpc' = "spin"
        /\ UNCHANGED << mode, _ata_irq_called >>
     \/ /\ dpc = "spin" /\ _ata_irq_called = 1
        /\ dpc' = "clear"
        /\ UNCHANGED << mode, _ata_irq_called >>
     \/ /\ dpc = "clear"
        /\ _ata_irq_called' = 0
        /\ dpc' = "none" /\ mode' = "leave"
  /\ drive' = IF dpc = "command" THEN "busy" ELSE drive
  /\ UNCHANGED << vars, call, disks, picVars >>

\* The status that ata_wait reads: the request of a write that has just ended is
\* taken back, or, in a controller that keeps it, is not.
ata_wait ==
  /\ mode = "call" /\ dpc = "wait"
  /\ dpc' = "command"
  /\ \/ UNCHANGED << irr, ghost >>
     \/ Disk \in irr /\ irr' = irr \ {Disk} /\ ghost' = 15
  /\ UNCHANGED << vars, mode, call, _ata_irq_called, disks, isr, drive >>

\* It runs while nothing is handled.
Program ==
  /\ hnd = None
  /\ \/ (Int80 \/ Sti \/ CliIret \/ ReadKey) /\ UNCHANGED << picVars, drive >>
     \/ ReadWrite
     \/ ata_wait
  /\ UNCHANGED << hndVars, ticks, noise >>

IntNext == Tick \/ KeyPress \/ DriveDone \/ Noise \/ Acknowledge \/ irq_handler \/ Program

\* The processor runs, the drive ends what it was told to do, and an interrupt is
\* taken if there are always instructions again before which it could be.
IntSpec == IntInit /\ [][IntNext]_intVars
             /\ WF_intVars(irq_handler) /\ WF_intVars(Program)
             /\ WF_intVars(DriveDone) /\ SF_intVars(Acknowledge)

-----------------------------------------------------------------------------
IntTypeOK ==
  /\ TypeOK
  /\ mode \in {"user", "enter", "call", "leave"}
  /\ call \in {"none", "key", "read", "write"}
  /\ dpc \in {"none", "wait", "command", "spin", "clear"}
  /\ _ata_irq_called \in {0, 1} /\ drive \in {"idle", "busy"}
  /\ irr \subseteq {Timer, Key, Disk} /\ isr \subseteq {Timer, Key, Cascade, Disk}
  /\ ghost \in {None, 7, 15} /\ hnd \in {None, Timer, Key, 7, Disk, 15}
  /\ hpc \in {"none", "handler", "eoi", "eoi2", "iret"}

\* No bit stays in service without its handler, in either controller, and none of
\* a request that is still to be handled is cleared: not by the handlers of lines
\* delivered with no bit, which end what never began.  kbint is called
\* only when the keyboard has a key, so the port it reads holds one.
PicInv ==
  /\ IntTypeOK
  /\ hnd = None => isr = {}
  /\ hpc = "handler" => isr = CASE hnd = 7    -> {}
                                [] hnd = 15   -> {Cascade}
                                [] hnd = Disk -> {Disk, Cascade}
                                [] OTHER      -> {hnd}
  /\ hnd = Key /\ hpc = "handler" => queue # << >>
  /\ queue # << >> => Key \in irr \/ (hnd = Key /\ hpc = "handler")

\* Every request is taken, however the others come and whatever call the program is
\* in; and the call that waits for the drive returns, also when the request of the
\* write before it was taken back.
RequestsServed ==
  /\ \A r \in {Timer, Key, Disk} : r \in irr ~> r \notin irr
  /\ (call = "read" /\ mode = "call") ~> mode = "user"
=============================================================================
