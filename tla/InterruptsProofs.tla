--------------------------- MODULE InterruptsProofs ---------------------------
(***************************************************************************)
(* Theorems about interrupts, for every number of keys, ticks, disk calls  *)
(* and lines that fall.                                                    *)
(***************************************************************************)
EXTENDS Interrupts, SequenceTheorems, FiniteSetTheorems, TLAPS

\* What is in service while a line is handled, from its first end of interrupt on.
InService ==
  /\ hnd = None <=> hpc = "none"
  /\ hpc = "eoi" => isr = CASE hnd = 7    -> {}
                            [] hnd = 15   -> {Cascade}
                            [] hnd = Disk -> {Disk, Cascade}
                            [] OTHER      -> {hnd}
  /\ hpc = "eoi2" => hnd \in {15, Disk} /\ isr = IF hnd = Disk THEN {Disk} ELSE {}
  /\ hpc = "iret" => isr = {}

\* The keyboard's request is there just when its controller has a key that no
\* handler is about to read.
KeyPending ==
  /\ Key \in irr => queue # << >>
  /\ hnd = Key /\ hpc = "handler" => Key \notin irr
  /\ pc # "wait" => cursc # 0
  /\ recsc = 1 => cursc # 0

IntIInv == PicInv /\ InService /\ KeyPending

LEMMA Lines == /\ Timer = 0 /\ Key = 1 /\ Cascade = 2 /\ Disk = 14 /\ None = 99
               /\ ~ Second(0) /\ ~ Second(1) /\ ~ Second(2) /\ ~ Second(7)
               /\ Second(14) /\ Second(15)
               /\ Rank(0) = 0 /\ Rank(1) = 1 /\ Rank(2) = 2 /\ Rank(7) = 23 /\ Rank(14) = 14
BY DEF Timer, Key, Cascade, Disk, None, Second, Rank

\* The ends of interrupt clear what was in service for the line, and find nothing
\* else to clear.
LEMMA Ends ==
  /\ isr = {} => Ended(FALSE) = {} /\ Ended(TRUE) = {}
  /\ isr = {Cascade} => Ended(FALSE) = {}
  /\ isr = {Disk, Cascade} => Ended(FALSE) = {Disk}
  /\ isr = {Disk} => Ended(TRUE) = {}
  /\ isr = {Timer} => Ended(FALSE) = {}
  /\ isr = {Key} => Ended(FALSE) = {}
BY Lines DEF Ended, Urgent

LEMMA InitIInv == IntInit => IntIInv
BY KeyboardAssumption DEF IntInit, Init, IntIInv, PicInv, IntTypeOK, TypeOK, InService,
   KeyPending, None, Key

-----------------------------------------------------------------------------
\* The keyboard's variables keep their types.
LEMMA PressOK ==
  ASSUME TypeOK, Press
  PROVE  TypeOK' /\ (queue = << >> => queue' # << >>) /\ (queue # << >> => queue' # << >>)
<1>1. pressed \in Nat /\ pressed' = pressed + 1 /\ pressed' \in 0 .. MaxKeys
  BY KeyboardAssumption DEF TypeOK, Press
<1>2. 1 .. pressed \subseteq 1 .. pressed' /\ pressed' \in 1 .. pressed'
  BY <1>1
<1>3. queue \in Seq(1 .. pressed') /\ got \in Seq(1 .. pressed')
  BY <1>1, <1>2 DEF TypeOK
<1>4. queue' \in Seq(1 .. pressed')
  <2>1. Append(queue, pressed') \in Seq(1 .. pressed')
    BY <1>2, <1>3, AppendProperties
  <2> QED BY <1>3, <2>1 DEF Press
<1>5. TypeOK'
  BY <1>1, <1>3, <1>4 DEF TypeOK, Press
<1>6. queue = << >> => Len(queue) < QueueLen
  BY KeyboardAssumption
<1>7. Append(queue, pressed') # << >>
  BY <1>3
<1> QED BY <1>5, <1>6, <1>7 DEF Press

LEMMA LatchOK ==
  ASSUME TypeOK, kbint
  PROVE  TypeOK' /\ cursc' # 0 /\ queue' = Tail(queue) /\ recsc' = 1
         /\ (Len(queue) > 1 <=> queue' # << >>)
<1>1. queue \in Seq(1 .. pressed) /\ queue # << >> /\ pressed \in Nat
  BY DEF TypeOK, kbint
<1>2. /\ Head(queue) \in 1 .. pressed /\ Tail(queue) \in Seq(1 .. pressed)
      /\ Len(Tail(queue)) = Len(queue) - 1 /\ Len(queue) \in Nat
  BY <1>1, HeadTailProperties, LenProperties
<1>3. Len(queue) > 1 <=> Tail(queue) # << >>
  BY <1>2, EmptySeq
<1>4. /\ recsc' = 1 /\ cursc' = Head(queue) /\ queue' = Tail(queue)
      /\ pressed' = pressed /\ pc' = pc /\ got' = got
  BY DEF kbint, Latch
<1>5. cursc' \in 1 .. pressed
  BY <1>2, <1>4
<1>6. TypeOK'
  BY <1>1, <1>2, <1>4, <1>5 DEF TypeOK
<1> QED BY <1>3, <1>4, <1>5, <1>6

LEMMA GetOK ==
  ASSUME TypeOK, KeyPending, kgetsc
  PROVE  TypeOK' /\ queue' = queue /\ (pc' # "wait" => cursc' # 0) /\ (recsc' = 1 => cursc' # 0)
<1>1. CASE Wait
  BY <1>1 DEF Wait, Ready, TypeOK, KeyPending
<1>2. CASE Clear
  BY <1>2 DEF Clear, ClearFlag, TypeOK, KeyPending
<1>3. CASE Return
  <2>1. cursc \in 1 .. pressed
    BY <1>3 DEF Return, TypeOK, KeyPending
  <2>2. Append(got, cursc) \in Seq(1 .. pressed)
    BY <2>1 DEF TypeOK
  <2> QED BY <1>3, <2>2 DEF Return, TypeOK, KeyPending
<1> QED BY <1>1, <1>2, <1>3 DEF kgetsc
-----------------------------------------------------------------------------
\* The devices.
LEMMA DevicesInv ==
  ASSUME IntIInv, Tick \/ KeyPress \/ DriveDone \/ Noise
  PROVE  IntIInv'
<1> USE DEF IntIInv, PicInv, callVars, hndVars, devVars
<1>1. CASE Tick
  BY <1>1, Lines DEF Tick, vars, IntTypeOK, TypeOK, InService, KeyPending
<1>2. CASE KeyPress
  <2>1. TypeOK' /\ queue' # << >> /\ UNCHANGED << recsc, cursc, pc, got >>
    BY <1>2, PressOK DEF KeyPress, IntTypeOK, Press
  <2>2. CASE queue = << >>
    BY <1>2, <2>1, <2>2, Lines DEF KeyPress, IntTypeOK, InService, KeyPending
  <2>3. CASE queue # << >>
    BY <1>2, <2>1, <2>3, Lines DEF KeyPress, IntTypeOK, InService, KeyPending
  <2> QED BY <2>2, <2>3
<1>3. CASE DriveDone
  BY <1>3, Lines DEF DriveDone, vars, IntTypeOK, TypeOK, InService, KeyPending
<1>4. CASE Noise
  BY <1>4, Lines DEF Noise, vars, IntTypeOK, TypeOK, InService, KeyPending
<1> QED BY <1>1, <1>2, <1>3, <1>4

\* A request is taken: nothing is in service before, and its own bits are after.
LEMMA AcknowledgeInv ==
  ASSUME IntIInv, Acknowledge
  PROVE  IntIInv'
<1> USE DEF IntIInv, PicInv, callVars, devVars
<1>1. hnd = None /\ isr = {} /\ hpc = "none"
  BY DEF Acknowledge, IF_flag, InService
<1>2. UNCHANGED << vars, mode, call, dpc, _ata_irq_called, drive >> /\ ghost' = None /\ hpc' = "handler"
  BY DEF Acknowledge
<1>3. ASSUME NEW r \in {Timer, Key, Disk}, r \in irr, hnd' = r, irr' = irr \ {r},
             isr' = isr \cup (IF Second(r) THEN {r, Cascade} ELSE {r})
      PROVE  IntIInv'
  <2>1. isr' = IF r = Disk THEN {Disk, Cascade} ELSE {r}
    BY <1>1, <1>3, Lines
  <2>2. IntTypeOK'
    BY <1>2, <1>3, <2>1, Lines DEF IntTypeOK, TypeOK, vars
  <2> QED BY <1>2, <1>3, <2>1, <2>2, Lines DEF InService, KeyPending, vars
<1>4. ASSUME ghost # None, hnd' = ghost, UNCHANGED irr,
             isr' = IF Second(ghost) THEN isr \cup {Cascade} ELSE isr
      PROVE  IntIInv'
  <2>1. ghost \in {7, 15}
    BY <1>4 DEF IntTypeOK
  <2>2. isr' = IF ghost = 15 THEN {Cascade} ELSE {}
    BY <1>1, <1>4, <2>1, Lines
  <2>3. IntTypeOK'
    BY <1>2, <1>4, <2>1, <2>2, Lines DEF IntTypeOK, TypeOK, vars
  <2> QED BY <1>1, <1>2, <1>4, <2>1, <2>2, <2>3, Lines DEF InService, KeyPending, vars
<1>5. \A r \in Urgent(Deliverable) : r \in irr /\ r \in {Timer, Key, Disk}
  BY DEF Urgent, Deliverable, IntTypeOK
<1> QED BY <1>3, <1>4, <1>5 DEF Acknowledge

\* The handler, and the ends of interrupt.
LEMMA HandlerInv ==
  ASSUME IntIInv, Handler
  PROVE  IntIInv'
<1> USE DEF IntIInv, PicInv, devVars
<1>1. hpc = "handler" /\ hpc' = "eoi" /\ UNCHANGED << mode, call, dpc, disks, hnd, isr, ghost, drive >>
      /\ _ata_irq_called' \in {0, 1}
  BY DEF Handler, ata_irq, IntTypeOK
<1>2. CASE hnd = Key
  <2>1. TypeOK' /\ cursc' # 0 /\ recsc' = 1 /\ (Len(queue) > 1 <=> queue' # << >>)
    BY <1>2, LatchOK DEF Handler, IntTypeOK
  <2>2. irr' = IF queue' # << >> THEN irr \cup {Key} ELSE irr
    BY <1>2, <2>1 DEF Handler
  <2>3. Key \notin irr
    BY <1>1, <1>2 DEF KeyPending
  <2>4. IntTypeOK'
    BY <1>1, <2>1, <2>2, Lines DEF IntTypeOK
  <2> QED BY <1>1, <1>2, <2>1, <2>2, <2>3, <2>4, Lines DEF InService, KeyPending
<1>3. CASE hnd # Key
  <2>1. UNCHANGED vars /\ irr' = irr
    BY <1>3 DEF Handler
  <2>2. IntTypeOK'
    BY <1>1, <2>1 DEF IntTypeOK, TypeOK, vars
  <2> QED BY <1>1, <1>3, <2>1, <2>2, Lines DEF InService, KeyPending, vars
<1> QED BY <1>2, <1>3

LEMMA EndsInv ==
  ASSUME IntIInv, EoiMaster \/ EoiSlave \/ Iret
  PROVE  IntIInv'
<1> USE DEF IntIInv, PicInv, callVars, devVars, picVars
<1>1. hnd \in {None, Timer, Key, 7, Disk, 15}
  BY DEF IntTypeOK
<1>2. CASE EoiMaster
  <2>1. hpc = "eoi" /\ hnd # None
        /\ UNCHANGED << vars, mode, call, dpc, _ata_irq_called, drive, hnd, irr, ghost >>
    BY <1>2 DEF EoiMaster, InService
  <2>2. /\ isr' = IF hnd = Disk THEN {Disk} ELSE {}
        /\ hpc' = IF hnd \in {Disk, 15} THEN "eoi2" ELSE "iret"
    <3>1. isr' = Ended(FALSE) /\ hpc' = IF Second(hnd) THEN "eoi2" ELSE "iret"
      BY <1>2 DEF EoiMaster, EoiSecond
    <3>2. hnd \in {Timer, Key, 7, Disk, 15}
      BY <1>1, <2>1
    <3>3. isr = IF hnd = 7 THEN {} ELSE IF hnd = 15 THEN {Cascade}
                ELSE IF hnd = Disk THEN {Disk, Cascade} ELSE {hnd}
      BY <2>1, Lines DEF InService
    <3>4. CASE hnd \in {Timer, Key}
      BY <3>1, <3>3, <3>4, Ends, Lines
    <3>5. CASE hnd = 7
      BY <3>1, <3>3, <3>5, Ends, Lines
    <3>6. CASE hnd = 15
      <4>1. isr = {Cascade} /\ Second(hnd) /\ hnd # Disk
        BY <3>3, <3>6, Lines
      <4> QED BY <3>1, <3>6, <4>1, Ends
    <3>7. CASE hnd = Disk
      <4>1. isr = {Disk, Cascade} /\ Second(hnd)
        BY <3>3, <3>7, Lines
      <4> QED BY <3>1, <3>7, <4>1, Ends
    <3> QED BY <3>2, <3>4, <3>5, <3>6, <3>7
  <2>3. IntTypeOK'
    BY <2>1, <2>2, Lines DEF IntTypeOK, TypeOK, vars
  <2> QED BY <1>1, <2>1, <2>2, <2>3, Lines DEF InService, KeyPending, vars
<1>3. CASE EoiSlave
  <2>1. hpc = "eoi2" /\ hnd # None /\ hpc' = "iret"
        /\ UNCHANGED << vars, mode, call, dpc, _ata_irq_called, drive, hnd, irr, ghost >>
    BY <1>3 DEF EoiSlave, InService
  <2>2. isr' = {}
    BY <1>3, <2>1, Ends, Lines DEF EoiSlave, InService
  <2>3. IntTypeOK'
    BY <2>1, <2>2 DEF IntTypeOK, TypeOK, vars
  <2> QED BY <1>1, <2>1, <2>2, <2>3, Lines DEF InService, KeyPending, vars
<1>4. CASE Iret
  BY <1>4, Lines DEF Iret, IntTypeOK, TypeOK, InService, KeyPending, vars
<1> QED BY <1>2, <1>3, <1>4

\* The program, while nothing is handled.
LEMMA ProgramInv ==
  ASSUME IntIInv, Program
  PROVE  IntIInv'
<1> USE DEF IntIInv, PicInv
<1>1. hnd = None /\ hpc = "none" /\ isr = {} /\ UNCHANGED << hnd, hpc >>
  BY DEF Program, InService, hndVars
<1>2. CASE Int80 \/ Sti \/ CliIret
  <2>1. UNCHANGED vars
    BY <1>2 DEF Int80, Sti, CliIret
  <2>2. mode' \in {"user", "enter", "call", "leave"} /\ call' \in {"none", "key", "read", "write"}
        /\ dpc' \in {"none", "wait", "command", "spin", "clear"} /\ _ata_irq_called' = _ata_irq_called
    BY <1>2 DEF Int80, Sti, TurnOn, CliIret, IntTypeOK
  <2>3. UNCHANGED << irr, isr, ghost, drive >>
    BY <1>2 DEF Program, picVars, Int80, Sti, CliIret, ReadWrite, ata_wait
  <2>4. IntTypeOK'
    BY <1>1, <2>1, <2>2, <2>3 DEF IntTypeOK, TypeOK, vars
  <2> QED BY <1>1, <2>1, <2>3, <2>4 DEF InService, KeyPending, vars
<1>3. CASE ReadKey /\ UNCHANGED << picVars, drive >>
  <2>1. TypeOK' /\ queue' = queue /\ (pc' # "wait" => cursc' # 0) /\ (recsc' = 1 => cursc' # 0)
    BY <1>3, GetOK DEF ReadKey, IntTypeOK
  <2>2. IntTypeOK'
    BY <1>1, <1>3, <2>1 DEF ReadKey, picVars, IntTypeOK
  <2> QED BY <1>1, <1>3, <2>1, <2>2 DEF picVars, InService, KeyPending
<1>4. CASE ReadWrite
  <2>1. UNCHANGED << vars, call, irr, isr, ghost >> /\ mode' \in {"user", "enter", "call", "leave"}
        /\ dpc' \in {"none", "wait", "command", "spin", "clear"} /\ _ata_irq_called' \in {0, 1}
        /\ drive' \in {"idle", "busy"}
    BY <1>4 DEF ReadWrite, IntTypeOK, picVars
  <2>2. IntTypeOK'
    BY <1>1, <2>1 DEF IntTypeOK, TypeOK, vars
  <2> QED BY <1>1, <2>1, <2>2 DEF InService, KeyPending, vars
<1>5. CASE ata_wait
  <2>1. UNCHANGED << vars, call, isr, mode, _ata_irq_called, drive >> /\ dpc' = "command"
        /\ irr' \subseteq irr /\ (Key \in irr <=> Key \in irr') /\ ghost' \in {None, 7, 15}
    BY <1>5, Lines DEF ata_wait, IntTypeOK
  <2>2. IntTypeOK'
    BY <1>1, <2>1 DEF IntTypeOK, TypeOK, vars
  <2> QED BY <1>1, <2>1, <2>2 DEF InService, KeyPending, vars
<1> QED BY <1>2, <1>3, <1>4, <1>5 DEF Program

LEMMA IntNextInv == IntIInv /\ [IntNext]_intVars => IntIInv'
<1>1. IntIInv /\ UNCHANGED intVars => IntIInv'
  BY DEF intVars, vars, callVars, picVars, hndVars, devVars, IntIInv, PicInv, IntTypeOK, TypeOK,
         InService, KeyPending
<1> QED BY <1>1, DevicesInv, AcknowledgeInv, HandlerInv, EndsInv, ProgramInv DEF IntNext, irq_handler

-----------------------------------------------------------------------------
\* No bit stays in service without its handler, none of a request that is still to be
\* handled is cleared, and kbint runs only when the keyboard has a key: however timer,
\* keyboard, drive and lines that fall come together.
THEOREM PicInvariant == IntSpec => []PicInv
<1>1. IntIInv => PicInv
  BY DEF IntIInv
<1> QED BY <1>1, InitIInv, IntNextInv, PTL DEF IntSpec

-----------------------------------------------------------------------------
\* The keys as kgetsc is about to return them: those still queued are later than
\* cursc; a return that is under way and has lost its flag (or will, at the next
\* Clear) returns cursc for the second time at most, and one whose flag was set
\* again since returns it for the first.
Coming == recsc = 1 \/ pc # "wait"
Again  == recsc = 1 /\ pc = "read"

KeyOrder ==
  /\ \A i \in 1 .. Len(queue) : cursc < queue[i]
  /\ \A i, j \in 1 .. Len(queue) : i < j => queue[i] < queue[j]
  /\ \A i \in 1 .. Len(got) : got[i] <= cursc
  /\ \A i, j \in 1 .. Len(got) : i + 2 <= j => got[i] < got[j]
  /\ Coming => \A i \in 1 .. Len(got) - 1 : got[i] < cursc
  /\ Again => \A i \in 1 .. Len(got) : got[i] < cursc
  /\ pc = "clear" => recsc = 1

\* A key is worth one return, and cursc is at least the number of keys that came.
KeyCount ==
  /\ Len(got) <= cursc
  /\ Coming => Len(got) + 1 <= cursc
  /\ Again => Len(got) + 2 <= cursc

KeysIInv == KeyOrder /\ KeyCount

LEMMA KeyTypes ==
  ASSUME TypeOK
  PROVE  /\ queue \in Seq(Nat) /\ got \in Seq(Nat) /\ pressed \in Nat /\ cursc \in Nat
         /\ Len(queue) \in Nat /\ Len(got) \in Nat
         /\ \A i \in 1 .. Len(queue) : queue[i] \in Nat /\ queue[i] <= pressed
         /\ \A i \in 1 .. Len(got) : got[i] \in Nat
<1>1. pressed \in Nat /\ cursc \in Nat /\ 1 .. pressed \subseteq Nat
  BY KeyboardAssumption DEF TypeOK
<1>2. queue \in Seq(1 .. pressed) /\ got \in Seq(1 .. pressed)
  BY DEF TypeOK
<1>3. \A i \in 1 .. Len(queue) : queue[i] \in 1 .. pressed
  BY <1>2, ElementOfSeq
<1>4. \A i \in 1 .. Len(got) : got[i] \in 1 .. pressed
  BY <1>2, ElementOfSeq
<1> QED BY <1>1, <1>2, <1>3, <1>4

LEMMA PressKeys ==
  ASSUME TypeOK, KeysIInv, Press
  PROVE  KeysIInv'
<1> USE DEF KeysIInv, KeyOrder, KeyCount, Coming, Again
<1>1. UNCHANGED << recsc, cursc, pc, got >> /\ pressed' = pressed + 1
  BY DEF Press
<1>2. CASE queue' = queue
  BY <1>1, <1>2
<1>3. CASE queue' = Append(queue, pressed + 1)
  <2>1. /\ Len(queue') = Len(queue) + 1 /\ queue'[Len(queue) + 1] = pressed + 1
        /\ \A i \in 1 .. Len(queue) : queue'[i] = queue[i]
    BY <1>3, KeyTypes
  <2>2. cursc <= pressed
    BY DEF TypeOK
  <2>3. \A i \in 1 .. Len(queue') : i \in 1 .. Len(queue) \/ i = Len(queue) + 1
    BY <2>1, KeyTypes
  <2>4. ASSUME NEW i \in 1 .. Len(queue') PROVE cursc < queue'[i]
    <3>1. CASE i \in 1 .. Len(queue)
      BY <2>1, <3>1
    <3>2. CASE i = Len(queue) + 1
      BY <2>1, <2>2, <3>2, KeyTypes
    <3> QED BY <2>3, <3>1, <3>2
  <2>5. ASSUME NEW i \in 1 .. Len(queue'), NEW j \in 1 .. Len(queue'), i < j
        PROVE  queue'[i] < queue'[j]
    <3>1. i \in 1 .. Len(queue)
      BY <2>1, <2>3, <2>5, KeyTypes
    <3>2. CASE j \in 1 .. Len(queue)
      BY <2>1, <2>5, <3>1, <3>2
    <3>3. CASE j = Len(queue) + 1
      <4>1. queue[i] <= pressed /\ queue[i] \in Nat /\ pressed \in Nat
        BY <3>1, KeyTypes
      <4> QED BY <2>1, <3>1, <3>3, <4>1
    <3> QED BY <2>3, <3>2, <3>3
  <2> HIDE DEF TypeOK
  <2> QED BY <1>1, <2>4, <2>5
<1> QED BY <1>1, <1>2, <1>3 DEF Press

LEMMA LatchKeys ==
  ASSUME TypeOK, KeysIInv, kbint
  PROVE  KeysIInv'
<1> USE DEF KeysIInv, KeyOrder, KeyCount, Coming, Again
<1>1. /\ queue # << >> /\ recsc' = 1 /\ cursc' = Head(queue) /\ queue' = Tail(queue)
      /\ UNCHANGED << pressed, pc, got >>
  BY DEF kbint, Latch
<1>2. Len(queue) \in Nat /\ Len(queue) > 0
  BY <1>1, KeyTypes
<1>3. cursc' = queue[1] /\ cursc < queue[1] /\ queue[1] \in Nat /\ cursc \in Nat
  BY <1>1, <1>2, KeyTypes
<1>4. Len(queue') = Len(queue) - 1 /\ \A i \in 1 .. Len(queue) - 1 : queue'[i] = queue[i + 1]
  BY <1>1, <1>2, KeyTypes
<1>5. \A i \in 1 .. Len(queue') : cursc' < queue'[i]
  BY <1>2, <1>3, <1>4
<1>6. \A i, j \in 1 .. Len(queue') : i < j => queue'[i] < queue'[j]
  BY <1>2, <1>4
<1>7. \A i \in 1 .. Len(got) : got[i] < cursc' /\ got[i] \in Nat
  BY <1>3, KeyTypes
<1>8. Len(got) \in Nat /\ cursc + 1 <= cursc'
  BY <1>3, KeyTypes
<1> QED BY <1>1, <1>3, <1>5, <1>6, <1>7, <1>8

LEMMA GetKeys ==
  ASSUME TypeOK, KeysIInv, kgetsc
  PROVE  KeysIInv'
<1> USE DEF KeysIInv, KeyOrder, KeyCount, Coming, Again
<1>1. CASE Wait
  BY <1>1 DEF Wait, Ready
<1>2. CASE Clear
  BY <1>2 DEF Clear, ClearFlag
<1>3. CASE Return
  <2>1. /\ pc = "read" /\ pc' = "wait" /\ got' = Append(got, cursc)
        /\ UNCHANGED << queue, recsc, cursc >>
    BY <1>3 DEF Return
  <2>2. /\ Len(got') = Len(got) + 1 /\ got'[Len(got) + 1] = cursc
        /\ \A i \in 1 .. Len(got) : got'[i] = got[i]
        /\ Len(got) \in Nat /\ cursc \in Nat
    BY <2>1, KeyTypes
  <2>3. \A i \in 1 .. Len(got') : i \in 1 .. Len(got) \/ i = Len(got) + 1
    BY <2>2
  <2>4. \A i \in 1 .. Len(got') : got'[i] <= cursc
    BY <2>2, <2>3
  <2>5. ASSUME NEW i \in 1 .. Len(got'), NEW j \in 1 .. Len(got'), i + 2 <= j
        PROVE  got'[i] < got'[j]
    <3>1. CASE j = Len(got) + 1
      BY <2>1, <2>2, <2>5, <3>1
    <3>2. CASE j # Len(got) + 1
      BY <2>2, <2>3, <2>5, <3>2
    <3> QED BY <3>1, <3>2
  <2>6. recsc = 1 => \A i \in 1 .. Len(got') - 1 : got'[i] < cursc
    BY <2>1, <2>2
  <2>7. Len(got') <= cursc /\ (recsc = 1 => Len(got') + 1 <= cursc)
    BY <2>1, <2>2
  <2> QED BY <2>1, <2>4, <2>5, <2>6, <2>7
<1> QED BY <1>1, <1>2, <1>3 DEF kgetsc

\* Whatever the system does, its keyboard does one of these, or nothing.
LEMMA KeyboardSteps == [IntNext]_intVars => Press \/ kbint \/ kgetsc \/ UNCHANGED vars
BY DEF IntNext, Tick, KeyPress, DriveDone, Noise, Acknowledge, irq_handler, Handler, EoiMaster,
       EoiSlave, Iret, Program, Int80, Sti, CliIret, ReadKey, ReadWrite, ata_wait, intVars

LEMMA KeysAlways == IntSpec => [](IntIInv /\ KeysIInv)
<1>1. IntInit => KeysIInv
  BY DEF IntInit, Init, KeysIInv, KeyOrder, KeyCount, Coming, Again
<1>2. IntIInv /\ KeysIInv /\ [IntNext]_intVars => KeysIInv'
  <2>1. KeysIInv /\ UNCHANGED vars => KeysIInv'
    BY DEF KeysIInv, KeyOrder, KeyCount, Coming, Again, vars
  <2>2. IntIInv => TypeOK
    BY DEF IntIInv, PicInv, IntTypeOK
  <2> QED BY <2>1, <2>2, KeyboardSteps, PressKeys, LatchKeys, GetKeys
<1> QED BY <1>1, <1>2, InitIInv, IntNextInv, PTL DEF IntSpec

\* However keys and interrupts come, no more codes are returned than keys were
\* pressed, and no key is returned three times.
THEOREM KeysAtMostTwice == IntSpec => []AtMostTwice
<1>1. ASSUME TypeOK, KeysIInv PROVE AtMostTwice
  <2>1. Len(got) <= pressed
    BY <1>1, KeyTypes DEF KeysIInv, KeyCount, TypeOK
  <2>2. ASSUME NEW k \in 1 .. pressed PROVE Times(k) <= 2
    <3> DEFINE S == { i \in 1 .. Len(got) : got[i] = k }
    <3>1. \A i, j \in S : i \in Int /\ j \in Int /\ ~ (i + 2 <= j)
      <4>1. \A i, j \in S : i + 2 <= j => got[i] < got[j]
        BY <1>1 DEF KeysIInv, KeyOrder
      <4>2. Len(got) \in Nat
        BY <1>1, KeyTypes
      <4> QED BY <2>2, <4>1, <4>2
    <3> HIDE DEF S
    <3>2. \E m \in Int : S \subseteq {m, m + 1}
      <4>1. CASE S = {}
        BY <4>1
      <4>2. CASE S # {}
        <5>1. PICK m \in S : m \in Int
          BY <3>1, <4>2
        <5>2. CASE m + 1 \in S
          BY <3>1, <5>1, <5>2
        <5>3. CASE m + 1 \notin S
          <6>1. S \subseteq {m - 1, (m - 1) + 1}
            BY <3>1, <5>1, <5>3
          <6> QED BY <5>1, <6>1
        <5> QED BY <5>2, <5>3
      <4> QED BY <4>1, <4>2
    <3>3. PICK m \in Int : S \subseteq {m, m + 1}
      BY <3>2
    <3>4. IsFiniteSet({m, m + 1}) /\ Cardinality({m, m + 1}) = 2
      <4>1. {m, m + 1} = {m} \cup {m + 1} /\ m + 1 \notin {m}
        OBVIOUS
      <4>2. IsFiniteSet({m}) /\ Cardinality({m}) = 1
        BY FS_Singleton
      <4> QED BY <4>1, <4>2, FS_AddElement
    <3>5. Cardinality(S) <= 2
      BY <3>3, <3>4, FS_Subset
    <3> QED BY <3>5 DEF Times, S
  <2> QED BY <2>1, <2>2 DEF AtMostTwice
<1>2. IntIInv => TypeOK
  BY DEF IntIInv, PicInv, IntTypeOK
<1> QED BY <1>1, <1>2, KeysAlways, PTL
===============================================================================
