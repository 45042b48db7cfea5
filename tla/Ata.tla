--------------------------------- MODULE Ata ---------------------------------
(***************************************************************************)
(* The disk driver, src/kernel/disk/ata.c: ata_start_lba, which runs       *)
(* in the system call of a program, ata_irq, which interrupts it, and the  *)
(* drive between them.                                                     *)
(*                                                                         *)
(* The two share three variables: the flag _ata_irq_called, the command    *)
(* _ncmd and the buffer _nbuf.  The flag is not volatile, but the build    *)
(* does not optimise, so that every turn of the loop reads it.             *)
(*                                                                         *)
(* The drive is external.  It does what the driver relies on: a command    *)
(* makes it busy, for a write once the data has come as well; it ends with *)
(* an interrupt; while it is busy it ignores what is written to its ports, *)
(* and when it has no data to give, what is read from them is no data.     *)
(*                                                                         *)
(* A call moves one sector, as volumes with clusters of one have it done.  *)
(* The commands for several sectors, READ and WRITE MULTIPLE, are left     *)
(* out: how often a drive interrupts in one depends on a setting that the  *)
(* driver leaves as it is.                                                 *)
(***************************************************************************)
EXTENDS Naturals

CONSTANTS
  Sectors,      \* the sectors of the drive
  Bufs,         \* the buffers the callers read into
  NULL,         \* no buffer
  NoData        \* what the data port gives when there is nothing to read

ASSUME AtaAssumption ==
  /\ NoData \notin Sectors
  /\ NULL \notin Bufs

\* What a sector holds, and what is sent, is told by the sector it is meant for.
Content == Sectors

VARIABLES
  pc,               \* where ata_start_lba is
  req,              \* its arguments: cmd, s, buf, and what a write carries
  _ata_irq_called,
  _ncmd, _nbuf,
  bufs,             \* what the buffers hold
  st,               \* what the drive does: idle, reading, ready with data to be
                    \* read (drq), waiting for data to write (take), or writing
  err,              \* its ERR bit
  sect, data,       \* its address registers, and its buffer
  intrq,            \* it has asked for an interrupt
  disk,             \* what is on it
  overrun,          \* a port was written while the drive was busy
  canWrite, canFail \* whether callers write, and whether the drive can fail, in
                    \* the behaviour at hand

cpuVars == << pc, req >>
sharedVars == << _ata_irq_called, _ncmd, _nbuf >>
driveVars == << st, err, sect, data, disk >>
givenVars == << canWrite, canFail >>
ataVars == << pc, req, _ata_irq_called, _ncmd, _nbuf, bufs, st, err, sect, data, intrq, disk,
           overrun, canWrite, canFail >>

READ == 32      \* ATA_CMD_READ
WRITE == 48     \* ATA_CMD_WRITE

\* The drive ignores its ports when it is busy.
Busy == st \in {"reading", "writing"}

\* Nothing has been asked for yet; the values the request begins with are not
\* looked at.
AtaInit ==
  /\ pc = "idle"
  /\ \E s \in Sectors : req = [cmd |-> READ, s |-> s, buf |-> NULL, v |-> NoData]
  /\ _ata_irq_called = 0 /\ _ncmd = 0 /\ _nbuf = NULL
  /\ bufs = [b \in Bufs |-> NoData]
  /\ st = "idle" /\ err = FALSE /\ sect = req.s /\ data = NoData
  /\ intrq = FALSE
  /\ disk = [s \in Sectors |-> s]
  /\ overrun = FALSE /\ canWrite \in BOOLEAN /\ canFail \in BOOLEAN

-----------------------------------------------------------------------------
\* A caller asks for a sector to be read into a buffer, or to be written.
Start ==
  /\ pc = "idle"
  /\ \E s \in Sectors :
       \/ \E b \in Bufs : req' = [cmd |-> READ, s |-> s, buf |-> b, v |-> NoData]
       \/ canWrite /\ req' = [cmd |-> WRITE, s |-> s, buf |-> NULL, v |-> s]
  /\ pc' = "wait"
  /\ UNCHANGED << sharedVars, bufs, driveVars, intrq, overrun >>

\* `status & (ATA_BSY|ATA_DRDY) != ATA_DRDY' is `status & 1': the loop goes on
\* while the drive shows an error, and does not look at whether it is busy.
\* A drive shows no error while it is busy.
WaitOver == ~ err

ata_wait ==
  /\ pc = "wait" /\ WaitOver
  /\ pc' = "address"
  /\ UNCHANGED << req, sharedVars, bufs, driveVars, intrq, overrun >>

\* Mutation: the address not sent.
KeepAddress == UNCHANGED sect
SetAddress == sect' = req.s

\* portbout of the sector's address, which a drive that is busy ignores.
Address ==
  /\ pc = "address"
  /\ IF Busy THEN UNCHANGED sect ELSE SetAddress
  /\ overrun' = (overrun \/ Busy)
  /\ pc' = IF req.cmd = READ THEN "store" ELSE "command"
  /\ UNCHANGED << req, sharedVars, bufs, st, err, data, disk, intrq >>

\* A read leaves word for the interrupt handler before it gives the command.
StoreRequest ==
  /\ pc = "store"
  /\ _ncmd' = READ /\ _nbuf' = req.buf
  /\ pc' = "command"
  /\ UNCHANGED << req, _ata_irq_called, bufs, driveVars, intrq, overrun >>

\* Mutation: the flag not waited for.
NoSpin(cmd) == IF cmd = READ THEN "clear" ELSE "outsl"

AfterCommand(cmd) == IF cmd = READ THEN "spin" ELSE "outsl"

\* portbout of the command, which may come when the drive is no longer busy with
\* what made it ignore the address.
Command ==
  /\ pc = "command"
  /\ IF Busy THEN UNCHANGED << st, err >>
     ELSE st' = (IF req.cmd = READ THEN "reading" ELSE "take") /\ err' = FALSE
  /\ overrun' = (overrun \/ Busy)
  /\ pc' = AfterCommand(req.cmd)
  /\ UNCHANGED << req, sharedVars, bufs, sect, data, disk, intrq >>

Takes == st = "take"

\* The data of a write, sent at once; nobody waits for it to be written.
Outsl ==
  /\ pc = "outsl"
  /\ IF Takes THEN st' = "writing" /\ data' = req.v ELSE UNCHANGED << st, data >>
  /\ pc' = "idle"
  /\ UNCHANGED << req, sharedVars, bufs, err, sect, intrq, disk, overrun >>

\* while (!_ata_irq_called) {}
Spin ==
  /\ pc = "spin" /\ _ata_irq_called = 1
  /\ pc' = "clear"
  /\ UNCHANGED << req, sharedVars, bufs, driveVars, intrq, overrun >>

\* Mutation: the flag left set for the next read to find.
KeepFlag == _ata_irq_called' = _ata_irq_called
ClearFlag == _ata_irq_called' = 0

Clear ==
  /\ pc = "clear"
  /\ ClearFlag
  /\ pc' = "idle"
  /\ UNCHANGED << req, _ncmd, _nbuf, bufs, driveVars, intrq, overrun >>

ata_start_lba == ata_wait \/ Address \/ StoreRequest \/ Command \/ Outsl \/ Spin \/ Clear

-----------------------------------------------------------------------------
\* Mutation: the handler does not say that it ran.
NoFlag == _ata_irq_called' = _ata_irq_called
SetFlag == _ata_irq_called' = 1

\* The interrupt handler runs to its end between two steps of ata_start_lba.
\* It reads data after any command, once a read has been asked for: _ncmd is
\* never set to anything else.
ata_irq ==
  /\ intrq
  /\ intrq' = FALSE
  /\ SetFlag
  /\ IF _ncmd = READ
     THEN /\ bufs' = [bufs EXCEPT ![_nbuf] = IF st = "drq" THEN data ELSE NoData]
          /\ st' = IF st = "drq" THEN "idle" ELSE st
     ELSE UNCHANGED << bufs, st >>
  /\ UNCHANGED << cpuVars, _ncmd, _nbuf, err, sect, data, disk, overrun >>

\* The drive ends a command, with success or with an error.
DriveDone ==
  /\ Busy
  /\ intrq' = TRUE
  /\ st' = IF st = "reading" THEN "drq" ELSE "idle"
  /\ disk' = IF st = "writing" THEN [disk EXCEPT ![sect] = data] ELSE disk
  /\ data' = IF st = "reading" THEN disk[sect] ELSE data
  /\ UNCHANGED << cpuVars, sharedVars, bufs, err, sect, overrun >>

DriveFails ==
  /\ canFail /\ Busy
  /\ intrq' = TRUE /\ st' = "idle" /\ err' = TRUE
  /\ UNCHANGED << cpuVars, sharedVars, bufs, sect, data, disk, overrun >>

AtaNext == /\ Start \/ ata_start_lba \/ ata_irq \/ DriveDone \/ DriveFails
        /\ UNCHANGED givenVars

\* The processor runs, the drive ends what it begins, and an interrupt is taken:
\* ksysint enables interrupts for as long as a call lasts.
Fairness == /\ WF_ataVars(ata_start_lba /\ UNCHANGED givenVars)
            /\ WF_ataVars(ata_irq /\ UNCHANGED givenVars)
            /\ WF_ataVars((DriveDone \/ DriveFails) /\ UNCHANGED givenVars)

AtaSpec == AtaInit /\ [][AtaNext]_ataVars /\ Fairness

-----------------------------------------------------------------------------
AtaTypeOK ==
  /\ pc \in {"idle", "wait", "address", "store", "command", "outsl", "spin", "clear"}
  /\ req \in [cmd : {READ, WRITE}, s : Sectors, buf : Bufs \cup {NULL},
              v : Content \cup {NoData}]
  /\ _ata_irq_called \in {0, 1} /\ _ncmd \in {0, READ} /\ _nbuf \in Bufs \cup {NULL}
  /\ bufs \in [Bufs -> Content \cup {NoData}]
  /\ st \in {"idle", "reading", "drq", "take", "writing"} /\ err \in BOOLEAN
  /\ sect \in Sectors /\ data \in Content \cup {NoData}
  /\ intrq \in BOOLEAN /\ overrun \in BOOLEAN
  /\ disk \in [Sectors -> Content]

\* A read that returns has put the sector that was asked for in the buffer, in
\* a behaviour without writes, whose interrupts look the same, and failures.
ReadReturnsData ==
  [][ ~ canWrite /\ ~ canFail /\ pc = "clear" /\ pc' = "idle"
        => bufs[req.buf] = disk[req.s] ]_ataVars

\* ata.c:195: the handler reads data "if needed": it stores into a buffer only
\* while a read into that buffer waits for it, also from a drive that fails.
TransfersNeeded ==
  [][ ~ canWrite => \A b \in Bufs : bufs'[b] # bufs[b] => pc = "spin" /\ req.buf = b ]_ataVars

\* No sector gets what was meant for another, as long as no call came to a drive
\* that was still busy with the last: such a call loses its address, or its data.
NothingMisplaced == ~ overrun => \A s \in Sectors : disk[s] = s

AtaInv == AtaTypeOK /\ NothingMisplaced

\* Every read comes back, whatever commands the drive ignored, whichever write
\* ended late, and whether it failed.
ReadsReturn == pc = "spin" ~> pc = "idle"

\* ata.c:28: ata_wait is there to "wait for ide to become ready": a command is
\* given only to a drive that is not busy.
ReadyWhenCommanded == [][ Command => ~ Busy ]_ataVars
======================================================================
