------------------------------ MODULE DriverProofs ------------------------------
(***************************************************************************)
(* Theorems about the drivers that programs reach through descriptors: the *)
(* disk driver and its drive, for every set of sectors and of buffers; and *)
(* the console, for every size of the screen, whatever is printed and      *)
(* painted, and for lines that are typed in any way into buffers of any    *)
(* size.  The specification of the disk driver is AtaSpec, the console's   *)
(* is Spec; they have no state in common.                                  *)
(***************************************************************************)
EXTENDS Ata, Console, RecursionLemmas, TLAPS

-----------------------------------------------------------------------------
AddressSent == pc \in {"store", "command", "outsl", "spin", "clear"}

\* A write carries its own sector's data, and only a write gets as far as sending
\* it; what is being written is data.
WriteOK ==
  /\ req.cmd = WRITE => req.v = req.s
  /\ pc = "outsl" => req.cmd = WRITE
  /\ pc \in {"store", "spin", "clear"} => req.cmd = READ
  /\ st = "writing" => data \in Content

\* While no call has come to a busy drive, the drive has the address it was sent.
PlaceInv ==
  ~ overrun => /\ \A s \in Sectors : disk[s] = s
               /\ AddressSent => sect = req.s
               /\ st = "writing" => data = sect

\* When nothing is written, the drive works, asks for an interrupt or has been
\* handled just while a read waits for it, one after the other.
ReadInv ==
  ~ canWrite => /\ req.cmd = READ
                /\ Busy => st = "reading" /\ pc = "spin" /\ ~ intrq /\ _ata_irq_called = 0
                /\ intrq => pc = "spin" /\ _ata_irq_called = 0
                /\ _ata_irq_called = 1 => pc \in {"spin", "clear"}
                /\ pc \in {"command", "spin", "clear"} =>
                     _ncmd = READ /\ _nbuf = req.buf /\ req.buf \in Bufs
                /\ pc # "idle" => req.buf \in Bufs
                /\ pc = "clear" => _ata_irq_called = 1
                /\ ~ overrun

\* ... and the data follows it: from the sector into the drive's buffer, and from
\* there into the caller's.
DataInv ==
  ~ canWrite /\ ~ canFail =>
     /\ intrq => st = "drq" /\ data = disk[req.s]
     /\ _ata_irq_called = 1 => bufs[req.buf] = disk[req.s]
     /\ pc = "spin" /\ _ata_irq_called = 0 => Busy \/ intrq

AtaIInv == AtaTypeOK /\ WriteOK /\ PlaceInv /\ ReadInv /\ DataInv

LEMMA InitIInv == AtaInit => AtaIInv
<1> SUFFICES ASSUME AtaInit PROVE AtaIInv
  OBVIOUS
<1> USE DEF AtaInit, Content, READ, WRITE
<1>1. PICK s \in Sectors : req = [cmd |-> READ, s |-> s, buf |-> NULL, v |-> NoData]
  OBVIOUS
<1>2. AtaTypeOK
  BY <1>1 DEF AtaTypeOK
<1>3. WriteOK /\ PlaceInv
  BY <1>1 DEF WriteOK, PlaceInv
<1>4. ReadInv /\ DataInv
  BY <1>1 DEF ReadInv, DataInv, Busy
<1> QED BY <1>2, <1>3, <1>4 DEF AtaIInv

-----------------------------------------------------------------------------
\* The steps of the driver.
LEMMA StartInv == AtaIInv /\ Start /\ UNCHANGED givenVars => AtaIInv'
<1> SUFFICES ASSUME AtaIInv, Start, UNCHANGED givenVars PROVE AtaIInv'
  OBVIOUS
<1> USE DEF AtaIInv, Start, sharedVars, driveVars, givenVars, Content, READ, WRITE
<1>1. AtaTypeOK'
  BY DEF AtaTypeOK
<1>2. WriteOK'
  BY DEF AtaTypeOK, WriteOK
<1>3. PlaceInv'
  BY DEF PlaceInv, AddressSent
<1>4. ReadInv'
  BY DEF ReadInv, Busy
<1>5. DataInv'
  BY DEF DataInv, ReadInv, Busy
<1> QED BY <1>1, <1>2, <1>3, <1>4, <1>5

LEMMA DriverInv == AtaIInv /\ ata_start_lba /\ UNCHANGED givenVars => AtaIInv'
<1> SUFFICES ASSUME AtaIInv, ata_start_lba, UNCHANGED givenVars PROVE AtaIInv'
  OBVIOUS
<1> USE DEF AtaIInv, sharedVars, driveVars, givenVars, Content, READ, WRITE
<1>1. CASE ata_wait
  BY <1>1 DEF ata_wait, AtaTypeOK, WriteOK, PlaceInv, ReadInv, DataInv, AddressSent, Busy
<1>2. CASE Address
  <2> USE <1>2 DEF Address, SetAddress
  <2>1. AtaTypeOK'
    BY DEF AtaTypeOK, Busy
  <2>2. WriteOK'
    BY DEF AtaTypeOK, WriteOK
  <2>3. PlaceInv'
    BY DEF AtaTypeOK, PlaceInv, AddressSent, Busy
  <2>4. ReadInv'
    BY DEF AtaTypeOK, ReadInv, Busy
  <2>5. DataInv'
    BY DEF AtaTypeOK, DataInv, ReadInv, Busy
  <2> QED BY <2>1, <2>2, <2>3, <2>4, <2>5
<1>3. CASE StoreRequest
  <2> USE <1>3 DEF StoreRequest
  <2>1. AtaTypeOK' /\ WriteOK' /\ PlaceInv'
    BY DEF AtaTypeOK, WriteOK, PlaceInv, AddressSent
  <2>2. ReadInv' /\ DataInv'
    BY DEF ReadInv, DataInv, Busy
  <2> QED BY <2>1, <2>2
<1>4. CASE Command
  <2> USE <1>4 DEF Command, AfterCommand
  <2>1. AtaTypeOK'
    BY DEF AtaTypeOK, Busy
  <2>2. WriteOK'
    BY DEF AtaTypeOK, WriteOK, Busy
  <2>3. PlaceInv'
    BY DEF AtaTypeOK, PlaceInv, AddressSent, Busy
  <2>4. ReadInv'
    BY DEF AtaTypeOK, ReadInv, Busy
  <2>5. DataInv'
    BY DEF AtaTypeOK, DataInv, ReadInv, Busy
  <2> QED BY <2>1, <2>2, <2>3, <2>4, <2>5
<1>5. CASE Outsl
  <2> USE <1>5 DEF Outsl, Takes
  <2>1. AtaTypeOK'
    BY DEF AtaTypeOK, WriteOK
  <2>2. WriteOK'
    BY DEF AtaTypeOK, WriteOK
  <2>3. PlaceInv'
    BY DEF AtaTypeOK, WriteOK, PlaceInv, AddressSent
  <2>4. ReadInv' /\ DataInv'
    BY DEF AtaTypeOK, WriteOK, ReadInv, DataInv
  <2> QED BY <2>1, <2>2, <2>3, <2>4
<1>6. CASE Spin
  BY <1>6 DEF Spin, AtaTypeOK, WriteOK, PlaceInv, ReadInv, DataInv, AddressSent, Busy
<1>7. CASE Clear
  <2> USE <1>7 DEF Clear, ClearFlag
  <2>1. AtaTypeOK' /\ WriteOK' /\ PlaceInv'
    BY DEF AtaTypeOK, WriteOK, PlaceInv, AddressSent
  <2>2. ReadInv' /\ DataInv'
    BY DEF AtaTypeOK, ReadInv, DataInv, Busy
  <2> QED BY <2>1, <2>2
<1> QED BY <1>1, <1>2, <1>3, <1>4, <1>5, <1>6, <1>7 DEF ata_start_lba

-----------------------------------------------------------------------------
\* The steps that come in between.
LEMMA IrqInv == AtaIInv /\ ata_irq /\ UNCHANGED givenVars => AtaIInv'
<1> SUFFICES ASSUME AtaIInv, ata_irq, UNCHANGED givenVars PROVE AtaIInv'
  OBVIOUS
<1> USE DEF AtaIInv, ata_irq, SetFlag, cpuVars, givenVars, Content, READ, WRITE
<1>1. AtaTypeOK'
  <2>1. bufs' \in [Bufs -> Content \cup {NoData}]
    <3>1. (IF st = "drq" THEN data ELSE NoData) \in Content \cup {NoData}
      BY DEF AtaTypeOK
    <3> QED BY <3>1 DEF AtaTypeOK
  <2>2. st' \in {"idle", "reading", "drq", "take", "writing"}
    BY DEF AtaTypeOK
  <2> QED BY <2>1, <2>2 DEF AtaTypeOK
<1>2. WriteOK' /\ PlaceInv'
  BY DEF WriteOK, PlaceInv, AddressSent
<1>3. ReadInv'
  BY DEF AtaTypeOK, ReadInv, Busy
<1>4. DataInv'
  BY DEF AtaTypeOK, ReadInv, DataInv, Busy
<1> QED BY <1>1, <1>2, <1>3, <1>4

LEMMA DriveInv == AtaIInv /\ (DriveDone \/ DriveFails) /\ UNCHANGED givenVars => AtaIInv'
<1> SUFFICES ASSUME AtaIInv, DriveDone \/ DriveFails, UNCHANGED givenVars PROVE AtaIInv'
  OBVIOUS
<1> USE DEF AtaIInv, cpuVars, sharedVars, givenVars, Content, READ, WRITE
<1>1. CASE DriveDone
  <2> USE <1>1 DEF DriveDone
  <2>1. AtaTypeOK'
    BY DEF AtaTypeOK, WriteOK
  <2>2. WriteOK'
    BY DEF AtaTypeOK, WriteOK
  <2>3. PlaceInv'
    BY DEF AtaTypeOK, PlaceInv, AddressSent
  <2>4. ReadInv'
    BY DEF AtaTypeOK, ReadInv, Busy
  <2>5. DataInv'
    BY DEF AtaTypeOK, PlaceInv, ReadInv, DataInv, AddressSent, Busy
  <2> QED BY <2>1, <2>2, <2>3, <2>4, <2>5
<1>2. CASE DriveFails
  BY <1>2 DEF DriveFails, AtaTypeOK, WriteOK, PlaceInv, ReadInv, DataInv, AddressSent, Busy
<1> QED BY <1>1, <1>2

LEMMA NextInv == AtaIInv /\ [AtaNext]_ataVars => AtaIInv'
<1>1. AtaIInv /\ UNCHANGED ataVars => AtaIInv'
  BY DEF ataVars, AtaIInv, AtaTypeOK, WriteOK, PlaceInv, ReadInv, DataInv, AddressSent, Busy, Content
<1> QED BY <1>1, StartInv, DriverInv, IrqInv, DriveInv DEF AtaNext

-----------------------------------------------------------------------------
LEMMA SpecIInv == AtaSpec => []AtaIInv
BY InitIInv, NextInv, PTL DEF AtaSpec

\* No sector gets the data of another, in any order of calls, interrupts and
\* failures, as long as no call comes to a drive that is still busy.
THEOREM AtaInvariant == AtaSpec => []AtaInv
<1>1. AtaIInv => AtaInv
  BY DEF AtaIInv, AtaInv, NothingMisplaced, PlaceInv
<1> QED BY <1>1, SpecIInv, PTL

\* A read that comes back has put the sector that was asked for into the buffer,
\* when nothing is written and the drive does not fail: wherever the interrupt
\* comes between the command and the loop that waits for it.
THEOREM AtaReadReturnsData == AtaSpec => ReadReturnsData
<1>1. AtaIInv /\ [AtaNext]_ataVars =>
        [ ~ canWrite /\ ~ canFail /\ pc = "clear" /\ pc' = "idle"
            => bufs[req.buf] = disk[req.s] ]_ataVars
  BY DEF AtaIInv, ReadInv, DataInv
<1> QED BY <1>1, SpecIInv, PTL DEF AtaSpec, ReadReturnsData

\* When nothing is written, a buffer changes only while a read into it waits.
THEOREM AtaTransfersNeeded == AtaSpec => TransfersNeeded
<1> DEFINE Needed == ~ canWrite => \A b \in Bufs : bufs'[b] # bufs[b] => pc = "spin" /\ req.buf = b
<1>1. ASSUME AtaIInv, AtaNext PROVE Needed
  <2>1. CASE ata_irq
    BY <1>1, <2>1 DEF ata_irq, AtaIInv, AtaTypeOK, ReadInv
  <2>2. CASE ~ ata_irq
    BY <1>1, <2>2 DEF AtaNext, Start, ata_start_lba, ata_wait, Address, StoreRequest, Command, Outsl,
                      Spin, Clear, DriveDone, DriveFails
  <2> QED BY <2>1, <2>2
<1>2. AtaIInv /\ [AtaNext]_ataVars => [Needed]_ataVars
  BY <1>1
<1> QED BY <1>2, SpecIInv, PTL DEF AtaSpec, TransfersNeeded

-----------------------------------------------------------------------------
\* The text with the picture in memory: what a character printed changes.
Texts == [text : [Cells -> Chars \cup {Nul}], idx : Cells, pic : [Cells -> Cell]]

LEMMA SizeFacts ==
  /\ W \in Nat \ {0} /\ H \in Nat \ {0} /\ Size \in Nat \ {0}
  /\ lr \in Cells /\ lr + W = Size
  /\ MaxLine \in Nat /\ MaxLine <= lr
<1>1. W \in Nat \ {0} /\ H \in Nat \ {0} /\ H - 1 \in Nat
  BY ConsoleAssumption
<1>2. W * (H - 1) \in Nat /\ W * H = W * (H - 1) + W
  BY <1>1
<1>3. MaxLine \in 0 .. W * (H - 1)
  BY ConsoleAssumption
<1> QED BY <1>1, <1>2, <1>3 DEF Size, lr, Cells

LEMMA ScrollOK ==
  ASSUME NEW t \in [Cells -> Chars \cup {Nul}], NEW i \in Nat
  PROVE  /\ kscroll(t, i).text \in [Cells -> Chars \cup {Nul}]
         /\ kscroll(t, i).idx \in Cells
<1>1. CASE i < Size
  BY <1>1, SizeFacts DEF kscroll, Cells
<1>2. CASE ~ (i < Size)
  <2>1. \A j \in Cells : j < lr => j + W \in Cells
    BY SizeFacts DEF Cells
  <2> DEFINE u == [j \in Cells |-> IF j < lr THEN t[j + W] ELSE Nul]
  <2>2. u \in [Cells -> Chars \cup {Nul}]
    BY <2>1
  <2> HIDE DEF u
  <2>3. kscroll(t, i) = [text |-> u, idx |-> lr]
    BY <1>2 DEF kscroll, u
  <2> QED BY <2>2, <2>3, SizeFacts
<1> QED BY <1>1, <1>2

LEMMA FlushOK ==
  ASSUME NEW p \in [Cells -> Cell], NEW x, x.text \in [Cells -> Chars \cup {Nul}]
  PROVE  /\ kflush(p, x) \in [Cells -> Cell]
         /\ \A i \in Cells : x.text[i] # High => kflush(p, x)[i] = <<x.text[i], i = x.idx>>
<1> DEFINE c(i) == vga_draw_char_fill(p, x.text, i)
<1>1. ASSUME NEW i \in Cells
      PROVE  /\ c(i) \in Cell
             /\ x.text[i] # High => c(i) = <<x.text[i], FALSE>> /\ c(i)[1] = x.text[i]
  <2>1. p[i] \in Cell /\ <<x.text[i], FALSE>> \in Cell
    BY DEF Cell
  <2> QED BY <2>1 DEF vga_draw_char_fill
<1> DEFINE d(i) == IF i = x.idx THEN <<c(i)[1], TRUE>> ELSE c(i)
<1>2. kflush(p, x) = [i \in Cells |-> d(i)]
  BY DEF kflush
<1>3. ASSUME NEW i \in Cells
      PROVE  /\ d(i) \in Cell
             /\ x.text[i] # High => d(i) = <<x.text[i], i = x.idx>>
  <2> HIDE DEF c
  <2>1. c(i)[1] \in Chars \cup {Nul} /\ <<c(i)[1], TRUE>> \in Cell
    BY <1>1 DEF Cell
  <2>2. CASE i = x.idx
    <3>1. d(i) = <<c(i)[1], TRUE>> /\ (i = x.idx) = TRUE
      BY <2>2
    <3>2. x.text[i] # High => c(i)[1] = x.text[i]
      BY <1>1
    <3> HIDE DEF d
    <3> QED BY <2>1, <3>1, <3>2
  <2>3. CASE i # x.idx
    BY <1>1, <2>3
  <2> QED BY <2>2, <2>3
<1> HIDE DEF d
<1> QED BY <1>2, <1>3

LEMMA kprintcOK ==
  ASSUME NEW x \in Texts, NEW c \in Chars \cup {NL}
  PROVE  kprintc(x, c) \in Texts
<1>1. /\ x.text \in [Cells -> Chars \cup {Nul}] /\ x.idx \in Cells /\ x.pic \in [Cells -> Cell]
  BY DEF Texts
<1> DEFINE s == IF c = NL THEN kscroll(x.text, x.idx + (W - (x.idx % W)))
                ELSE kscroll([x.text EXCEPT ![x.idx] = c], x.idx + 1)
<1>2. s.text \in [Cells -> Chars \cup {Nul}] /\ s.idx \in Cells
  <2>1. CASE c = NL
    <3>1. x.idx \in Nat /\ W \in Nat \ {0}
      BY <1>1, SizeFacts DEF Cells
    <3>2. x.idx % W \in 0 .. W - 1
      BY <3>1
    <3>3. x.idx + (W - (x.idx % W)) \in Nat
      BY <3>1, <3>2
    <3> QED BY <1>1, <2>1, <3>3, ScrollOK
  <2>2. CASE c # NL
    <3>1. x.idx + 1 \in Nat /\ [x.text EXCEPT ![x.idx] = c] \in [Cells -> Chars \cup {Nul}]
      BY <1>1, <2>2 DEF Cells
    <3> QED BY <2>2, <3>1, ScrollOK
  <2> QED BY <2>1, <2>2
<1> HIDE DEF s
<1>3. kflush(x.pic, s) \in [Cells -> Cell]
  BY <1>1, <1>2, FlushOK
<1>4. kprintc(x, c) = [text |-> s.text, idx |-> s.idx,
                       pic |-> IF c = NL THEN kflush(x.pic, s) ELSE x.pic]
  BY DEF kprintc, s
<1> QED BY <1>1, <1>2, <1>3, <1>4 DEF Texts

\* However many characters are printed.
LEMMA PrintedOK ==
  ASSUME NEW x \in Texts, NEW s \in Seq(Chars \cup {NL})
  PROVE  Printed(x, s) \in Texts
<1> DEFINE n == Len(s)
           Is(f) == f = [k \in 0 .. n |-> IF k = 0 THEN x ELSE kprintc(f[k - 1], s[k])]
           g == [k \in 1 .. n |-> [y \in Texts |-> kprintc(y, s[k])]]
<1>1. n \in Nat
  OBVIOUS
<1>2. g \in [1 .. n -> [Texts -> Texts]]
  BY kprintcOK
<1>3. PICK f \in [0 .. n -> Texts] : Iterates(f, x, g, n)
  <2> HIDE DEF g, n
  <2> QED BY <1>1, <1>2, Recursion
<1>4. ASSUME NEW k \in 1 .. n PROVE f[k] = kprintc(f[k - 1], s[k])
  <2>1. f[k - 1] \in Texts
    BY <1>1
  <2> QED BY <1>3, <2>1 DEF Iterates
<1>5. Is(f)
  <2>1. \A k \in 0 .. n : f[k] = IF k = 0 THEN x ELSE kprintc(f[k - 1], s[k])
    BY <1>1, <1>3, <1>4 DEF Iterates
  <2> HIDE DEF n
  <2> QED BY <2>1
<1>6. ASSUME NEW h, Is(h) PROVE h = f
  <2>1. UpTo(h, n) /\ UpTo(f, n)
    BY <1>1, <1>6 DEF UpTo
  <2>2. SameNext(f, h, n)
    BY <1>1, <1>3, <1>4, <1>6 DEF SameNext, Iterates
  <2> HIDE DEF n, Is
  <2> QED BY <1>1, <2>1, <2>2, Unique
<1>7. Printed(x, s) = (CHOOSE h : Is(h))[n]
  BY DEF Printed
<1>8. (CHOOSE h : Is(h)) = f
  <2> HIDE DEF Is
  <2>1. Is(CHOOSE h : Is(h))
    BY <1>5, Zenon
  <2> QED BY <1>6, <2>1
<1>9. f[n] \in Texts
  BY <1>1
<1> HIDE DEF Is, n
<1> QED BY <1>7, <1>8, <1>9

-----------------------------------------------------------------------------
\* The inductive invariant.  That echo and buffer agree while the line fits is not
\* inductive: a line that became too long can be erased until it fits again.  As much
\* of it as was stored always agrees, and its echo is on the screen.
Echo == reading => /\ nch <= idx
                   /\ \A i \in 0 .. nch - 1 :
                        i < sz - 1 => textbuf[idx - nch + i] = buf[i]

ConsoleIInv == TypeOK /\ nch <= longest /\ Echo /\ BufferKept /\ ScreenShowsText

LEMMA TypeFacts ==
  ASSUME TypeOK
  PROVE  /\ Now \in Texts /\ Now.text = textbuf /\ Now.idx = idx /\ Now.pic = vga_addr
         /\ idx \in Nat /\ idx < Size /\ idx \in Cells
         /\ sz \in Nat /\ nch \in Nat /\ nch <= MaxLine /\ MaxLine \in Nat /\ MaxBuf \in Nat
         /\ nch \in Reach /\ longest \in Nat
<1>1. MaxLine \in Nat /\ MaxBuf \in Nat /\ Size \in Nat
  BY SizeFacts, ConsoleAssumption
<1> QED BY <1>1 DEF TypeOK, IdxInText, Texts, Now, Cells, Reach

\* What is shown is typed, and is what the text is.
LEMMA ShownOK ==
  ASSUME NEW x \in Texts, Shown(x)
  PROVE  /\ textbuf' \in [Cells -> Chars \cup {Nul}] /\ idx' \in Cells
         /\ vga_addr' \in [Cells -> Cell] /\ screen' \in [Cells -> Cell \cup {Painted}]
         /\ ScreenShowsText'
<1>1. x.text \in [Cells -> Chars \cup {Nul}] /\ x.idx \in Cells /\ x.pic \in [Cells -> Cell]
  BY DEF Texts
<1>2. /\ kflush(x.pic, x) \in [Cells -> Cell]
      /\ \A i \in Cells : x.text[i] # High => kflush(x.pic, x)[i] = <<x.text[i], i = x.idx>>
  BY <1>1, FlushOK
<1>3. textbuf' = x.text /\ idx' = x.idx /\ vga_addr' = kflush(x.pic, x) /\ screen' = vga_addr'
  BY DEF Shown
<1>4. ScreenShowsText'
  BY <1>2, <1>3 DEF ScreenShowsText
<1> QED BY <1>1, <1>2, <1>3, <1>4

LEMMA WriteInv ==
  ASSUME ConsoleIInv, _stdio_write
  PROVE  ConsoleIInv'
<1>1. PICK s \in SeqOf((Chars \ {Query}) \cup {NL}, MaxOut) : Shown(Printed(Now, s))
  BY DEF _stdio_write
<1>2. s \in Seq(Chars \cup {NL})
  BY ConsoleAssumption DEF SeqOf
<1>3. Printed(Now, s) \in Texts
  BY <1>2, TypeFacts, PrintedOK DEF ConsoleIInv
<1>4. /\ textbuf' \in [Cells -> Chars \cup {Nul}] /\ idx' \in Cells
      /\ vga_addr' \in [Cells -> Cell] /\ screen' \in [Cells -> Cell \cup {Painted}]
      /\ ScreenShowsText'
  BY <1>1, <1>3, ShownOK
<1>5. ~ reading /\ UNCHANGED << buf, sz, reading, nch, sh, longest, drvidx >>
  BY DEF _stdio_write, lineVars
<1>6. TypeOK'
  BY <1>4, <1>5 DEF ConsoleIInv, TypeOK, IdxInText, Cells
<1> QED BY <1>4, <1>5, <1>6 DEF ConsoleIInv, Echo, BufferKept

LEMMA PaintInv ==
  ASSUME ConsoleIInv, vga_driverctl
  PROVE  ConsoleIInv'
<1>1. UNCHANGED << textbuf, idx, buf, sz, reading, nch, sh, longest, vga_addr >>
  BY DEF vga_driverctl, textVars, lineVars
<1>2. \/ screen' = screen /\ drvidx' \in Cells
      \/ screen' = [screen EXCEPT ![drvidx] = Painted] /\ drvidx' = drvidx
  BY SizeFacts DEF vga_driverctl, IndexOnScreen, ConsoleIInv, TypeOK, Cells
<1>3. screen' \in [Cells -> Cell \cup {Painted}] /\ drvidx' \in Cells
  BY <1>2 DEF ConsoleIInv, TypeOK
<1>4. \A i \in Cells : screen'[i] = screen[i] \/ screen'[i] = Painted
  BY <1>2 DEF ConsoleIInv, TypeOK
<1>5. TypeOK'
  BY <1>1, <1>3 DEF ConsoleIInv, TypeOK, IdxInText
<1>6. nch' <= longest' /\ Echo' /\ BufferKept'
  BY <1>1 DEF ConsoleIInv, Echo, BufferKept
<1>7. ScreenShowsText'
  BY <1>1, <1>4 DEF ConsoleIInv, ScreenShowsText
<1> QED BY <1>5, <1>6, <1>7 DEF ConsoleIInv

LEMMA ReadBegins ==
  ASSUME ConsoleIInv, _stdio_read
  PROVE  ConsoleIInv'
<1>1. UNCHANGED << textbuf, idx, vga_addr, screen, drvidx >>
  BY DEF _stdio_read, textVars, picVars
<1>2. /\ reading' = TRUE /\ nch' = 0 /\ sh' = 0 /\ longest' = 0 /\ buf' = Fresh /\ sz' \in 0 .. MaxBuf
  BY DEF _stdio_read
<1>3. Fresh \in [Reach -> Chars \cup {Nul, Old}] /\ \A i \in Reach : Fresh[i] = Old
  BY DEF Fresh
<1>4. TypeOK' /\ nch' <= longest'
  BY <1>1, <1>2, <1>3, SizeFacts DEF ConsoleIInv, TypeOK, IdxInText
<1>5. Echo'
  BY <1>1, <1>2, TypeFacts DEF ConsoleIInv, Echo
<1>6. BufferKept'
  BY <1>2, <1>3 DEF BufferKept
<1>7. ScreenShowsText'
  BY <1>1 DEF ConsoleIInv, ScreenShowsText
<1> QED BY <1>4, <1>5, <1>6, <1>7 DEF ConsoleIInv

\* A character that is no end of a line moves the line with the text, when it
\* scrolls: the cells before the cursor stay those before the cursor.
LEMMA EchoMoves ==
  ASSUME NEW x \in Texts, NEW c \in Chars, c # NL, NEW m \in 0 .. lr, m <= x.idx + 1
  PROVE  LET y == kprintc(x, c) IN
         /\ m <= y.idx
         /\ \A i \in 1 .. m :
              y.text[y.idx - i] = IF i = 1 THEN c ELSE x.text[x.idx + 1 - i]
<1> DEFINE t == [x.text EXCEPT ![x.idx] = c]
           y == kprintc(x, c)
           s == kscroll(t, x.idx + 1)
<1>1. /\ x.text \in [Cells -> Chars \cup {Nul}] /\ x.idx \in Nat /\ x.idx < Size
      /\ t \in [Cells -> Chars \cup {Nul}] /\ x.idx \in Cells
  BY SizeFacts DEF Texts, Cells
<1>2. y.text = s.text /\ y.idx = s.idx
  BY DEF kprintc
<1>3. \A i \in 1 .. m : /\ x.idx + 1 - i \in Cells
                        /\ t[x.idx + 1 - i] = IF i = 1 THEN c ELSE x.text[x.idx + 1 - i]
  BY <1>1, SizeFacts DEF Cells
<1> DEFINE Moved == /\ m <= y.idx
                    /\ \A i \in 1 .. m :
                         y.text[y.idx - i] = IF i = 1 THEN c ELSE x.text[x.idx + 1 - i]
<1> SUFFICES Moved
  OBVIOUS
<1> HIDE DEF t, y
<1>4. CASE x.idx + 1 < Size
  <2>1. s.text = t /\ s.idx = x.idx + 1
    BY <1>4 DEF kscroll
  <2> HIDE DEF s
  <2>2. y.text = t /\ y.idx = x.idx + 1
    BY <1>2, <2>1
  <2>3. m <= y.idx
    BY <2>2
  <2>4. ASSUME NEW i \in 1 .. m
        PROVE  y.text[y.idx - i] = IF i = 1 THEN c ELSE x.text[x.idx + 1 - i]
    <3>1. y.idx - i = x.idx + 1 - i
      BY <1>1, <2>2
    <3>2. y.text[x.idx + 1 - i] = IF i = 1 THEN c ELSE x.text[x.idx + 1 - i]
      BY <1>3, <2>2
    <3> QED BY <3>1, <3>2
  <2> QED BY <2>3, <2>4
<1>5. CASE ~ (x.idx + 1 < Size)
  <2> DEFINE u == [j \in Cells |-> IF j < lr THEN t[j + W] ELSE Nul]
  <2>1. s.text = u /\ s.idx = lr
    BY <1>5 DEF kscroll
  <2>2. x.idx + 1 = Size
    BY <1>1, <1>5, SizeFacts
  <2>3. ASSUME NEW i \in 1 .. m PROVE u[lr - i] = t[x.idx + 1 - i]
    <3>1. lr \in Nat /\ W \in Nat /\ Size \in Nat /\ lr + W = Size /\ i \in Nat /\ 1 <= i /\ i <= lr
      BY SizeFacts DEF Cells
    <3>2. lr - i \in 0 .. Size - 1 /\ lr - i < lr /\ lr - i + W = Size - i
      BY <3>1
    <3>3. x.idx + 1 - i = Size - i
      BY <1>1, <2>2, <3>1
    <3> QED BY <3>2, <3>3 DEF Cells
  <2> HIDE DEF s, u
  <2> QED BY <1>2, <2>1, <2>3, <1>3, SizeFacts
<1> QED BY <1>4, <1>5

LEMMA AddInv ==
  ASSUME ConsoleIInv, reading, NEW k, AddChar(k), UNCHANGED drvidx
  PROVE  ConsoleIInv'
<1> DEFINE c == scancodes(k)
           y == kprintc(Now, c)
<1>1. c \in Chars /\ c # NL
  <2>1. sh \in {0, 1} /\ k \notin {"backspace", "shift down", "shift up"} /\ c \notin {Nul, NL}
    BY DEF AddChar, ConsoleIInv, TypeOK
  <2>2. CASE k \in Letters
    <3>1. c = <<k, sh>>
      BY <2>2, ConsoleAssumption DEF scancodes, Others
    <3>2. <<k, sh>> \in Letters \X {0, 1}
      BY <2>1, <2>2
    <3> HIDE DEF c
    <3> QED BY <2>1, <3>1, <3>2 DEF Chars
  <2>3. CASE k \notin Letters
    <3>1. c \in {NL, Nul, Query}
      BY <2>3 DEF scancodes
    <3> HIDE DEF c
    <3> QED BY <2>1, <3>1 DEF Chars
  <2> QED BY <2>2, <2>3
<1>2. /\ UNCHANGED << sz, reading, sh, drvidx >> /\ nch < MaxLine /\ nch' = nch + 1
      /\ buf' = IF Fits(nch) THEN [buf EXCEPT ![nch] = c] ELSE buf
      /\ longest' = IF nch < longest THEN longest ELSE nch + 1
      /\ Shown(y)
  BY DEF AddChar, StoreChar
<1> HIDE DEF c
<1>3. y \in Texts
  BY <1>1, TypeFacts, kprintcOK DEF ConsoleIInv
<1>4. /\ textbuf' \in [Cells -> Chars \cup {Nul}] /\ idx' \in Cells
      /\ vga_addr' \in [Cells -> Cell] /\ screen' \in [Cells -> Cell \cup {Painted}]
      /\ ScreenShowsText'
  BY <1>2, <1>3, ShownOK
<1>5. textbuf' = y.text /\ idx' = y.idx
  BY <1>2 DEF Shown
<1>6. /\ nch \in Nat /\ nch \in Reach /\ sz \in Nat /\ idx \in Nat /\ MaxLine \in Nat
      /\ longest \in 0 .. MaxLine /\ nch <= longest
      /\ buf \in [Reach -> Chars \cup {Nul, Old}]
      /\ Now \in Texts /\ Now.text = textbuf /\ Now.idx = idx
  BY TypeFacts DEF ConsoleIInv, TypeOK
<1>7. nch <= idx /\ \A i \in 0 .. nch - 1 : i < sz - 1 => textbuf[idx - nch + i] = buf[i]
  BY DEF ConsoleIInv, Echo
<1> HIDE DEF y
<1>8. TypeOK'
  <2>1. nch' \in 0 .. MaxLine /\ longest' \in 0 .. MaxLine
    BY <1>2, <1>6
  <2>2. buf' \in [Reach -> Chars \cup {Nul, Old}]
    BY <1>1, <1>2, <1>6
  <2> QED BY <1>2, <1>4, <2>1, <2>2 DEF ConsoleIInv, TypeOK, IdxInText, Cells
<1>9. Echo'
  <2> DEFINE m == nch + 1
  <2>1. m \in 0 .. lr /\ m <= Now.idx + 1
    BY <1>2, <1>6, <1>7, SizeFacts DEF Cells
  <2>2. /\ m <= y.idx
        /\ \A i \in 1 .. m :
             y.text[y.idx - i] = IF i = 1 THEN c ELSE Now.text[Now.idx + 1 - i]
    BY <1>1, <1>6, <2>1, EchoMoves DEF y
  <2>3. ASSUME NEW j \in 0 .. nch, j < sz - 1
        PROVE  y.text[y.idx - m + j] = buf'[j]
    <3>1. m - j \in 1 .. m /\ y.idx - (m - j) = y.idx - m + j /\ idx + 1 - (m - j) = idx - nch + j
      BY <1>3, <1>6 DEF Texts, Cells
    <3>2. y.text[y.idx - m + j] = IF m - j = 1 THEN c ELSE textbuf[idx - nch + j]
      BY <1>6, <2>2, <3>1
    <3>3. CASE j = nch
      <4>1. Fits(nch) /\ m - j = 1
        BY <1>6, <2>3, <3>3 DEF Fits
      <4> QED BY <1>2, <1>6, <3>2, <3>3, <4>1
    <3>4. CASE j # nch
      <4>1. j \in 0 .. nch - 1 /\ m - j # 1
        BY <1>6, <3>4
      <4>2. buf'[j] = buf[j]
        BY <1>2, <1>6, <3>4
      <4> QED BY <1>7, <2>3, <3>2, <4>1, <4>2
    <3> QED BY <3>3, <3>4
  <2> QED BY <1>2, <1>5, <1>6, <2>2, <2>3 DEF Echo
<1>10. nch' <= longest' /\ longest <= longest'
  BY <1>2, <1>6
<1>11. BufferKept'
  <2> SUFFICES ASSUME NEW i \in Reach, i >= sz, buf'[i] # Old
               PROVE  i <= longest' /\ buf'[i] = Nul
    BY <1>2 DEF BufferKept
  <2>1. i \in Int /\ longest \in Int /\ longest' \in Int
    BY <1>2, <1>6 DEF Reach
  <2>2. buf'[i] = buf[i] => buf[i] # Old /\ i <= longest /\ buf[i] = Nul
    BY DEF ConsoleIInv, BufferKept
  <2>3. Fits(nch) => nch # i
    BY <1>6, <2>1 DEF Fits
  <2>4. buf'[i] = buf[i]
    BY <1>2, <1>6, <2>3
  <2> QED BY <1>10, <2>1, <2>2, <2>4
<1> QED BY <1>4, <1>8, <1>9, <1>10, <1>11 DEF ConsoleIInv

LEMMA BackspaceInv ==
  ASSUME ConsoleIInv, reading, NEW k, Backspace(k), UNCHANGED drvidx
  PROVE  ConsoleIInv'
<1> DEFINE x == [text |-> [textbuf EXCEPT ![idx - 1] = Nul], idx |-> idx - 1, pic |-> vga_addr]
<1>1. UNCHANGED << sz, reading, sh, longest, drvidx >>
  BY DEF Backspace
<1>2. /\ nch \in Nat /\ nch <= MaxLine /\ nch \in Reach /\ sz \in Nat
      /\ idx \in Nat /\ idx < Size /\ MaxLine \in Nat /\ MaxBuf \in Nat
      /\ longest \in 0 .. MaxLine /\ nch <= longest
      /\ buf \in [Reach -> Chars \cup {Nul, Old}] /\ textbuf \in [Cells -> Chars \cup {Nul}]
      /\ vga_addr \in [Cells -> Cell]
  BY TypeFacts DEF ConsoleIInv, TypeOK
<1>3. nch <= idx /\ \A i \in 0 .. nch - 1 : i < sz - 1 => textbuf[idx - nch + i] = buf[i]
  BY DEF ConsoleIInv, Echo
<1>4. CASE NotEmpty(nch)
  <2>1. nch' = nch - 1 /\ buf' = [buf EXCEPT ![nch - 1] = Nul] /\ Shown(x)
    BY <1>4 DEF Backspace
  <2>2. nch > 0 /\ idx > 0 /\ idx - 1 \in Cells /\ nch - 1 \in Reach
    BY <1>2, <1>3, <1>4, SizeFacts DEF NotEmpty, Cells, Reach
  <2>3. x.text \in [Cells -> Chars \cup {Nul}]
    BY <1>2, <2>2
  <2>4. x \in Texts
    BY <1>2, <2>2, <2>3 DEF Texts
  <2>5. textbuf' = x.text /\ idx' = idx - 1
    BY <2>1 DEF Shown
  <2>6. /\ textbuf' \in [Cells -> Chars \cup {Nul}] /\ idx' \in Cells
        /\ vga_addr' \in [Cells -> Cell] /\ screen' \in [Cells -> Cell \cup {Painted}]
        /\ ScreenShowsText'
    <3> HIDE DEF x
    <3> QED BY <2>1, <2>4, ShownOK
  <2>7. TypeOK'
    <3>1. nch' \in 0 .. MaxLine
      BY <1>2, <2>1, <2>2
    <3>2. buf' \in [Reach -> Chars \cup {Nul, Old}]
      BY <1>2, <2>1
    <3> QED BY <1>1, <2>6, <3>1, <3>2 DEF ConsoleIInv, TypeOK, IdxInText, Cells
  <2>8. Echo'
    <3>1. nch' <= idx'
      BY <1>2, <1>3, <2>1, <2>2, <2>5
    <3>2. ASSUME NEW i \in 0 .. nch - 2, i < sz - 1
          PROVE  textbuf'[idx' - nch' + i] = buf'[i]
      <4>1. i \in 0 .. nch - 1 /\ idx' - nch' + i = idx - nch + i
            /\ idx - nch + i \in Cells /\ idx - nch + i # idx - 1 /\ i # nch - 1 /\ i \in Reach
        BY <1>2, <1>3, <2>1, <2>2, <2>5, SizeFacts DEF Cells, Reach
      <4>2. textbuf'[idx - nch + i] = textbuf[idx - nch + i] /\ buf'[i] = buf[i]
        BY <1>2, <2>1, <2>5, <4>1
      <4> QED BY <1>3, <3>2, <4>1, <4>2
    <3>3. nch' - 1 = nch - 2
      BY <1>2, <2>1
    <3> QED BY <1>1, <3>1, <3>2, <3>3 DEF Echo
  <2>9. BufferKept'
    <3> SUFFICES ASSUME NEW i \in Reach, i >= sz, buf'[i] # Old
                 PROVE  i <= longest /\ buf'[i] = Nul
      BY <1>1 DEF BufferKept
    <3>1. CASE i = nch - 1
      BY <1>2, <2>1, <2>2, <3>1
    <3>2. CASE i # nch - 1
      <4>1. buf'[i] = buf[i]
        BY <1>2, <2>1, <3>2
      <4> QED BY <4>1 DEF ConsoleIInv, BufferKept
    <3> QED BY <3>1, <3>2
  <2>10. nch' <= longest'
    BY <1>1, <1>2, <2>1
  <2> QED BY <2>6, <2>7, <2>8, <2>9, <2>10 DEF ConsoleIInv
<1>5. CASE ~ NotEmpty(nch)
  <2>1. UNCHANGED << textbuf, idx, buf, nch, vga_addr, screen >>
    BY <1>5 DEF Backspace, textVars, picVars
  <2> QED BY <1>1, <2>1
        DEF ConsoleIInv, TypeOK, IdxInText, Echo, BufferKept, ScreenShowsText
<1> QED BY <1>4, <1>5

LEMMA EndInv ==
  ASSUME ConsoleIInv, reading, NEW k, EndLine(k), UNCHANGED drvidx
  PROVE  ConsoleIInv'
<1>1. /\ buf' = [buf EXCEPT ![nch] = Nul] /\ Shown(kprintc(Now, NL)) /\ reading' = FALSE
      /\ UNCHANGED << sz, nch, sh, longest, drvidx >>
  BY DEF EndLine, Terminated
<1>2. kprintc(Now, NL) \in Texts
  BY TypeFacts, kprintcOK DEF ConsoleIInv
<1>3. /\ textbuf' \in [Cells -> Chars \cup {Nul}] /\ idx' \in Cells
      /\ vga_addr' \in [Cells -> Cell] /\ screen' \in [Cells -> Cell \cup {Painted}]
      /\ ScreenShowsText'
  BY <1>1, <1>2, ShownOK
<1>4. /\ nch \in Nat /\ nch <= MaxLine /\ nch \in Reach /\ sz \in Nat /\ MaxLine \in Nat
      /\ longest \in 0 .. MaxLine /\ nch <= longest
      /\ buf \in [Reach -> Chars \cup {Nul, Old}]
  BY TypeFacts DEF ConsoleIInv, TypeOK
<1>5. TypeOK'
  <2>1. buf' \in [Reach -> Chars \cup {Nul, Old}]
    BY <1>1, <1>4
  <2> QED BY <1>1, <1>3, <2>1 DEF ConsoleIInv, TypeOK, IdxInText, Cells
<1>6. BufferKept'
  <2> SUFFICES ASSUME NEW i \in Reach, i >= sz, buf'[i] # Old
               PROVE  i <= longest /\ buf'[i] = Nul
    BY <1>1 DEF BufferKept
  <2>1. CASE i = nch
    BY <1>1, <1>4, <2>1
  <2>2. CASE i # nch
    <3>1. buf'[i] = buf[i]
      BY <1>1, <1>4, <2>2
    <3> QED BY <3>1 DEF ConsoleIInv, BufferKept
  <2> QED BY <2>1, <2>2
<1> QED BY <1>1, <1>3, <1>4, <1>5, <1>6 DEF ConsoleIInv, Echo

LEMMA ConsoleStep ==
  ASSUME ConsoleIInv, [Next]_vars
  PROVE  ConsoleIInv'
<1>1. CASE \E k \in Keys : kgets(k)
  <2>1. PICK k \in Keys : kgets(k)
    BY <1>1
  <2>2. reading /\ UNCHANGED drvidx
    BY <2>1 DEF kgets
  <2>3. CASE Shift(k) \/ Ignored(k)
    <3>1. UNCHANGED << textbuf, idx, buf, sz, reading, nch, longest, vga_addr, screen, drvidx >>
      BY <2>2, <2>3 DEF Shift, Ignored, textVars, lineVars, picVars
    <3>2. sh' \in {0, 1}
      BY <2>3 DEF Shift, Ignored, lineVars, ConsoleIInv, TypeOK
    <3> QED BY <3>1, <3>2
          DEF ConsoleIInv, TypeOK, IdxInText, Echo, BufferKept, ScreenShowsText
  <2> QED BY <2>1, <2>2, <2>3, AddInv, BackspaceInv, EndInv DEF kgets
<1>2. CASE UNCHANGED vars
  BY <1>2 DEF vars, textVars, lineVars, picVars,
              ConsoleIInv, TypeOK, IdxInText, Echo, BufferKept, ScreenShowsText
<1> QED BY <1>1, <1>2, WriteInv, PaintInv, ReadBegins DEF Next

LEMMA ConsoleInit == Init => ConsoleIInv
<1> SUFFICES ASSUME Init PROVE ConsoleIInv
  OBVIOUS
<1> USE DEF Init
<1>1. 0 \in Cells /\ MaxLine \in Nat /\ MaxBuf \in Nat
  BY SizeFacts, ConsoleAssumption DEF Cells
<1>2. Fresh \in [Reach -> Chars \cup {Nul, Old}] /\ \A i \in Reach : Fresh[i] = Old
  BY DEF Fresh
<1>3. vga_addr \in [Cells -> Cell] /\ screen \in [Cells -> Cell \cup {Painted}]
  BY DEF Cell
<1>4. TypeOK
  <2>1. textbuf \in [Cells -> Chars \cup {Nul}] /\ 0 \in 0 .. MaxLine /\ 0 \in 0 .. MaxBuf
    BY <1>1
  <2> QED BY <1>1, <1>2, <1>3, <2>1 DEF TypeOK, IdxInText, Cells
<1>5. ScreenShowsText
  BY DEF ScreenShowsText
<1> QED BY <1>2, <1>4, <1>5 DEF ConsoleIInv, Echo, BufferKept

-----------------------------------------------------------------------------
LEMMA ConsoleAlways == Spec => []ConsoleIInv
BY ConsoleInit, ConsoleStep, PTL DEF Spec

\* The index stays in the text (kprint.c:9), the driver's in the picture, and kgets
\* stores outside of its buffer what BufferKept says of lines that have been too long
\* for it, and of other lines nothing: with any number of characters printed, and
\* lines scrolled, erased and typed again.
THEOREM ConsoleInBounds == Spec => []InBounds
<1>1. ConsoleIInv => InBounds
  BY DEF ConsoleIInv, InBounds
<1> QED BY <1>1, ConsoleAlways, PTL

\* What stands before the cursor is what the program will get, as long as the line
\* fits into its buffer, also when it was longer before.
THEOREM ConsoleEchoFaithful == Spec => []EchoFaithful
<1>1. ConsoleIInv => EchoFaithful
  <2> SUFFICES ASSUME ConsoleIInv, reading, nch < sz, NEW i \in 0 .. nch - 1
               PROVE  /\ idx - nch + i \in 0 .. Size - 1
                      /\ textbuf[idx - nch + i] = buf[i]
    BY DEF EchoFaithful
  <2>1. nch \in Nat /\ sz \in Nat /\ idx \in Nat /\ idx < Size /\ Size \in Nat
    BY TypeFacts, SizeFacts DEF ConsoleIInv
  <2>2. nch <= idx /\ (i < sz - 1 => textbuf[idx - nch + i] = buf[i])
    BY DEF ConsoleIInv, Echo
  <2> QED BY <2>1, <2>2
<1> QED BY <1>1, ConsoleAlways, PTL

\* The screen shows text and cursor, whatever was drawn there before.
THEOREM ConsoleScreenShowsText == Spec => []ScreenShowsText
<1>1. ConsoleIInv => ScreenShowsText
  BY DEF ConsoleIInv
<1> QED BY <1>1, ConsoleAlways, PTL

\* A line that fits ends in the buffer, and all that fits of any line is returned.
THEOREM ConsoleLineReturned == Spec => LineReturned
<1> DEFINE A == reading /\ ~ reading' =>
                  /\ nch < sz => buf'[nch] = Nul
                  /\ \A i \in 0 .. nch - 1 : i < sz - 1 => buf'[i] = textbuf[idx - nch + i]
<1>1. ConsoleIInv /\ [Next]_vars => [A]_vars
  <2> SUFFICES ASSUME ConsoleIInv, [Next]_vars, reading, ~ reading'
               PROVE  /\ buf'[nch] = Nul
                      /\ \A i \in 0 .. nch - 1 : i < sz - 1 => buf'[i] = textbuf[idx - nch + i]
    OBVIOUS
  <2>1. buf' = [buf EXCEPT ![nch] = Nul]
    BY DEF Next, _stdio_write, vga_driverctl, _stdio_read, kgets, AddChar, Backspace, Shift,
           Ignored, EndLine, Terminated, vars, lineVars
  <2>2. /\ nch \in Nat /\ nch <= MaxLine /\ nch \in Reach /\ sz \in Nat /\ MaxLine \in Nat
        /\ MaxBuf \in Nat /\ buf \in [Reach -> Chars \cup {Nul, Old}]
    BY TypeFacts DEF ConsoleIInv, TypeOK
  <2>3. \A i \in 0 .. nch - 1 : i < sz - 1 => textbuf[idx - nch + i] = buf[i]
    BY DEF ConsoleIInv, Echo
  <2>4. \A i \in 0 .. nch - 1 : i # nch /\ i \in Reach
    BY <2>2 DEF Reach
  <2> QED BY <2>1, <2>2, <2>3, <2>4
<1> QED BY <1>1, ConsoleAlways, PTL DEF Spec, LineReturned
=============================================================================
