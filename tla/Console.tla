------------------------------- MODULE Console -------------------------------
(***************************************************************************)
(* The console: the text on the screen and the line that is being typed,   *)
(* src/kernel/kprint.c, with _stdio_read and _stdio_write of fileio.c and  *)
(* the drawing of both, src/kernel/video/vga16.c.                          *)
(*                                                                         *)
(* A program prints characters, or reads a line and gets a key at a time   *)
(* until the line ends; the two never overlap, since both are calls of the *)
(* one program that runs.  Which keys kgetsc returns is module Keyboard's  *)
(* business: here, any.                                                    *)
(*                                                                         *)
(* A picture is drawn in memory, vga_addr, from the text, and copied to    *)
(* the screen.  It is seen here by cells, the size of a character; a       *)
(* cell's picture is the character last drawn there and whether the        *)
(* cursor is over it.                                                      *)
(***************************************************************************)
EXTENDS Integers, SequencesExt

CONSTANTS
  W, H,       \* KPRINT_WIDTH, KPRINT_HEIGHT
  MaxBuf,     \* bound: the largest buffer a program reads a line into
  MaxLine,    \* bound: the longest line typed, which leaves a row of the screen
  MaxOut,     \* bound: the characters a program prints in one call
  Letters     \* bound: the letters printed and typed

\* The keys that are no letters: Enter, Backspace, some other one, either shift code,
\* and a release, of which the codes are 58 or more.
Others == {"enter", "backspace", "other", "shift down", "shift up", "release"}

ASSUME ConsoleAssumption ==
  /\ W \in Nat \ {0} /\ H \in Nat \ {0}
  /\ MaxBuf \in Nat /\ MaxOut \in Nat
  /\ MaxLine \in 0 .. W * (H - 1)
  /\ Letters \cap Others = {}

VARIABLES
  textbuf,    \* the characters on the screen; Nul where there is none
  idx,        \* where the next one goes
  buf, sz,    \* the program's buffer and as much of the memory after it as can be
              \* reached, and the buffer's size
  reading,    \* whether kgets is running
  nch, sh,    \* its count of characters and its shift state
  longest,    \* history, not in the code: the most characters this line has had
  vga_addr,   \* the picture in memory, cell by cell
  screen,     \* and the one that is seen
  drvidx      \* the cell the video driver's next pixel goes to

textVars == << textbuf, idx >>
lineVars == << buf, sz, reading, nch, sh, longest >>
picVars  == << vga_addr, screen >>
vars == << textVars, lineVars, picVars, drvidx >>

Size == W * H
Cells == 0 .. Size - 1
lr == W * (H - 1)       \* where the last row begins

\* Characters, as pairs of a symbol and a shift state: letters in either case,
\* the `?' of the keys that print as that, the end of a line, the byte 0 and, in
\* memory that nobody has written yet, Old.  High is any byte above 127, which is
\* printed but, a char being signed, not drawn.
Query == <<"?", 0>>
High  == <<"high", 0>>
Chars == (Letters \X {0, 1}) \cup {Query, High}
NL    == <<"newline", 0>>
Nul   == <<"nul", 0>>
Old   == <<"old", 0>>

\* Keys as kgetsc returns them, presses but for the releases.
Keys == Letters \cup Others

Reach == 0 .. (MaxBuf + MaxLine)
Fresh == [i \in Reach |-> Old]

Init ==
  /\ textbuf = [i \in Cells |-> Nul] /\ idx = 0
  /\ buf = Fresh /\ sz = 0
  /\ reading = FALSE /\ nch = 0 /\ sh = 0 /\ longest = 0
  /\ vga_addr = [i \in Cells |-> <<Nul, i = 0>>] /\ screen = vga_addr
  /\ drvidx = 0

-----------------------------------------------------------------------------
\* Mutation: the text not moved up with the index.
ScrollKeepsText(t, i) == [text |-> t, idx |-> IF i < Size THEN i ELSE lr]

\* The text after kscroll: once the index is past the end, everything moves up
\* a row and goes on at the beginning of the last.
kscroll(t, i) ==
  IF i < Size THEN [text |-> t, idx |-> i]
  ELSE [text |-> [j \in Cells |-> IF j < lr THEN t[j + W] ELSE Nul], idx |-> lr]

\* Mutation: only what changed its character is drawn.
DrawChanged(p, t, i) == IF t[i] \in {p[i][1], High} THEN p[i] ELSE <<t[i], FALSE>>

\* vga_draw_char_fill draws a character and its background, or nothing.
vga_draw_char_fill(p, t, i) == IF t[i] = High THEN p[i] ELSE <<t[i], FALSE>>

\* The picture p after kflush has drawn text and cursor.  vga_update copies all
\* of it to the screen.
kflush(p, x) ==
  [i \in Cells |-> LET c == vga_draw_char_fill(p, x.text, i)
                   IN  IF i = x.idx THEN <<c[1], TRUE>> ELSE c]

\* A character put at the end of text x; the end of a line is shown at once.
kprintc(x, c) ==
  LET s == IF c = NL THEN kscroll(x.text, x.idx + (W - (x.idx % W)))
           ELSE kscroll([x.text EXCEPT ![x.idx] = c], x.idx + 1)
  IN  [text |-> s.text, idx |-> s.idx,
       pic |-> IF c = NL THEN kflush(x.pic, s) ELSE x.pic]

\* The text after the characters of s, one after the other.
Printed(x, s) == LET at[k \in 0 .. Len(s)] ==
                       IF k = 0 THEN x ELSE kprintc(at[k - 1], s[k])
                 IN  at[Len(s)]

Now == [text |-> textbuf, idx |-> idx, pic |-> vga_addr]

\* The text becomes x, and is shown.
Shown(x) == /\ textbuf' = x.text /\ idx' = x.idx
            /\ vga_addr' = kflush(x.pic, x) /\ screen' = vga_addr'

\* A program writes to the standard output.
_stdio_write ==
  /\ ~ reading
  /\ \E s \in SeqOf((Chars \ {Query}) \cup {NL}, MaxOut) : Shown(Printed(Now, s))
  /\ UNCHANGED << lineVars, drvidx >>

\* A program paints: the video driver's index, where it is on the screen, and a
\* pixel there, which is put on the screen only.
Painted == << <<"painted", 0>>, FALSE >>

IndexOnScreen(p) == p < Size

vga_driverctl ==
  /\ ~ reading
  /\ \/ /\ \E p \in {Size - 1, Size} : drvidx' = IF IndexOnScreen(p) THEN p ELSE drvidx
        /\ UNCHANGED screen
     \/ screen' = [screen EXCEPT ![drvidx] = Painted] /\ UNCHANGED drvidx
  /\ UNCHANGED << textVars, lineVars, vga_addr >>

\* A program reads from the standard input: kgets begins, on a buffer that
\* holds whatever the program had there.
_stdio_read ==
  /\ ~ reading
  /\ reading' = TRUE /\ nch' = 0 /\ sh' = 0 /\ longest' = 0
  /\ buf' = Fresh /\ sz' \in 0 .. MaxBuf
  /\ UNCHANGED << textVars, picVars, drvidx >>

\* The character of a key.  The shifted half of the table has a question mark
\* where the other has Enter, and both have one for most keys.
scancodes(k) ==
  CASE k \in Letters             -> <<k, sh>>
    [] k = "enter" /\ sh = 0     -> NL
    [] k \in {"release", "shift up"} -> Nul
    [] OTHER                     -> Query

\* Mutation: a character stored whether it fits or not.
Always(n) == TRUE

\* Only what fits is stored, with room for the terminator; nch counts the rest
\* as well, since Backspace has to remove it from the screen.  size_t is an int
\* here (types.h:13): with a size of 0, nothing fits.
Fits(n) == n < sz - 1
StoreChar(c) == buf' = IF Fits(nch) THEN [buf EXCEPT ![nch] = c] ELSE buf

AddChar(k) ==
  /\ k \notin {"backspace", "shift down", "shift up"}
  /\ scancodes(k) \notin {Nul, NL}
  /\ nch < MaxLine
  /\ StoreChar(scancodes(k))
  /\ Shown(kprintc(Now, scancodes(k)))
  /\ nch' = nch + 1
  /\ longest' = IF nch < longest THEN longest ELSE nch + 1
  /\ UNCHANGED << sz, reading, sh >>

NotEmpty(n) == n > 0

Backspace(k) ==
  /\ k = "backspace"
  /\ IF NotEmpty(nch)
     THEN /\ nch' = nch - 1
          /\ buf' = [buf EXCEPT ![nch - 1] = Nul]
          /\ Shown([text |-> [textbuf EXCEPT ![idx - 1] = Nul], idx |-> idx - 1,
                    pic |-> vga_addr])
     ELSE UNCHANGED << textVars, picVars, buf, nch >>
  /\ UNCHANGED << sz, reading, sh, longest >>

Shift(k) ==
  /\ k \in {"shift down", "shift up"}
  /\ sh' = IF k = "shift down" THEN 1 ELSE 0
  /\ UNCHANGED << textVars, picVars, buf, sz, reading, nch, longest >>

Ignored(k) ==
  /\ k = "release"
  /\ UNCHANGED << textVars, lineVars, picVars >>

\* Mutation: the terminator forgotten.
EndNever == buf
Terminated == [buf EXCEPT ![nch] = Nul]

EndLine(k) ==
  /\ k = "enter" /\ scancodes(k) = NL
  /\ buf' = Terminated
  /\ Shown(kprintc(Now, NL))
  /\ reading' = FALSE
  /\ UNCHANGED << sz, nch, sh, longest >>

\* One turn of the loop of kgets, and after the last one its end.
kgets(k) == /\ reading
            /\ AddChar(k) \/ Backspace(k) \/ Shift(k) \/ Ignored(k) \/ EndLine(k)
            /\ UNCHANGED drvidx

Next == _stdio_write \/ vga_driverctl \/ _stdio_read \/ \E k \in Keys : kgets(k)
Spec == Init /\ [][Next]_vars

-----------------------------------------------------------------------------
\* kprint.c:9: idx is an "index into text memory", whatever is printed, typed
\* and erased, and however the text has scrolled since the line began.
IdxInText == idx \in 0 .. Size - 1

Cell == (Chars \cup {Nul}) \X BOOLEAN

TypeOK == /\ IdxInText
          /\ textbuf \in [Cells -> Chars \cup {Nul}]
          /\ vga_addr \in [Cells -> Cell] /\ screen \in [Cells -> Cell \cup {Painted}]
          /\ drvidx \in Cells
          /\ buf \in [Reach -> Chars \cup {Nul, Old}] /\ sz \in 0 .. MaxBuf
          /\ reading \in BOOLEAN /\ nch \in 0 .. MaxLine /\ sh \in {0, 1}
          /\ longest \in 0 .. MaxLine

\* What stands on the screen before the cursor is the line the program will
\* get: echo and buffer agree through scrolling and erasing, whenever the line
\* fits into the buffer, and again when it was too long and has been erased back.
EchoFaithful ==
  reading /\ nch < sz =>
    \A i \in 0 .. nch - 1 : idx - nch + i \in 0 .. Size - 1
                            /\ textbuf[idx - nch + i] = buf[i]

\* While a line has not been as long as its buffer, kgets stores into that and nowhere
\* else.  One that has been leaves zeros after the buffer, where it was erased back
\* and where it ended, and no further than it was long; of size 0 is any line.
BufferKept == \A i \in Reach : i >= sz /\ buf[i] # Old => i <= longest /\ buf[i] = Nul

\* Nothing is stored outside of the text and the picture, whatever is printed,
\* painted, typed and erased, and outside of the program's buffer by lines only that
\* are too long for it.
InBounds == TypeOK /\ BufferKept

\* However it was typed, a line that fits at its end is followed by a zero in the
\* buffer, and of any line what is returned is what is typed, as far as it fits.
LineReturned ==
  [][ reading /\ ~ reading' =>
        /\ nch < sz => buf'[nch] = Nul
        /\ \A i \in 0 .. nch - 1 : i < sz - 1 => buf'[i] = textbuf[idx - nch + i] ]_vars

\* Whenever the program runs or a key is waited for, the screen shows the text,
\* with the cursor at its end and no trace of where it was before, except in cells
\* whose character is not drawn and where the program has painted since.
ScreenShowsText ==
  \A i \in Cells : textbuf[i] # High /\ screen[i] # Painted
                     => screen[i] = <<textbuf[i], i = idx>>
==============================================================================
