-------------------------------- MODULE Library --------------------------------
(***************************************************************************)
(* The functions that programs and the kernel are written with: strings    *)
(* and memory (src/kernel/util/string.c, src/stdlib/string.c), printf      *)
(* (src/stdlib/stdio.c), and what the shell and hexd make of them.  Pure   *)
(* functions: each is compared with what it is for.                        *)
(*                                                                         *)
(* A string in memory m is an address; characters are numbers there, 0 the *)
(* end.  What is printed is a sequence of one-letter strings.              *)
(***************************************************************************)
EXTENDS SequencesExt

CONSTANTS
  Addrs,        \* the addresses of the memory, 1 .. n
  Chars,        \* the characters in it, 0 among them
  IntMod,       \* ints count modulo this (2^32 in the code)
  OneByte,      \* what hexd prints as bytes
  OneWord,      \* and as addresses, less than 16^4
  Letters,      \* the letters of lines and formats
  CmdSize,      \* the shell's room for a command, 123 bytes
  MaxText,      \* bound: the length of lines
  MaxParts      \* bound: the parts of formats

ASSUME MemoryAssumption ==
  IsFiniteSet(Addrs) /\ Addrs # {} /\ Addrs = 1 .. Cardinality(Addrs)

ASSUME LibraryAssumption ==
  /\ IntMod \in Nat \ {0} /\ 0 \in Chars /\ Chars \subseteq 0 .. IntMod - 1
  /\ OneByte \subseteq Nat /\ \A h \in OneByte : h < 256
  /\ OneWord \subseteq Nat /\ \A h \in OneWord : h < 65536
  /\ "%" \notin Letters /\ "nul" \notin Letters
  /\ CmdSize \in Nat /\ MaxText \in Nat /\ MaxParts \in Nat

Final == Cardinality(Addrs)

\* The memories in which every string ends, and the string at s.
Memories == { m \in [Addrs -> Chars] : m[Final] = 0 }
Str(m, s) == SubSeq(m, s, (CHOOSE e \in Addrs : /\ e >= s /\ m[e] = 0
                                                /\ \A d \in s .. e - 1 : m[d] # 0) - 1)

-----------------------------------------------------------------------------
\* strlen, in the kernel and in programs.
strlen(m, s) == LET n[a \in Addrs] == IF m[a] = 0 THEN 0 ELSE 1 + n[a + 1] IN n[s]

\* Where strings stop being alike, or end.
Apart(m, a, b) == LET i[n \in Nat] == IF m[a + n] = m[b + n] /\ m[a + n] # 0 THEN i[n + 1] ELSE n
                  IN  i[0]

\* strcmp is 0 also if only one of them has ended.
strcmp(m, a, b) == LET i == Apart(m, a, b)
                   IN  IF m[a + i] = 0 \/ m[b + i] = 0 THEN 0
                       ELSE (m[a + i] - m[b + i]) % IntMod

kstreq(m, a, b) == /\ strlen(m, a) = strlen(m, b)
                   /\ \A i \in 0 .. strlen(m, a) - 1 : m[a + i] = m[b + i]

\* Mutation: alike as far as both go.
PrefixEq(m, a, b) == LET i == Apart(m, a, b) IN m[a + i] = 0 \/ m[b + i] = 0
\* The shell's: both have ended.
streq(m, a, b) == LET i == Apart(m, a, b) IN m[a + i] = m[b + i]

\* NULL, which is 0, also for the end of the string.
strchr(m, s, c) ==
  LET first[a \in Addrs] == CASE m[a] = 0 -> 0
                              [] m[a] = c /\ c # 0 -> a
                              [] OTHER -> first[a + 1]
  IN  first[s]

\* Byte after byte, upwards.
memcpy(m, b, a, n) ==
  LET copy[i \in 0 .. n] == IF i = 0 THEN m
                            ELSE [copy[i - 1] EXCEPT ![b + i - 1] = copy[i - 1][a + i - 1]]
  IN  copy[n]

strcpy(m, dst, src) ==
  [memcpy(m, dst, src, strlen(m, src)) EXCEPT ![dst + strlen(m, src)] = 0]

memset(m, a, c, n) ==
  LET set[i \in 0 .. n] == IF i = 0 THEN m ELSE [set[i - 1] EXCEPT ![a + i - 1] = c]
  IN  set[n]

\* The length and the comparisons are those of the strings: strcmp is only good
\* for finding that neither is the beginning of the other.
ComparesStrings ==
  \A m \in Memories : \A a, b \in Addrs :
     /\ strlen(m, a) = Len(Str(m, a))
     /\ kstreq(m, a, b) <=> Str(m, a) = Str(m, b)
     /\ streq(m, a, b) <=> Str(m, a) = Str(m, b)
     /\ strcmp(m, a, b) = 0 <=> IsPrefix(Str(m, a), Str(m, b)) \/ IsPrefix(Str(m, b), Str(m, a))
     /\ \A c \in Chars :
          LET p == strchr(m, a, c)
              w == Str(m, a)
          IN  IF \A i \in DOMAIN w : w[i] # c THEN p = 0
              ELSE m[p] = c /\ \A i \in 1 .. p - a : w[i] # c

\* Copies are exact, unless they begin inside what is copied, and touch nothing else.
CopiesExact ==
  \A m \in Memories : \A a, b \in Addrs :
     /\ \A n \in 0 .. Final :
          a + n - 1 <= Final /\ b + n - 1 <= Final /\ b \notin a + 1 .. a + n - 1 =>
            memcpy(m, b, a, n) = [x \in Addrs |-> IF x \in b .. b + n - 1 THEN m[x - b + a] ELSE m[x]]
     /\ \A n \in 0 .. Final, c \in Chars :
          a + n - 1 <= Final =>
            memset(m, a, c, n) = [x \in Addrs |-> IF x \in a .. a + n - 1 THEN c ELSE m[x]]
     /\ LET n == strlen(m, a)
        IN  b + n <= Final /\ b \notin a + 1 .. a + n =>
              /\ Str(strcpy(m, b, a), b) = Str(m, a)
              /\ \A x \in Addrs \ (b .. b + n) : strcpy(m, b, a)[x] = m[x]

-----------------------------------------------------------------------------
Hex == << "0", "1", "2", "3", "4", "5", "6", "7", "8", "9", "a", "b", "c", "d", "e", "f" >>
Digit(d) == Hex[d + 1]

\* The digits of a number, the last one first: none of 0, or of a negative one.
Digits(base) == LET ds[x \in Int] == IF x <= 0 THEN << >> ELSE << Digit(x % base) >> \o ds[x \div base]
                IN  ds

\* Negation leaves the least int what it is.
Negated(i) == IF i = -(IntMod \div 2) THEN i ELSE -i

_print_int(i) == IF i = 0 THEN << "0" >>
                 ELSE IF i < 0 THEN << "-" >> \o Reverse(Digits(10)[Negated(i)])
                 ELSE Reverse(Digits(10)[i])

_print_hex(x) == IF x = 0 THEN << "0" >> ELSE Reverse(Digits(16)[x])

Convert(c, arg) == CASE c \in {"d", "i"} -> _print_int(arg)
                     [] c = "x"          -> _print_hex(arg)
                     [] c = "c"          -> << arg >>
                     [] c = "s"          -> arg

\* _std_fdprintf: what is not a format prints nothing, and takes no argument.
_std_fdprintf(fmt, args) ==
  LET out[w \in Nat \X Nat] ==
        LET i == w[1] j == w[2]
        IN  IF i > Len(fmt) THEN << >>
            ELSE IF fmt[i] # "%" THEN << fmt[i] >> \o out[<< i + 1, j >>]
            ELSE IF fmt[i + 1] \in {"d", "i", "x", "c", "s"}
                 THEN Convert(fmt[i + 1], args[j]) \o out[<< i + 2, j + 1 >>]
            ELSE out[<< i + 2, j >>]
  IN  out[<< 1, 1 >>]

_print_byte(h) == _std_fdprintf(<< "%", "x", "%", "x" >>, << h \div 16, h % 16 >>)
_print_word(h) == _std_fdprintf(<< "%", "x", "%", "x", "%", "x", "%", "x" >>,
                     << (h \div 4096) % 16, (h \div 256) % 16, (h \div 16) % 16, h % 16 >>)

\* What digits stand for.
ValueOf(s, base) ==
  LET v[i \in 0 .. Len(s)] ==
        IF i = 0 THEN 0 ELSE v[i - 1] * base + (CHOOSE d \in 0 .. 15 : Digit(d) = s[i])
  IN  v[Len(s)]
Numeral(s, base, v) == /\ s # << >> /\ ValueOf(s, base) = v
                       /\ Len(s) > 1 => s[1] # "0"

Ints == -(IntMod \div 2) .. (IntMod \div 2) - 1

\* Numbers are printed as numerals, without zeros in front, except for the least
\* int, which is printed as a sign; hexd's have all their digits.
PrintsNumbers ==
  /\ \A i \in Ints : IF i >= 0 THEN Numeral(_print_int(i), 10, i)
                     ELSE /\ Head(_print_int(i)) = "-"
                          /\ IF i - 1 \notin Ints THEN Len(_print_int(i)) = 1
                             ELSE Numeral(Tail(_print_int(i)), 10, -i)
  /\ \A x \in OneWord : Numeral(_print_hex(x), 16, x)
  /\ \A h \in OneByte : Len(_print_byte(h)) = 2 /\ ValueOf(_print_byte(h), 16) = h
  /\ \A h \in OneWord : Len(_print_word(h)) = 4 /\ ValueOf(_print_word(h), 16) = h

\* The parts of a format, and what each of them prints.
Pieces == { << "text", l >> : l \in Letters } \cup { << "d", i >> : i \in {0, -12} }
          \cup { << "x", x >> : x \in {0, 31} } \cup { << "c", l >> : l \in Letters }
          \cup { << "s", s >> : s \in SeqOf(Letters, 2) } \cup { << "%", 0 >> }
Takes(p) == p[1] \notin {"text", "%"}
Written(p) == IF p[1] = "text" THEN << p[2] >> ELSE << "%", p[1] >>
Printed(p) == IF p[1] = "%" THEN << >> ELSE IF Takes(p) THEN Convert(p[1], p[2]) ELSE << p[2] >>
Argument(p) == IF Takes(p) THEN << p[2] >> ELSE << >>
Each(F(_), ps) == FlattenSeq([i \in DOMAIN ps |-> F(ps[i])])

\* printf prints the parts of the format in order, each with its own argument.
PrintsFormats ==
  \A ps \in SeqOf(Pieces, MaxParts) :
     _std_fdprintf(Each(Written, ps), Each(Argument, ps)) = Each(Printed, ps)

-----------------------------------------------------------------------------
\* What the shell makes of a line: a command up to the first space, the rest its
\* argument; a command that does not begin with a slash is in the directory bin.
\* The command is copied to cmdbuf, behind the name of that directory, over what an
\* earlier one left there.  CmdSize bytes are there for it; the copy knows of none.
Nul == "nul"
Cells == 0 .. MaxText

\* How many letters are copied.
CmdLen(line) == LET n[i \in 1 .. Len(line) + 1] ==
                      IF i <= Len(line) /\ line[i] # " " THEN n[i + 1] ELSE i - 1
                IN  n[1]

\* Mutation: the end stored over the last letter.
CopyShort(old, line) == [x \in Cells |-> CASE x < CmdLen(line) - 1 -> line[x + 1]
                                         [] x \in {CmdLen(line) - 1, CmdLen(line)} -> Nul
                                         [] x > CmdLen(line) -> old[x]]
CopyCmd(old, line) == [x \in Cells |-> CASE x < CmdLen(line) -> line[x + 1]
                                       [] x = CmdLen(line) -> Nul
                                       [] x > CmdLen(line) -> old[x]]

\* The string there, as it is compared with "exit", run and printed.
Cmd(cells) == LET e == CHOOSE x \in Cells : cells[x] = Nul /\ \A y \in 0 .. x - 1 : cells[y] # Nul
              IN  [i \in 1 .. e |-> cells[i - 1]]
Arg(line) == SubSeq(line, CmdLen(line) + 2, Len(line))
PathOf(cells, bin) == IF cells[0] = "/" THEN Cmd(cells) ELSE bin \o Cmd(cells)

\* Whatever earlier lines left behind, the command and its argument make up the line,
\* with a space between them if there is one, and none is in the command; what is run
\* is an absolute path.  A command shorter than the room for it changes nothing else,
\* and one that is not has its end stored in what comes after.
ParsesLines ==
  \A old \in [Cells -> Letters \cup {"/", Nul}], line \in SeqOf(Letters \cup {" ", "/"}, MaxText) :
     LET cells == CopyCmd(old, line) cmd == Cmd(cells) arg == Arg(line)
     IN  /\ \A i \in DOMAIN cmd : cmd[i] # " "
         /\ (line = cmd /\ arg = << >>) \/ line = cmd \o << " " >> \o arg
         /\ PathOf(cells, << "/", "b", "/" >>)[1] = "/"
         /\ IsSuffix(cmd, PathOf(cells, << "/", "b", "/" >>))
         /\ IF Len(cmd) < CmdSize THEN \A x \in Cells : x >= CmdSize => cells[x] = old[x]
            ELSE \E x \in Cells : x >= CmdSize /\ cells[x] = Nul /\ x = Len(cmd)
===============================================================================
