------------------------------- MODULE MCSystem -------------------------------
(***************************************************************************)
(* Two partitions, and a boot disk with files that are empty, of twice     *)
(* what is read at a time, and of a byte less.                             *)
(***************************************************************************)
EXTENDS System

Bin(p) == << "/bin", p >>
File(n) == << "/etc", n >>
MCConfig == << "/etc", "init" >>
MCSh == Bin("sh")

Programs == {"sh", "cat", "ls", "echo", "hexd", "gfxtest"}
Entry(t, p, l, n) == [t |-> t, prog |-> p, len |-> l, names |-> n]

MCDisk == [x \in { Bin(p) : p \in Programs } \cup { File(n) : n \in {"none", "full", "long"} }
                  \cup { << "/etc", "" >> } |->
   IF x[1] = "/bin" THEN Entry("program", x[2], 3, << >>)
   ELSE IF x[2] = "" THEN Entry("dir", "", 0, << "init", "none", "full", "long" >>)
   ELSE Entry("file", "", CASE x[2] = "none" -> 0 [] x[2] = "full" -> 8 [] x[2] = "long" -> 7, << >>)]

Line(c, a) == [cmd |-> c, arg |-> a]
MCLines ==
  { Line(NULL, NULL), Line(Bin(""), File("full")), Line(Bin("exit"), NULL), Line(Bin("sh"), NULL),
    Line(Bin("nope"), NULL), Line(Bin("echo"), File("none")), Line(Bin("gfxtest"), NULL),
    Line(Bin("ls"), << "/etc", "" >>), Line(Bin("ls"), NULL), Line(Bin("ls"), File("full")) }
  \cup { Line(Bin(p), a) : p \in {"cat", "hexd"},
          a \in {NULL, File("none"), File("full"), File("long"), << "/etc", "" >>} }

MCShells == {MCSh, Bin("nope"), NULL}
===============================================================================
