------------------------------- MODULE MCVfs -------------------------------
(***************************************************************************)
(* A volume with a directory in the root directory, files in both, one of  *)
(* them empty and one with a name of two parts, and the entries "." and    *)
(* "..", which have no long names; and a volume with nothing on it.        *)
(***************************************************************************)
EXTENDS Vfs, TLC

Slots(s) == [i \in 0 .. NSlots - 1 |-> IF i < Len(s) THEN s[i + 1] ELSE Free]
Volume(links, ents) ==
  [fat |-> [e \in 0 .. MaxCl |-> IF e < 2 THEN EOC ELSE IF e \in DOMAIN links THEN links[e] ELSE 0],
   ent |-> [c \in 0 .. MaxCl |-> Slots(IF c \in DOMAIN ents THEN ents[c] ELSE << >>)]]

MCDisks ==
  { Volume(2 :> EOC @@ 3 :> EOC @@ 4 :> EOC,
           2 :> << Long("d"), Short(TRUE, 3, 0), Long("f"), Short(FALSE, 0, 0) >>
        @@ 3 :> << Short(TRUE, 3, 0), Short(TRUE, 0, 0), Long("f"), Short(FALSE, 4, 1) >>),
    Volume(2 :> 3 @@ 3 :> EOC @@ 4 :> EOC,
           2 :> << Long("tail"), Long("f"), Short(FALSE, 4, 1) >>),
    Volume(2 :> EOC, << >>) }

MCPaths == { << >>, << "d" >>, << "f" >>, << "new" >>, << "tail" >>, << "d", "/", "f" >>,
             << "/", "d", "/", "/", "f" >>, << "d", "/" >>, << "f", "/", "f" >>,
             << "d", "/", "new" >>, << "new", "/", "new" >> }
=============================================================================
