------------------------------- MODULE MCFat -------------------------------
(***************************************************************************)
(* Volumes for TLC.  The small one has room for one cluster more in the    *)
(* sector of the table that the search sees, and for others that it does   *)
(* not see; file a has one full cluster, file b one and a half, in both    *)
(* sectors.  On the other one, all of the first sector is in use.          *)
(***************************************************************************)
EXTENDS Fat, TLC

MCSymmetry == Permutations(Handles)

Chained(s, links) ==
  [i \in 0 .. s - 1 |-> [j \in Slots |->
     LET e == i * PerSector + j IN IF e \in DOMAIN links THEN links[e] ELSE 0]]

MCInode == [n \in Files |-> IF n = "a" THEN 2 ELSE 6]
MCLen   == [n \in Files |-> 1]

MCRoom == Chained(2, 0 :> 10 @@ 1 :> 10 @@ 2 :> 10 @@ 5 :> 10 @@ 6 :> 10)
MCFull == Chained(3, 0 :> 12 @@ 1 :> 12 @@ 2 :> 12 @@ 5 :> 3 @@ 3 :> 4 @@ 4 :> 11
                      @@ 6 :> 12 @@ 11 :> 12)
=============================================================================
