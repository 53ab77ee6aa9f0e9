-------------------------------- MODULE Lists --------------------------------
(***************************************************************************)
(* The two loops over a Vec that the modules share.  They are SelectSeq    *)
(* and FlattenSeq, written as recursive functions so that their definition *)
(* can be unfolded in a proof.                                             *)
(***************************************************************************)
EXTENDS Integers, Sequences

\* filter and collect: the elements of vs at the positions in P, in order.
Select(vs, P) ==
  LET kept[n \in 0..Len(vs)] ==
        IF n = 0 THEN <<>>
        ELSE IF n \in P THEN Append(kept[n - 1], vs[n]) ELSE kept[n - 1]
  IN  kept[Len(vs)]

\* extend, in a loop: the lists in ss, one after the other.
Concatenated(ss) ==
  LET joined[n \in 0..Len(ss)] == IF n = 0 THEN <<>> ELSE joined[n - 1] \o ss[n]
  IN  joined[Len(ss)]
===============================================================================
