------------------------------ MODULE MCPaging ------------------------------
(* With four levels: two pages of one large page, and one that shares      *)
(* their upper tables.  With five: two that differ in the top indices.     *)
EXTENDS Paging

MCIdx == {0, 1}

MCPages ==
  {<<0, 0, 0, 0>>, <<1, 0, 0, 0>>, <<0, 1, 0, 0>>, <<0, 0, 0, 0, 0>>, <<0, 0, 0, 1, 1>>}

\* Enough for the tables of all pages.
MCFree == [n \in {4, 5} |-> 1 .. (IF n = 4 THEN 4 ELSE 8)]
=============================================================================
