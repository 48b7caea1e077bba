-------------------------- MODULE MCViewRecycling --------------------------
(* Instances of ViewRecycling. *)
EXTENDS ViewRecycling

\* Two rows with one reuse key, each with a child that inherits it or that is in
\* a block.
Rows == [e \in Elements |->
           IF e = "page" THEN <<"row1", "row2">>
           ELSE IF e = "row1" THEN <<"icon1">>
           ELSE IF e = "row2" THEN <<"icon2">> ELSE <<>>]

RowKeys == [e \in Elements |-> IF e \in {"row1", "row2"} THEN <<"row">> ELSE <<>>]

\* One row may be added once more.
RowLevels == [e \in Elements |-> IF e = "page" THEN 2 ELSE 1]

=============================================================================
