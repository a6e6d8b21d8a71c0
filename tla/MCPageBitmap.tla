---------------------------- MODULE MCPageBitmap ----------------------------
(***************************************************************************)
(* Memory maps of a machine with TopPage pages, for TLC: one region, or    *)
(* two with a hole of any size between them, in either order.              *)
(***************************************************************************)
EXTENDS PageBitmap

CONSTANT PairOrders  \* the orders in which two regions are listed

Region(first, last) == [base |-> first * PageSize, page_count |-> last - first + 1]

MCMaps ==
  {<<Region(0, TopPage - 1)>>}
    \cup {IF up THEN <<Region(first, i), Region(j, TopPage - 1)>>
                ELSE <<Region(j, TopPage - 1), Region(first, i)>> :
            first \in {0, 1}, i \in 1 .. 3, j \in 4 .. TopPage - 1, up \in PairOrders}
==============================================================================
