-------------------------------- MODULE RunRows --------------------------------
(***************************************************************************)
(* The rows of table trace_events: what a query for one run reads of them. *)
(* Recursion over the places of the queue is a function, so that proofs    *)
(* can reach it.                                                           *)
(***************************************************************************)
EXTENDS Integers, Sequences

(* The rows of run r, in their order.                                      *)
OfRun(rows, r) ==
  LET kept[n \in 0 .. Len(rows)] ==
        IF n = 0 THEN <<>>
        ELSE IF rows[n].run = r THEN Append(kept[n - 1], rows[n]) ELSE kept[n - 1]
  IN  kept[Len(rows)]
=============================================================================
