------------------------- MODULE MCInvoicePipeline -------------------------
(* Small instances of InvoicePipeline for TLC. *)
EXTENDS InvoicePipeline, TLC

\* m1 and m2 are the two messages of one order, m3 is another order's.
TwoForOne == ("m1" :> "o1") @@ ("m2" :> "o1") @@ ("m3" :> "o2")
=============================================================================
