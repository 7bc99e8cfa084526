----------------------------- MODULE MCDelivery -----------------------------
(***************************************************************************)
(* The policy of the example of concepts/retries.md:92-109, three of its   *)
(* five attempts, in units of 300s: its timeout, and the default replay    *)
(* window; the backoffs of 5s and 10s round down to nothing.               *)
(***************************************************************************)
EXTENDS Delivery

MCPause == <<0, 0, 0>>
=============================================================================
