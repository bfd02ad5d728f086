----------------------------- MODULE MCAdapter -----------------------------
(* A small instance of the adapter for TLC.                                 *)
EXTENDS Adapter, TLC

CONSTANTS k1, k2, b, other

\* The same request, made twice; one approval of it, and one of something else.
Bindings == k1 :> b @@ k2 :> b
Approvals == {[nonce |-> 1, binding |-> b], [nonce |-> 2, binding |-> other]}
=============================================================================
