------------------------- MODULE MCOpenWhiskInvoker -------------------------
(* Two functions, three invocations. *)
EXTENDS OpenWhiskInvoker, TLC

CONSTANTS f1, f2, i1, i2, i3

MCDriverOf == i1 :> f1 @@ i2 :> f1 @@ i3 :> f2
=============================================================================
