--------------------------- MODULE MCCtxInterrupt ---------------------------
(***************************************************************************)
(* Three driver calls for TLC: two share a connection, the second and the  *)
(* third share a context, and one call's context cannot be cancelled.      *)
(***************************************************************************)
EXTENDS CtxInterrupt, TLC
CONSTANTS c1, c2, c3, k1, k2, bg, req

MCCall == {c1, c2, c3}
MCConn == {k1, k2}
MCCtx == {bg, req}
MCOn == (c1 :> k1) @@ (c2 :> k1) @@ (c3 :> k2)
MCCtxOf == (c1 :> req) @@ (c2 :> bg) @@ (c3 :> req)
MCCancelable == {req}
Misusing == {c1}
=============================================================================
