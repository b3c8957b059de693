----------------------------- MODULE MCUdfContext -----------------------------
(***************************************************************************)
(* Calls with two contexts on two connections over two plans, which may    *)
(* be copies, executed by two threads each.  Everything is symmetric.      *)
(***************************************************************************)
EXTENDS UdfContext, TLC

Symmetry == Permutations(Thread) \cup Permutations(Ctx)
              \cup Permutations(Conn) \cup Permutations(Plan)
=============================================================================
