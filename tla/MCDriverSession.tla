-------------------------- MODULE MCDriverSession --------------------------
(***************************************************************************)
(* One connection with three statements and two results, and short SQL     *)
(* texts.                                                                  *)
(***************************************************************************)
EXTENDS DriverSession, TLC

\* One statement, two, and one that controls a transaction by hand.
MCQuery == {<<"work">>, <<"work", "work">>, <<"begin">>}
\* Statements and rows objects are interchangeable.
Symmetry == Permutations(Stmt) \cup Permutations(Rows)
=============================================================================
