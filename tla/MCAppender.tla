------------------------------ MODULE MCAppender ------------------------------
(***************************************************************************)
(* Two columns, chunks of two rows, and the argument lists of a user: good *)
(* rows with and without NULL, a row too short, rows refused at either     *)
(* column.  MCArgsNull adds the row refused after its NULL was written.    *)
(***************************************************************************)
EXTENDS Appender
CONSTANTS v, w

MCValue == {v, w}
MCArgs == {<<v, w>>, <<w, Null>>, <<v>>, <<v, Bad>>, <<Bad, Null>>}
MCArgsNull == MCArgs \cup {<<Null, Bad>>}
=============================================================================
