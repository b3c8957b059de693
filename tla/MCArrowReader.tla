---------------------------- MODULE MCArrowReader ----------------------------
(***************************************************************************)
(* Three workers share the reader of a result with three chunks.           *)
(***************************************************************************)
EXTENDS ArrowReader
=============================================================================
