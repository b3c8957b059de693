---------------------------- MODULE MCResultScan ----------------------------
(***************************************************************************)
(* Every result of at most MaxChunks chunks of at most MaxSize rows.       *)
(***************************************************************************)
EXTENDS ResultScan

CONSTANTS MaxChunks, MaxSize

\* The offsets of chunks of these sizes.
Offsets(n, sizes) ==
  LET offset[c \in 0..n] == IF c = 0 THEN 0 ELSE offset[c - 1] + sizes[c] IN offset

MCResult ==
  UNION {{[chunks |-> n, offset |-> Offsets(n, s), readable |-> b] :
            b \in BOOLEAN, s \in [1..n -> 0..MaxSize]} : n \in 0..MaxChunks}
=============================================================================
