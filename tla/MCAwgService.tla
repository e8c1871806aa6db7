---------------------------- MODULE MCAwgService ----------------------------
(***************************************************************************)
(* Instances of AwgService for TLC: a few requests over two client names,  *)
(* two addresses and two settings.                                         *)
(***************************************************************************)
EXTENDS AwgService, TLC

CONSTANTS r1, r2, r3, r4, a, b, port, other, plain, tuned, bad, blank

MCSettings == [port |-> port, opts |-> plain]

\* Requests and names are interchangeable: neither is ever compared but for
\* equality, and no liveness property is checked with this set.
Interchangeable == Permutations(Reqs) \cup Permutations(Names)
=============================================================================
