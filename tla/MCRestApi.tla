----------------------------- MODULE MCRestApi -----------------------------
(* The instance of RestApi for TLC. Requests and addresses are              *)
(* interchangeable.                                                        *)
EXTENDS RestApi, TLC

Symmetry == Permutations(Requests) \union Permutations(Emails)
=============================================================================
