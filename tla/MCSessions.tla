----------------------------- MODULE MCSessions -----------------------------
(* A small instance of Sessions for TLC: two browsers of one account, two   *)
(* calls at a time.                                                         *)
EXTENDS Sessions, TLC

CONSTANTS phone, laptop, c1, c2

MCSymmetry == Permutations({phone, laptop}) \cup Permutations({c1, c2})
=============================================================================
