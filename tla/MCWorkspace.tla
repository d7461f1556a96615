---------------------------- MODULE MCWorkspace -----------------------------
(* A small instance of Workspace for TLC.  All four records are             *)
(* interchangeable; TLC is faster when it is told of two.                   *)
EXTENDS Workspace, TLC

CONSTANTS w, p, k, s, clerk1, clerk2, owner, ann, c1, c2, r1, r2, r3, r4

MCSymmetry == Permutations({clerk1, clerk2}) \cup Permutations({c1, c2})
                  \cup Permutations({r1, r2})
=============================================================================
