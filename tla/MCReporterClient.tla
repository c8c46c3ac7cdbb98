-------------------------- MODULE MCReporterClient --------------------------
(* Two or three reports, small and large, and a cache of one to three      *)
(* units, the age of whose entries may be changed.  An entry ID that no    *)
(* other report has is named by the report itself.                         *)
EXTENDS ReporterClaims

CONSTANTS r1, r2, r3

ThreeReports == {r1, r2, r3}
Sizes == (r1 :> 1) @@ (r2 :> 1) @@ (r3 :> 2)
OwnKeys == (r1 :> r1) @@ (r2 :> r2) @@ (r3 :> r3)

(* The two small reports are interchangeable. *)
Symmetry == Permutations({r1, r2})

(* Two reports of the same check in the same second *)
TwoReports == {r1, r2}
OneKey == {r1}
TwoSizes == (r1 :> 1) @@ (r2 :> 1)
SameKey == (r1 :> r1) @@ (r2 :> r1)
TwoKeys == (r1 :> r1) @@ (r2 :> r2)

Raised == {3}
Lowered == {1}
Unchanged == {2}

(* A greater age only; also the one it is lowered to again *)
Older == {2}
OlderOrNot == {1, 2}
=============================================================================
