--------------------------- MODULE MCStreamVerify ---------------------------
(* A small instance of StreamVerify: two chunks, of which the second reports *)
(* a defect the first has reported too, and one finding the policy excludes. *)
EXTENDS StreamVerify

CONSTANTS c1, c2, f1, f2, f3, f4

MCChunks == {c1, c2}
MCFindings == {f1, f2, f3, f4}
MCPolicy == {f1, f2, f3}
MCChunkRank == [c \in MCChunks |-> IF c = c1 THEN 1 ELSE 2]
MCChunkOf == [f \in MCFindings |-> IF f \in {f1, f2} THEN c1 ELSE c2]
MCDistinctDefects == [f \in MCFindings |-> f]
MCDefectOf == [f \in MCFindings |-> IF f = f2 THEN "d2" ELSE "d1"]
=============================================================================
