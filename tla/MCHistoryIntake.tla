--------------------------- MODULE MCHistoryIntake ---------------------------
(* Instances of HistoryIntake for TLC.                                     *)
EXTENDS HistoryIntake

CONSTANTS r1, r2, x, y

\* The two captures are alike, and so are the contents: r1 is the first, of x.
FirstIsX ==
    /\ job[r1].content # y
    /\ job[r1].at = "idle" => job[r2].at = "idle"

\* Writers of different contents meet in the store only, where a frame does what
\* a copy does: one kind of writer, and no fault, is enough for them.
ApartAreLocal ==
    job[r2].content = y => faults = 0 /\ \A c \in Capture : job[c].origin = "local"

\* Two captures with one fault among them, or one capture with several.
FewAtOnce == job[r2].at = "idle" \/ faults <= 1
=============================================================================
