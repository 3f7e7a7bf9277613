---------------------------- MODULE MCConvergence ----------------------------
(***************************************************************************)
(* ActiveClipboard between two devices, in two kinds of behaviour: several *)
(* operations, all made once the clocks have reached MaxTime and without a *)
(* fault, or a single operation under skewed clocks and several faults.    *)
(* In both, the content x may be deleted.  y is never copied first: the    *)
(* first copy of what cannot be deleted shows nothing that x does not.     *)
(***************************************************************************)
EXTENDS MCActiveClipboard

CONSTANTS x, y

Calm ==
    /\ faults' = 0
    /\ \A d \in Device : clock[d] >= MaxTime
    /\ \A a \in claims : a.at >= MaxTime

FirstIsX == ops' = 1 => \A d \in Device : os'[d] # y

Apart == FirstIsX /\ (ops' <= 1 \/ Calm)
=============================================================================
