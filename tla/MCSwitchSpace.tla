--------------------------- MODULE MCSwitchSpace ---------------------------
(***************************************************************************)
(* SwitchSpace in two kinds of behaviour: the device that changes space    *)
(* has the sponsor for itself and meets more migrations or faults, or it   *)
(* has no history and shares the sponsor with another joiner.  An unlock   *)
(* request may overlap the switch where the device is alone, has one row   *)
(* to move and meets no fault; of two migrations the request then works on *)
(* the one the switch is not at, whose handshake was the only one.         *)
(***************************************************************************)
EXTENDS SwitchSpace

Overlapping == \A t \in Thread : job'[t] # NoJob

OneRow == \E r \in Row : main'[r] = "none"

TwoRuns == job'["switch"].run # job'["resume"].run /\ Len(dialled') <= 1

Alone ==
    /\ \A s \in DOMAIN dialled' : dialled'[s].by = Mover
    /\ runs' <= 1 \/ (faults' <= 1 /\ OneRow)
    /\ Overlapping => faults' = 0 /\ OneRow /\ (runs' <= 1 \/ TwoRuns)

Shared ==
    /\ \A r \in Row : main'[r] = "none"
    /\ runs' <= 1 /\ faults' <= 1
    /\ ~ Overlapping

Apart == Alone \/ Shared

\* One request at a time: what a crash alone can do.
InTurn == ~ Overlapping
=============================================================================
