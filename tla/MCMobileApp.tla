---------------------------- MODULE MCMobileApp ----------------------------
(* Instances of MobileApp for TLC.                                         *)
EXTENDS MobileApp

\* One act of a user with several faults around it, or several with one.
FewAtOnce == acts <= 1 \/ faults <= 1

\* Two acts; two more on top of a watermark with two writers, while nothing is
\* refreshed or applied.
MoreWhenTorn ==
    \/ acts <= 2
    \/ torn /\ faults = 0 /\ \A c \in {"refresh", "apply"} : flight[c] = NoCall
=============================================================================
