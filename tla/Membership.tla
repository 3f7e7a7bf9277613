----------------------------- MODULE Membership -----------------------------
(***************************************************************************)
(* What pairing promises, with no invitation, session or message in sight: *)
(* a device joins the space only once the sponsor has recorded it both as  *)
(* a member and as a trusted peer, and nobody is dropped again.            *)
(***************************************************************************)
CONSTANT Joiner

VARIABLES
    members,    \* the devices in the sponsor's member list
    trusted,    \* the devices in the sponsor's trust list
    joined      \* the devices whose own setup names the sponsor's space

membershipVars == <<members, trusted, joined>>

MembershipInit == members = {} /\ trusted = {} /\ joined = {}

Admit(j) ==
    /\ members' = members \cup {j}
    /\ UNCHANGED <<trusted, joined>>

Trust(j) ==
    /\ j \in members
    /\ trusted' = trusted \cup {j}
    /\ UNCHANGED <<members, joined>>

Join(j) ==
    /\ j \in members \cap trusted
    /\ joined' = joined \cup {j}
    /\ UNCHANGED <<members, trusted>>

MembershipNext == \E j \in Joiner : Admit(j) \/ Trust(j) \/ Join(j)

MembershipSpec == MembershipInit /\ [][MembershipNext]_membershipVars
=============================================================================
