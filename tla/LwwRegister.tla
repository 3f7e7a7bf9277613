----------------------------- MODULE LwwRegister -----------------------------
(***************************************************************************)
(* What the active-clipboard register promises, with no message, queue or  *)
(* task in sight: every device keeps the greatest activation it adopted    *)
(* since it last started, it only ever adopts activations some device      *)
(* really made, and only a restart empties it.                             *)
(***************************************************************************)
EXTENDS Activation

VARIABLES
    claims,     \* every activation a device has made so far
    reg         \* reg[d]: the register of device d

lwwVars == <<claims, reg>>

LwwInit ==
    /\ claims = {}
    /\ reg = [d \in Device |-> NoActivation]

(***************************************************************************)
(* Device d activates some content, and possibly adopts the activation it  *)
(* has just made.                                                          *)
(***************************************************************************)
Claim(d) ==
    \E a \in claims' :
        /\ a \in Activation /\ a.by = d
        /\ claims' = claims \cup {a}
        /\ \/ UNCHANGED reg
           \/ reg' = [reg EXCEPT ![d] = Advance(@, a)]

(***************************************************************************)
(* Device d adopts an activation made anywhere.                            *)
(***************************************************************************)
Adopt(d) ==
    \E a \in claims :
        /\ ShouldAdvance(reg[d], a)
        /\ reg' = [reg EXCEPT ![d] = a]
        /\ UNCHANGED claims

Reset(d) ==
    /\ reg' = [reg EXCEPT ![d] = NoActivation]
    /\ UNCHANGED claims

LwwNext == \E d \in Device : Claim(d) \/ Adopt(d) \/ Reset(d)

LwwSpec == LwwInit /\ [][LwwNext]_lwwVars
=============================================================================
