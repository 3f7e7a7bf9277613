----------------------------- MODULE Activation -----------------------------
(***************************************************************************)
(* The value held by the active-clipboard register: which content became   *)
(* the active clipboard, when, and on which device                         *)
(* (uc-core/src/clipboard/active_state.rs).                                *)
(*                                                                         *)
(* A device id is a string compared lexicographically; only the fact that  *)
(* this order is total is used, so devices are naturals.  A content hash   *)
(* is only compared for equality.  entry_id is a per-device handle that no *)
(* comparison uses, and is left out.                                       *)
(***************************************************************************)
EXTENDS Naturals

CONSTANTS
    Device,         \* the devices of the space
    Hash,           \* cross-device content identities (snapshot_hash)
    NoActivation,   \* the register before any activation
    NoHash          \* an OS clipboard that holds nothing we know of

ASSUME DeviceAssumption == Device \subseteq Nat
ASSUME NoHashAssumption == NoHash \notin Hash

Activation == [hash : Hash, at : Nat, by : Device]

ASSUME NoActivationAssumption == NoActivation \notin Activation

Register == Activation \cup {NoActivation}

(***************************************************************************)
(* ActiveClipboardState::supersedes: later wins, ties go to the greater    *)
(* device id.                                                              *)
(***************************************************************************)
Supersedes(s, cur) ==
    \/ s.at > cur.at
    \/ s.at = cur.at /\ s.by > cur.by

(* Defect: the same content is taken for the same activation. *)
IsSameContent(s, t) == s.hash = t.hash

(***************************************************************************)
(* ActiveClipboardState::is_same_activation: the full key, hash included.  *)
(***************************************************************************)
IsSameActivation(s, t) == s.hash = t.hash /\ s.at = t.at /\ s.by = t.by

(***************************************************************************)
(* The compare-and-set of the register repository: an empty register takes *)
(* any value, a filled one only a value that supersedes it.                *)
(***************************************************************************)
ShouldAdvance(cur, s) == cur = NoActivation \/ Supersedes(s, cur)

Advance(cur, s) == IF ShouldAdvance(cur, s) THEN s ELSE cur
=============================================================================
