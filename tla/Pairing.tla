------------------------------ MODULE Pairing ------------------------------
(***************************************************************************)
(* How a device joins the space of a sponsor: the sponsor's invitations    *)
(* and its handling of inbound sessions (pairing_inbound), the joiner's    *)
(* side of the handshake (joiner_handshake.rs) and what it persists after  *)
(* it (redeem_invitation.rs).  A frame is its kind; a refusal is told to   *)
(* the joiner by closing the session, whatever its reason; a passphrase    *)
(* that does not open the offered keyslot is a derivation that fails.      *)
(*                                                                         *)
(* The module has no specification of its own: SwitchSpace composes it     *)
(* with the migration of a device that leaves another space.               *)
(***************************************************************************)
EXTENDS Naturals, Sequences

CONSTANTS
    Joiner,     \* the devices that want to join
    Settled,    \* those of them that already live in a space of their own
    Code,       \* invitation codes
    MaxDials,   \* bound on the sessions ever opened
    MaxFaults   \* bound on crashes, broken links and failed operations

ASSUME PairingAssumption ==
    /\ Settled \subseteq Joiner
    /\ MaxDials \in Nat
    /\ MaxFaults \in Nat

VARIABLES
    invitation, \* invitation[c]: what the holder keeps under the code
    dialled,    \* the sessions opened so far: who dialled which code
    inbox,      \* inbox[s]: frames on their way to the sponsor
    outbox,     \* outbox[s]: frames on their way to the joiner
    live,       \* sessions the sponsor can still send on
    parked,     \* sessions with a SessionCtx, hence with a running watchdog
    handler,    \* where the sponsor's only event loop is
    members,    \* the sponsor's member list
    trusted,    \* the sponsor's trust list
    joiner,     \* joiner[j]: where the handshake of j is
    kek,        \* kek[j]: the key the keyring entry of j opens
    keyslot,    \* keyslot[j]: the key in the keyslot on the disk of j
    master,     \* master[j]: the master key in the memory of j
    setup,      \* setup[j]: the space the setup status of j names
    offered,    \* history: the sessions that were sent a KeyslotOffer
    faults      \* faults so far

sponsorVars == <<invitation, live, parked, handler, members, trusted, offered>>
wireVars == <<dialled, inbox, outbox>>
joinerVars == <<joiner, kek, keyslot, master, setup>>
pairingVars == <<sponsorVars, wireVars, joinerVars, faults>>

Session == 1 .. MaxDials
NoSession == 0

NoKey == "no key"
Home == "home"          \* the space a settled device lives in, and its key
Target == "target"      \* the space of the sponsor, and its key
Key == {Home, Target}

Invitation == {"unissued", "held", "stale", "gone"}
ToSponsor == {"request", "response", "fin"}
ToJoiner == {"offer", "confirm"}
HandlerStep == {"idle", "admit", "trust", "confirm", "send"}
JoinerStep == {"idle", "offer", "kek", "keyslot", "verdict", "persist",
               "setup", "failed"}

At(step, s) == [at |-> step, session |-> s]
Idle == At("idle", NoSession)

PairingTypeOK ==
    /\ invitation \in [Code -> Invitation]
    /\ dialled \in Seq([by : Joiner, code : Code])
    /\ inbox \in [Session -> Seq(ToSponsor)]
    /\ outbox \in [Session -> Seq(ToJoiner)]
    /\ live \subseteq Session /\ parked \subseteq Session
    /\ handler \in [at : HandlerStep, session : Session \cup {NoSession}]
    /\ members \subseteq Joiner /\ trusted \subseteq Joiner
    /\ joiner \in [Joiner -> [at : JoinerStep,
                              session : Session \cup {NoSession}]]
    /\ kek \in [Joiner -> Key \cup {NoKey}]
    /\ keyslot \in [Joiner -> Key \cup {NoKey}]
    /\ master \in [Joiner -> Key \cup {NoKey}]
    /\ setup \in [Joiner -> Key \cup {NoKey}]
    /\ offered \subseteq Session
    /\ faults \in Nat

HomeKeys == [j \in Joiner |-> IF j \in Settled THEN Home ELSE NoKey]

PairingInit ==
    /\ invitation = [c \in Code |-> "unissued"]
    /\ dialled = <<>>
    /\ inbox = [s \in Session |-> <<>>]
    /\ outbox = [s \in Session |-> <<>>]
    /\ live = {} /\ parked = {} /\ offered = {}
    /\ handler = Idle
    /\ members = {} /\ trusted = {}
    /\ joiner = [j \in Joiner |-> Idle]
    /\ kek = HomeKeys /\ keyslot = HomeKeys
    /\ master = HomeKeys /\ setup = HomeKeys
    /\ faults = 0

(* Something goes wrong; the budget only bounds TLC's instances.           *)
Fault == faults < MaxFaults /\ faults' = faults + 1
NoFault == UNCHANGED faults

Put(queue, s, frame) == [queue EXCEPT ![s] = Append(@, frame)]
Pop(queue, s) == [queue EXCEPT ![s] = Tail(@)]
Arrived(queue, s, frame) == queue[s] # <<>> /\ Head(queue[s]) = frame

-----------------------------------------------------------------------------
(* Invitations. *)

InvitationsOnly == UNCHANGED <<wireVars, joinerVars, live, parked, handler,
                               members, trusted, offered, faults>>

IssueInvitation(c) ==
    /\ invitation[c] = "unissued"
    /\ invitation' = [invitation EXCEPT ![c] = "held"]
    /\ InvitationsOnly

(* Time passes the invitation's expiry; it stays until somebody asks.      *)
ExpireInvitation(c) ==
    /\ invitation[c] = "held"
    /\ invitation' = [invitation EXCEPT ![c] = "stale"]
    /\ InvitationsOnly

Outstanding == {c \in Code : invitation[c] \in {"held", "stale"}}

WithoutOutstanding ==
    [c \in Code |-> IF c \in Outstanding THEN "gone" ELSE invitation[c]]

CancelInvitations ==
    /\ Outstanding # {}
    /\ invitation' = WithoutOutstanding
    /\ InvitationsOnly

-----------------------------------------------------------------------------
(* The sponsor.  One loop handles the events of all sessions in turn; the   *)
(* watchdogs run beside it.                                                 *)

(* reject: drop the context if it is still there, send Reject, close.      *)
Reject(s) == live' = live \ {s} /\ parked' = parked \ {s}

(* Defect: the invitation stays for the next session.                      *)
Unspent(s) == invitation

Spent(s) == [invitation EXCEPT ![dialled[s].code] = "gone"]

(* take_matching removes the invitation whatever it then finds.            *)
TakeInvitation(s) ==
    /\ handler.at = "idle"
    /\ Arrived(inbox, s, "request")
    /\ inbox' = Pop(inbox, s)
    /\ invitation' = Spent(s)

AcceptRequest(s) ==
    /\ TakeInvitation(s)
    /\ invitation[dialled[s].code] = "held"
    /\ IF s \in live
       THEN /\ parked' = parked \cup {s}
            /\ outbox' = Put(outbox, s, "offer")
            /\ offered' = offered \cup {s}
       ELSE UNCHANGED <<parked, outbox, offered>>
    /\ UNCHANGED <<joinerVars, dialled, live, handler, members, trusted>>
    /\ NoFault

(* prepare_join_offer fails, with the invitation already consumed.         *)
OfferFails(s) ==
    /\ TakeInvitation(s)
    /\ invitation[dialled[s].code] = "held"
    /\ Fault
    /\ Reject(s)
    /\ UNCHANGED <<joinerVars, dialled, outbox, handler, members, trusted,
                   offered>>

RefuseRequest(s) ==
    /\ TakeInvitation(s)
    /\ invitation[dialled[s].code] # "held"
    /\ Reject(s)
    /\ UNCHANGED <<joinerVars, dialled, outbox, handler, members, trusted,
                   offered>>
    /\ NoFault

(* on_message_received and verify_challenge: the context is looked at, and *)
(* stays parked.                                                           *)
VerifyResponse(s) ==
    /\ handler.at = "idle"
    /\ Arrived(inbox, s, "response")
    /\ inbox' = Pop(inbox, s)
    /\ handler' = IF s \in parked THEN At("admit", s) ELSE handler
    /\ UNCHANGED <<joinerVars, dialled, outbox, invitation, live, parked,
                   members, trusted, offered>>
    /\ NoFault

VerifyFails(s) ==
    /\ handler.at = "idle"
    /\ Arrived(inbox, s, "response")
    /\ s \in parked
    /\ Fault
    /\ inbox' = Pop(inbox, s)
    /\ Reject(s)
    /\ UNCHANGED <<joinerVars, dialled, outbox, invitation, handler, members,
                   trusted, offered>>

(* finalise_verified: admit, then trust, then confirm.                     *)
AdmitMember ==
    /\ handler.at = "admit"
    /\ members' = members \cup {dialled[handler.session].by}
    /\ handler' = At("trust", handler.session)
    /\ UNCHANGED <<wireVars, joinerVars, invitation, live, parked, trusted,
                   offered>>
    /\ NoFault

TrustPeer ==
    /\ handler.at = "trust"
    /\ trusted' = trusted \cup {dialled[handler.session].by}
    /\ handler' = At("confirm", handler.session)
    /\ UNCHANGED <<wireVars, joinerVars, invitation, live, parked, members,
                   offered>>
    /\ NoFault

(* Defect: a joiner that could not be recorded is confirmed all the same.  *)
RecordFailsQuietly ==
    /\ handler.at \in {"admit", "trust"}
    /\ Fault
    /\ handler' = At("confirm", handler.session)
    /\ UNCHANGED <<wireVars, joinerVars, invitation, live, parked, members,
                   trusted, offered>>

RecordFails ==
    /\ handler.at \in {"admit", "trust"}
    /\ Fault
    /\ Reject(handler.session)
    /\ handler' = Idle
    /\ UNCHANGED <<wireVars, joinerVars, invitation, members, trusted, offered>>

(* confirm first takes the context; it fails when a watchdog took it.      *)
TakeParked ==
    /\ handler.at = "confirm"
    /\ parked' = parked \ {handler.session}
    /\ handler' = IF handler.session \in parked
                  THEN At("send", handler.session) ELSE Idle
    /\ UNCHANGED <<wireVars, joinerVars, invitation, live, members, trusted,
                   offered>>
    /\ NoFault

(* ... and then loads settings and sends.  After a failure here nobody     *)
(* closes the session: the joiner has to time out.                         *)
SendConfirm ==
    /\ handler.at = "send"
    /\ handler' = Idle
    /\ \/ /\ handler.session \in live
          /\ outbox' = Put(outbox, handler.session, "confirm")
          /\ live' = live \ {handler.session}
          /\ NoFault
       \/ /\ handler.session \notin live
          /\ UNCHANGED <<outbox, live>>
          /\ NoFault
       \/ /\ Fault
          /\ UNCHANGED <<outbox, live>>
    /\ UNCHANGED <<joinerVars, dialled, inbox, invitation, parked, members,
                   trusted, offered>>

FireTimeout(s) ==
    /\ s \in parked
    /\ Reject(s)
    /\ UNCHANGED <<wireVars, joinerVars, invitation, handler, members, trusted,
                   offered, faults>>

HandleSessionClosed(s) ==
    /\ handler.at = "idle"
    /\ Arrived(inbox, s, "fin")
    /\ inbox' = Pop(inbox, s)
    /\ parked' = parked \ {s}
    /\ UNCHANGED <<joinerVars, dialled, outbox, invitation, live, handler,
                   members, trusted, offered, faults>>

(* The sponsor restarts: everything it kept in memory is gone, and every   *)
(* link is down.                                                           *)
SponsorCrash ==
    /\ Fault
    /\ invitation' = WithoutOutstanding
    /\ live' = {} /\ parked' = {}
    /\ handler' = Idle
    /\ inbox' = [s \in Session |-> <<>>]
    /\ UNCHANGED <<joinerVars, dialled, outbox, members, trusted, offered>>

-----------------------------------------------------------------------------
(* The joiner. *)

(* Leave the session: close it, and read nothing more from it.             *)
Leave(j, step) ==
    LET s == joiner[j].session IN
    /\ joiner' = [joiner EXCEPT ![j] = At(step, NoSession)]
    /\ inbox' = Put(inbox, s, "fin")
    /\ outbox' = [outbox EXCEPT ![s] = <<>>]

(* Resolve the code, dial the sponsor and send the request.  A code that   *)
(* the sponsor no longer holds may still resolve.                          *)
Dial(j, c) ==
    LET s == Len(dialled) + 1 IN
    /\ invitation[c] # "unissued"
    /\ s \in Session
    /\ dialled' = Append(dialled, [by |-> j, code |-> c])
    /\ inbox' = Put(inbox, s, "request")
    /\ live' = live \cup {s}
    /\ joiner' = [joiner EXCEPT ![j] = At("offer", s)]
    /\ UNCHANGED <<outbox, kek, keyslot, master, setup, invitation, parked,
                   handler, members, trusted, offered, faults>>

(* Defect: no timeout on the wait for the verdict.                         *)
OfferWaits == {"offer", "kek"}

Waits == {"offer", "kek", "verdict"}

(* The TTL of recv_with_ttl elapses, the sponsor rejects or hangs up, or   *)
(* the passphrase does not open the keyslot just received.                 *)
AbandonHandshake(j) ==
    /\ joiner[j].at \in Waits
    /\ Leave(j, "failed")
    /\ UNCHANGED <<sponsorVars, dialled, kek, keyslot, master, setup, faults>>

TakeOffer(j) ==
    LET s == joiner[j].session IN
    /\ joiner[j].at = "offer"
    /\ Arrived(outbox, s, "offer")
    /\ outbox' = Pop(outbox, s)
    /\ joiner' = [joiner EXCEPT ![j].at = "kek"]
    /\ UNCHANGED <<sponsorVars, dialled, inbox, kek, keyslot, master, setup,
                   faults>>

(* derive_master_key_for_proof overwrites the keyring entry and then the   *)
(* keyslot on disk; the session's key is set and the response sent.        *)
StoreKek(j) ==
    /\ joiner[j].at = "kek"
    /\ kek' = [kek EXCEPT ![j] = Target]
    /\ joiner' = [joiner EXCEPT ![j].at = "keyslot"]
    /\ UNCHANGED <<sponsorVars, wireVars, keyslot, master, setup, faults>>

StoreKeyslot(j) ==
    /\ joiner[j].at = "keyslot"
    /\ keyslot' = [keyslot EXCEPT ![j] = Target]
    /\ master' = [master EXCEPT ![j] = Target]
    /\ inbox' = Put(inbox, joiner[j].session, "response")
    /\ joiner' = [joiner EXCEPT ![j].at = "verdict"]
    /\ UNCHANGED <<sponsorVars, dialled, outbox, kek, setup, faults>>

(* The rollback deletes both, whatever they held before.                   *)
StoreKeyslotFails(j) ==
    /\ joiner[j].at = "keyslot"
    /\ Fault
    /\ kek' = [kek EXCEPT ![j] = NoKey]
    /\ keyslot' = [keyslot EXCEPT ![j] = NoKey]
    /\ Leave(j, "failed")
    /\ UNCHANGED <<sponsorVars, dialled, master, setup>>

TakeConfirm(j) ==
    /\ joiner[j].at = "verdict"
    /\ Arrived(outbox, joiner[j].session, "confirm")
    /\ Leave(j, "persist")
    /\ UNCHANGED <<sponsorVars, dialled, kek, keyslot, master, setup, faults>>

(* The joiner admits and trusts the sponsor, in lists only it reads.  A     *)
(* setup status that cannot be written ends the attempt in the same way.   *)
PersistSponsor(j) ==
    /\ joiner[j].at = "persist"
    /\ \/ joiner' = [joiner EXCEPT ![j].at = "setup"] /\ NoFault
       \/ joiner' = [joiner EXCEPT ![j].at = "failed"] /\ Fault
    /\ UNCHANGED <<sponsorVars, wireVars, kek, keyslot, master, setup>>

-----------------------------------------------------------------------------
(* A device redeems an invitation; nothing asks whether it has a space     *)
(* already.  Settled devices switch instead.                               *)

RedeemInvitation(j, c) ==
    /\ j \notin Settled
    /\ joiner[j].at \in {"idle", "failed"}
    /\ Dial(j, c)

CompleteSetup(j) ==
    /\ j \notin Settled
    /\ joiner[j].at = "setup"
    /\ setup' = [setup EXCEPT ![j] = Target]
    /\ joiner' = [joiner EXCEPT ![j] = Idle]
    /\ UNCHANGED <<sponsorVars, wireVars, kek, keyslot, master, faults>>

(* Process and memory of j are gone; its session's link goes down.         *)
HangUp(j) ==
    IF joiner[j].session # NoSession THEN Leave(j, "idle")
    ELSE /\ joiner' = [joiner EXCEPT ![j] = Idle]
         /\ UNCHANGED <<inbox, outbox>>

JoinerCrash(j) ==
    /\ j \notin Settled
    /\ Fault
    /\ HangUp(j)
    /\ master' = [master EXCEPT ![j] = NoKey]
    /\ UNCHANGED <<sponsorVars, dialled, kek, keyslot, setup>>

(* The link of a session breaks, with whatever was on it.                  *)
BreakLink(j) ==
    LET s == joiner[j].session IN
    /\ s # NoSession
    /\ Fault
    /\ live' = live \ {s}
    /\ inbox' = [inbox EXCEPT ![s] = <<"fin">>]
    /\ outbox' = [outbox EXCEPT ![s] = <<>>]
    /\ UNCHANGED <<joinerVars, dialled, invitation, parked, handler, members,
                   trusted, offered>>

-----------------------------------------------------------------------------
SponsorHandles(s) ==
    \/ AcceptRequest(s) \/ OfferFails(s) \/ RefuseRequest(s)
    \/ VerifyResponse(s) \/ VerifyFails(s) \/ HandleSessionClosed(s)

SponsorFinalises ==
    AdmitMember \/ TrustPeer \/ RecordFails \/ TakeParked \/ SendConfirm

SponsorLoop == SponsorFinalises \/ \E s \in Session : SponsorHandles(s)

JoinerHandshake(j) ==
    \/ AbandonHandshake(j) \/ TakeOffer(j) \/ StoreKek(j) \/ StoreKeyslot(j)
    \/ StoreKeyslotFails(j) \/ TakeConfirm(j) \/ PersistSponsor(j)
    \/ CompleteSetup(j)

PairingNext ==
    \/ \E c \in Code : IssueInvitation(c) \/ ExpireInvitation(c)
    \/ CancelInvitations
    \/ SponsorLoop
    \/ \E s \in Session : FireTimeout(s)
    \/ SponsorCrash
    \/ \E j \in Joiner :
          \/ \E c \in Code : RedeemInvitation(j, c)
          \/ JoinerHandshake(j)
          \/ JoinerCrash(j)
          \/ BreakLink(j)
=============================================================================
