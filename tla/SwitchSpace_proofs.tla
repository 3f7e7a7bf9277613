------------------------- MODULE SwitchSpace_proofs -------------------------
(***************************************************************************)
(* What pairing and the migration composed with it guarantee for any       *)
(* joiners, codes, rows and bounds: the types of all variables, that an    *)
(* invitation serves one session, that the space is joined only by         *)
(* recorded members, and that the rows which HandshakeDone promises to the *)
(* device that moves are never lost.                                       *)
(***************************************************************************)
EXTENDS SwitchSpace, SequenceTheorems, TLAPS

-----------------------------------------------------------------------------
(* Queues of frames *)

LEMMA PutType ==
    ASSUME NEW Frame, NEW S, NEW queue \in [S -> Seq(Frame)],
           NEW s, NEW frame \in Frame
    PROVE  Put(queue, s, frame) \in [S -> Seq(Frame)]
<1>1. \A x \in S : Append(queue[x], frame) \in Seq(Frame)
  BY AppendProperties
<1> QED BY <1>1 DEF Put

LEMMA PopType ==
    ASSUME NEW Frame, NEW S, NEW queue \in [S -> Seq(Frame)],
           NEW s, queue[s] # <<>>
    PROVE  Pop(queue, s) \in [S -> Seq(Frame)]
<1>1. \A x \in S : queue[x] # <<>> => Tail(queue[x]) \in Seq(Frame)
  BY HeadTailProperties
<1> QED BY <1>1 DEF Pop

LEMMA ClearType ==
    ASSUME NEW Frame, NEW S, NEW queue \in [S -> Seq(Frame)], NEW s
    PROVE  [queue EXCEPT ![s] = <<>>] \in [S -> Seq(Frame)]
BY EmptySeq

-----------------------------------------------------------------------------
LEMMA Frames ==
    /\ {"request", "response", "fin"} \subseteq ToSponsor
    /\ {"offer", "confirm"} \subseteq ToJoiner
BY DEF ToSponsor, ToJoiner

(* The parts of the type invariant, by the component that writes them. *)

SponsorType ==
    /\ invitation \in [Code -> Invitation]
    /\ live \subseteq Session /\ parked \subseteq Session
    /\ handler \in [at : HandlerStep, session : Session \cup {NoSession}]
    /\ members \subseteq Joiner /\ trusted \subseteq Joiner
    /\ offered \subseteq Session

WireType ==
    /\ dialled \in Seq([by : Joiner, code : Code])
    /\ inbox \in [Session -> Seq(ToSponsor)]
    /\ outbox \in [Session -> Seq(ToJoiner)]

JoinerType ==
    /\ joiner \in [Joiner -> [at : JoinerStep,
                              session : Session \cup {NoSession}]]
    /\ kek \in [Joiner -> Key \cup {NoKey}]
    /\ keyslot \in [Joiner -> Key \cup {NoKey}]
    /\ master \in [Joiner -> Key \cup {NoKey}]
    /\ setup \in [Joiner -> Key \cup {NoKey}]

LEMMA PairingParts ==
    /\ PairingTypeOK => SponsorType /\ WireType /\ JoinerType /\ faults \in Nat
    /\ SponsorType' /\ WireType' /\ JoinerType' /\ faults' \in Nat
          => PairingTypeOK'
BY Zenon DEF PairingTypeOK, SponsorType, WireType, JoinerType

(* Every session that anything refers to has been dialled, and by the      *)
(* device that refers to it.                                               *)
Dialled == DOMAIN dialled

SessionInv ==
    /\ live \subseteq Dialled /\ parked \subseteq Dialled
    /\ offered \subseteq Dialled
    /\ handler # Idle => handler.session \in Dialled
    /\ \A s \in Session : inbox[s] # <<>> => s \in Dialled
    /\ \A j \in Joiner :
          /\ joiner[j].at \in {"offer", "kek", "keyslot", "verdict"}
                => joiner[j].session # NoSession
          /\ joiner[j].session # NoSession =>
                /\ joiner[j].session \in Dialled
                /\ dialled[joiner[j].session].by = j

LEMMA DialledBy ==
    ASSUME WireType, NEW s \in Dialled
    PROVE  dialled[s].by \in Joiner /\ dialled[s].code \in Code
<1>1. Dialled = 1 .. Len(dialled)
  BY LenProperties DEF WireType, Dialled
<1>2. dialled[s] \in [by : Joiner, code : Code]
  BY <1>1, ElementOfSeq DEF WireType
<1> QED BY <1>2

LEMMA FaultsType ==
    ASSUME faults \in Nat, Fault \/ NoFault
    PROVE  faults' \in Nat
BY DEF Fault, NoFault

-----------------------------------------------------------------------------
(* The sponsor *)

LEMMA SponsorTypeKept ==
    ASSUME SponsorType, UNCHANGED sponsorVars
    PROVE  SponsorType'
BY DEF SponsorType, sponsorVars

LEMMA WireTypeKept ==
    ASSUME WireType, UNCHANGED wireVars
    PROVE  WireType'
BY DEF WireType, wireVars

LEMMA JoinerTypeKept ==
    ASSUME JoinerType, UNCHANGED joinerVars
    PROVE  JoinerType'
BY DEF JoinerType, joinerVars

InvitationStep ==
    \/ \E c \in Code : IssueInvitation(c) \/ ExpireInvitation(c)
    \/ CancelInvitations

LEMMA InvitationsType ==
    ASSUME PairingTypeOK, InvitationStep
    PROVE  PairingTypeOK'
<1> USE DEF Invitation, InvitationsOnly
<1>1. SponsorType'
  BY PairingParts DEF SponsorType, InvitationStep, IssueInvitation,
                      ExpireInvitation, CancelInvitations, WithoutOutstanding
<1>2. UNCHANGED <<wireVars, joinerVars, faults>>
  BY DEF InvitationStep, IssueInvitation, ExpireInvitation, CancelInvitations
<1> QED BY <1>1, <1>2, PairingParts, WireTypeKept, JoinerTypeKept
        DEF wireVars, joinerVars

LEMMA RequestType ==
    ASSUME PairingTypeOK, NEW s \in Session,
           AcceptRequest(s) \/ OfferFails(s) \/ RefuseRequest(s)
    PROVE  PairingTypeOK'
<1> USE PairingParts
<1>1. TakeInvitation(s) /\ (Fault \/ NoFault) /\ UNCHANGED <<joinerVars, dialled>>
  BY DEF AcceptRequest, OfferFails, RefuseRequest
<1>2. inbox' \in [Session -> Seq(ToSponsor)]
  BY <1>1, PopType DEF TakeInvitation, Arrived, WireType
<1>3. outbox' \in [Session -> Seq(ToJoiner)]
  <2>1. Put(outbox, s, "offer") \in [Session -> Seq(ToJoiner)]
    BY PutType, Frames DEF WireType
  <2> QED BY <2>1 DEF AcceptRequest, OfferFails, RefuseRequest, WireType
<1>4. invitation' \in [Code -> Invitation]
  BY <1>1 DEF TakeInvitation, Spent, SponsorType, Invitation
<1>5. SponsorType'
  BY <1>1, <1>4 DEF AcceptRequest, OfferFails, RefuseRequest, Reject, SponsorType
<1>6. WireType'
  BY <1>1, <1>2, <1>3 DEF WireType
<1> QED BY <1>1, <1>5, <1>6, JoinerTypeKept, FaultsType

LEMMA ResponseType ==
    ASSUME PairingTypeOK, NEW s \in Session,
           VerifyResponse(s) \/ VerifyFails(s) \/ HandleSessionClosed(s)
    PROVE  PairingTypeOK'
<1> USE PairingParts
<1>1. /\ inbox[s] # <<>> /\ inbox' = Pop(inbox, s)
      /\ Fault \/ NoFault
      /\ UNCHANGED <<joinerVars, dialled, outbox>>
  BY DEF VerifyResponse, VerifyFails, HandleSessionClosed, Arrived, NoFault
<1>2. inbox' \in [Session -> Seq(ToSponsor)]
  BY <1>1, PopType DEF WireType
<1>3. SponsorType'
  BY DEF VerifyResponse, VerifyFails, HandleSessionClosed, Reject, SponsorType,
         At, HandlerStep
<1>4. WireType'
  BY <1>1, <1>2 DEF WireType
<1> QED BY <1>1, <1>3, <1>4, JoinerTypeKept, FaultsType

LEMMA FinaliseType ==
    ASSUME PairingTypeOK, SessionInv, SponsorFinalises
    PROVE  PairingTypeOK'
<1> USE PairingParts
<1>1. /\ UNCHANGED <<joinerVars, dialled, inbox>>
      /\ Fault \/ NoFault
  BY DEF SponsorFinalises, AdmitMember, TrustPeer, RecordFails, TakeParked,
         SendConfirm, wireVars
<1>2. outbox' \in [Session -> Seq(ToJoiner)]
  <2>1. Put(outbox, handler.session, "confirm") \in [Session -> Seq(ToJoiner)]
    BY PutType, Frames DEF WireType
  <2> QED BY <2>1 DEF SponsorFinalises, AdmitMember, TrustPeer, RecordFails,
                      TakeParked, SendConfirm, WireType, wireVars
<1>3. WireType'
  BY <1>1, <1>2 DEF WireType
<1>4. SponsorType'
  <2>1. handler.session \in Session \cup {NoSession}
    BY DEF SponsorType
  <2>2. handler' \in [at : HandlerStep, session : Session \cup {NoSession}]
    BY <2>1 DEF SponsorFinalises, AdmitMember, TrustPeer, RecordFails,
                TakeParked, SendConfirm, At, Idle, HandlerStep, NoSession
  <2>3. ASSUME AdmitMember \/ TrustPeer
        PROVE  dialled[handler.session].by \in Joiner
    BY <2>3, DialledBy DEF AdmitMember, TrustPeer, SessionInv, Idle, At
  <2>4. CASE AdmitMember
    BY <2>2, <2>3, <2>4 DEF AdmitMember, SponsorType
  <2>5. CASE TrustPeer
    BY <2>2, <2>3, <2>5 DEF TrustPeer, SponsorType
  <2>6. CASE RecordFails \/ TakeParked \/ SendConfirm
    BY <2>2, <2>6 DEF RecordFails, TakeParked, SendConfirm, Reject, SponsorType
  <2> QED BY <2>4, <2>5, <2>6 DEF SponsorFinalises
<1> QED BY <1>1, <1>3, <1>4, JoinerTypeKept, FaultsType

LEMMA SponsorFailsType ==
    ASSUME PairingTypeOK, NEW s \in Session, FireTimeout(s)
    PROVE  PairingTypeOK'
<1>1. SponsorType'
  BY PairingParts DEF FireTimeout, Reject, SponsorType
<1> QED BY <1>1, PairingParts, WireTypeKept, JoinerTypeKept DEF FireTimeout

LEMMA SponsorCrashType ==
    ASSUME PairingTypeOK, SponsorCrash
    PROVE  PairingTypeOK'
<1> USE PairingParts
<1>1. UNCHANGED <<joinerVars, dialled, outbox>> /\ (Fault \/ NoFault)
  BY DEF SponsorCrash, wireVars, NoFault
<1>2. inbox' \in [Session -> Seq(ToSponsor)]
  BY EmptySeq DEF SponsorCrash, WireType, wireVars
<1>3. WireType'
  BY <1>1, <1>2 DEF WireType
<1>4. SponsorType'
  BY DEF SponsorCrash, SponsorType, WithoutOutstanding, Invitation, Idle, At,
         HandlerStep
<1> QED BY <1>1, <1>3, <1>4, JoinerTypeKept, FaultsType

-----------------------------------------------------------------------------
(* The joiners *)

(* Where a joiner is, and the frames of its session.                       *)
JoinerAtType == joiner \in [Joiner -> [at : JoinerStep,
                                      session : Session \cup {NoSession}]]

QueuesType ==
    /\ inbox \in [Session -> Seq(ToSponsor)]
    /\ outbox \in [Session -> Seq(ToJoiner)]

LEMMA LeaveType ==
    ASSUME PairingTypeOK, NEW j \in Joiner, NEW step \in JoinerStep,
           Leave(j, step)
    PROVE  JoinerAtType' /\ QueuesType'
<1>1. JoinerAtType'
  BY PairingParts DEF Leave, JoinerType, JoinerAtType, At
<1>2. Put(inbox, joiner[j].session, "fin") \in [Session -> Seq(ToSponsor)]
  BY PutType, Frames, PairingParts DEF WireType
<1>3. [outbox EXCEPT ![joiner[j].session] = <<>>] \in [Session -> Seq(ToJoiner)]
  BY ClearType, PairingParts DEF WireType
<1> QED BY <1>1, <1>2, <1>3 DEF Leave, QueuesType

LEMMA StepType ==
    ASSUME PairingTypeOK, NEW j \in Joiner
    PROVE  /\ \A step \in JoinerStep : [joiner EXCEPT ![j].at = step] \in
                [Joiner -> [at : JoinerStep, session : Session \cup {NoSession}]]
           /\ [joiner EXCEPT ![j] = Idle] \in
                [Joiner -> [at : JoinerStep, session : Session \cup {NoSession}]]
BY PairingParts DEF JoinerType, Idle, At, JoinerStep

LEMMA DialType ==
    ASSUME PairingTypeOK, NEW j \in Joiner, NEW c \in Code, Dial(j, c)
    PROVE  PairingTypeOK'
<1> USE PairingParts
<1> DEFINE s == Len(dialled) + 1
<1>1. s \in Session
  BY DEF Dial
<1>2. dialled' \in Seq([by : Joiner, code : Code])
  <2>1. [by |-> j, code |-> c] \in [by : Joiner, code : Code]
    OBVIOUS
  <2> QED BY <2>1, AppendProperties DEF Dial, WireType
<1>3. inbox' \in [Session -> Seq(ToSponsor)]
  BY PutType, Frames DEF Dial, WireType
<1>4. WireType'
  BY <1>2, <1>3 DEF Dial, WireType
<1>5. JoinerType'
  BY <1>1 DEF Dial, JoinerType, At, JoinerStep
<1>6. SponsorType'
  BY <1>1 DEF Dial, SponsorType
<1> QED BY <1>4, <1>5, <1>6 DEF Dial

LEMMA HandshakeType ==
    ASSUME PairingTypeOK, NEW j \in Joiner, JoinerHandshake(j)
    PROVE  PairingTypeOK'
<1> USE PairingParts
<1>1. UNCHANGED <<sponsorVars, dialled>> /\ faults' \in Nat
  BY FaultsType
     DEF JoinerHandshake, AbandonHandshake, TakeOffer, StoreKek, StoreKeyslot,
         StoreKeyslotFails, TakeConfirm, PersistSponsor, CompleteSetup, wireVars
<1>2. JoinerAtType' /\ QueuesType'
  <2>1. CASE Leave(j, "failed") \/ Leave(j, "persist")
    BY <2>1, LeaveType DEF JoinerStep
  <2>2. CASE TakeOffer(j)
    BY <2>2, PopType, StepType
       DEF TakeOffer, Arrived, WireType, QueuesType, JoinerAtType, JoinerStep
  <2>3. CASE StoreKeyslot(j)
    <3>1. inbox' \in [Session -> Seq(ToSponsor)]
      BY <2>3, PutType, Frames DEF StoreKeyslot, WireType
    <3> QED BY <2>3, <3>1, StepType
         DEF StoreKeyslot, WireType, QueuesType, JoinerAtType, JoinerStep
  <2>4. CASE StoreKek(j) \/ PersistSponsor(j) \/ CompleteSetup(j)
    <3>1. UNCHANGED <<inbox, outbox>>
      BY <2>4 DEF StoreKek, PersistSponsor, CompleteSetup, wireVars
    <3>2. \/ joiner' = [joiner EXCEPT ![j] = Idle]
          \/ \E step \in JoinerStep : joiner' = [joiner EXCEPT ![j].at = step]
      BY <2>4 DEF StoreKek, PersistSponsor, CompleteSetup, JoinerStep
    <3> QED BY ZenonT(40), <3>1, <3>2, StepType DEF WireType, QueuesType, JoinerAtType
  <2> QED BY <2>1, <2>2, <2>3, <2>4
       DEF JoinerHandshake, AbandonHandshake, StoreKeyslotFails, TakeConfirm
<1>3. /\ kek' \in [Joiner -> Key \cup {NoKey}]
      /\ keyslot' \in [Joiner -> Key \cup {NoKey}]
      /\ master' \in [Joiner -> Key \cup {NoKey}]
      /\ setup' \in [Joiner -> Key \cup {NoKey}]
  BY DEF JoinerHandshake, AbandonHandshake, TakeOffer, StoreKek, StoreKeyslot,
         StoreKeyslotFails, TakeConfirm, PersistSponsor, CompleteSetup,
         JoinerType, Key, Target
<1>4. JoinerType' /\ WireType'
  BY <1>1, <1>2, <1>3 DEF JoinerType, WireType, JoinerAtType, QueuesType
<1> QED BY <1>1, <1>4, SponsorTypeKept

LEMMA JoinerFailsType ==
    ASSUME PairingTypeOK, NEW j \in Joiner, HangUp(j)
    PROVE  JoinerAtType' /\ QueuesType'
<1>1. CASE Leave(j, "idle")
  BY <1>1, LeaveType DEF JoinerStep
<1>2. CASE joiner' = [joiner EXCEPT ![j] = Idle] /\ UNCHANGED <<inbox, outbox>>
  BY <1>2, StepType, PairingParts DEF JoinerAtType, QueuesType, WireType
<1> QED BY <1>1, <1>2 DEF HangUp

LEMMA JoinerCrashType ==
    ASSUME PairingTypeOK, NEW j \in Joiner, JoinerCrash(j) \/ BreakLink(j)
    PROVE  PairingTypeOK'
<1> USE PairingParts
<1>1. CASE JoinerCrash(j)
  <2>1. JoinerAtType' /\ QueuesType'
    BY <1>1, JoinerFailsType DEF JoinerCrash
  <2>2. JoinerType' /\ WireType'
    BY <1>1, <2>1 DEF JoinerCrash, JoinerType, WireType, JoinerAtType, QueuesType
  <2> QED BY <1>1, <2>2, SponsorTypeKept, FaultsType DEF JoinerCrash
<1>2. CASE BreakLink(j)
  <2>1. <<"fin">> \in Seq(ToSponsor)
    BY EmptySeq, AppendProperties, Frames DEF ToSponsor
  <2>2. inbox' \in [Session -> Seq(ToSponsor)]
    BY <1>2, <2>1 DEF BreakLink, WireType
  <2>3. outbox' \in [Session -> Seq(ToJoiner)]
    BY <1>2, ClearType DEF BreakLink, WireType
  <2>4. WireType'
    BY <1>2, <2>2, <2>3 DEF BreakLink, WireType
  <2>5. SponsorType'
    BY <1>2 DEF BreakLink, SponsorType
  <2> QED BY <1>2, <2>4, <2>5, JoinerTypeKept, FaultsType DEF BreakLink
<1> QED BY <1>1, <1>2

(***************************************************************************)
(* A step of pairing keeps its part of the type invariant.                 *)
(***************************************************************************)
LEMMA PairingStepType ==
    ASSUME PairingTypeOK, SessionInv, PairingNext
    PROVE  PairingTypeOK'
<1>1. ASSUME NEW j \in Joiner, NEW c \in Code, RedeemInvitation(j, c)
      PROVE  PairingTypeOK'
  BY <1>1, DialType DEF RedeemInvitation
<1>2. ASSUME NEW s \in Session, SponsorHandles(s) \/ FireTimeout(s)
      PROVE  PairingTypeOK'
  BY <1>2, RequestType, ResponseType, SponsorFailsType DEF SponsorHandles
<1>3. ASSUME SponsorCrash
      PROVE  PairingTypeOK'
  BY <1>3, SponsorCrashType
<1>4. ASSUME NEW j \in Joiner,
             JoinerHandshake(j) \/ JoinerCrash(j) \/ BreakLink(j)
      PROVE  PairingTypeOK'
  BY <1>4, HandshakeType, JoinerCrashType
<1> QED BY <1>1, <1>2, <1>3, <1>4, InvitationsType, FinaliseType
        DEF PairingNext, SponsorLoop, InvitationStep

-----------------------------------------------------------------------------
(* The migration *)

Jobs == [Thread -> [at : JobStep, run : Run \cup {NoRun},
                    left : SUBSET Record, open : BOOLEAN]]

LEMMA JobType ==
    ASSUME job \in Jobs, NEW t \in Thread
    PROVE  /\ job[t].run \in Run \cup {NoRun} /\ job[t].left \subseteq Record
           /\ [job EXCEPT ![t] = NoJob] \in Jobs
           /\ \A step \in JobStep : [job EXCEPT ![t].at = step] \in Jobs
           /\ \A step \in JobStep, set \in SUBSET Record :
                [job EXCEPT ![t].at = step, ![t].left = set] \in Jobs
           /\ \A step \in JobStep, bit \in BOOLEAN :
                [job EXCEPT ![t].at = step, ![t].open = bit] \in Jobs
           /\ \A set \in SUBSET Record : [job EXCEPT ![t].left = set] \in Jobs
           /\ \A bit \in BOOLEAN : [job EXCEPT ![t].open = bit] \in Jobs
           /\ \A step \in JobStep, run \in Run \cup {NoRun} :
                [job EXCEPT ![t] = [NoJob EXCEPT !.at = step, !.run = run]] \in Jobs
BY ZenonT(40) DEF Jobs, NoJob, JobStep, NoRun

LEMMA NoJobsType == [t \in Thread |-> NoJob] \in Jobs
BY DEF Jobs, NoJob, JobStep, NoRun

PhaseType == phase \in [step : Phase, run : Run \cup {NoRun}]

HistoryType ==
    /\ main \in [Row -> Key \cup {"none", "gone"}]
    /\ backup \in [Row -> Run \cup {NoRun}]
    /\ keyring \subseteq Run
    /\ runs \in 0 .. MaxRuns
    /\ promised \subseteq Row

LEMMA SwitchParts ==
    /\ SwitchTypeOK => HistoryType /\ PhaseType /\ job \in Jobs
    /\ HistoryType' /\ PhaseType' /\ job' \in Jobs => SwitchTypeOK'
BY Zenon DEF SwitchTypeOK, HistoryType, PhaseType, Jobs

LEMMA SwitchTypeKept ==
    ASSUME SwitchTypeOK, UNCHANGED switchVars
    PROVE  SwitchTypeOK'
BY DEF SwitchTypeOK, switchVars, historyVars

(* The steps of a migration that leave pairing alone.                      *)
LEMMA PairingTypeKept ==
    ASSUME PairingTypeOK, NotPairing, Fault \/ NoFault
    PROVE  PairingTypeOK'
BY PairingParts, SponsorTypeKept, WireTypeKept, JoinerTypeKept, FaultsType
   DEF NotPairing

BackUpStep ==
    \/ StartSwitch \/ ListRows \/ (\E rec \in Record : BackUp(rec))
    \/ BackedUp \/ UndoRows

(* A migration that lists its rows has a run.                              *)
RunInv == JobAt("switch", "list rows") => job["switch"].run \in Run

LEMMA BackUpType ==
    ASSUME TypeOK, RunInv, BackUpStep
    PROVE  TypeOK'
<1> USE SwitchParts DEF TypeOK
<1> "switch" \in Thread
  BY DEF Thread
<1>1. NotPairing /\ (Fault \/ NoFault) /\ UNCHANGED phase
  BY DEF BackUpStep, StartSwitch, ListRows, BackUp, BackedUp, UndoRows, Dropped,
         Kept, NoFault, historyVars
<1>2. job' \in Jobs
  <2>1. CASE StartSwitch
    <3>1. runs + 1 \in Run
      BY <2>1, SwitchAssumption DEF StartSwitch, HistoryType, Run
    <3> QED BY <2>1, <3>1, JobType DEF StartSwitch, JobStep
  <2>2. CASE ListRows
    <3> DEFINE found == {r \in Row : Stored(r)} \X {job["switch"].run}
    <3>1. found \in SUBSET Record
      BY <2>2 DEF ListRows, RunInv, Record
    <3>2. "back up" \in JobStep
      BY DEF JobStep
    <3> HIDE DEF found
    <3>3. [job EXCEPT !["switch"].at = "back up", !["switch"].left = found]
            \in Jobs
      BY <3>1, <3>2, JobType
    <3> QED BY <2>2, <3>3 DEF ListRows, found
  <2>3. ASSUME NEW rec \in Record, BackUp(rec)
        PROVE  job' \in Jobs
    <3>1. job["switch"].left \ {rec} \in SUBSET Record
      BY JobType
    <3>2. "undo rows" \in JobStep
      BY DEF JobStep
    <3> QED BY ZenonT(40), <2>3, <3>1, <3>2, JobType DEF BackUp, GoTo
  <2>4. CASE BackedUp \/ UndoRows
    <3>1. "set prepared" \in JobStep
      BY DEF JobStep, SetStep
    <3> QED BY <2>4, <3>1, JobType DEF BackedUp, UndoRows, GoTo, GiveUp
  <2> QED BY <2>1, <2>2, <2>3, <2>4 DEF BackUpStep
<1>3. HistoryType'
  <2>1. CASE StartSwitch
    <3>1. runs + 1 \in Run
      BY <2>1, SwitchAssumption DEF StartSwitch, HistoryType, Run
    <3> QED BY <2>1, <3>1 DEF StartSwitch, HistoryType, Run
  <2>2. ASSUME NEW rec \in Record, BackUp(rec)
        PROVE  HistoryType'
    <3>1. rec[1] \in Row /\ rec[2] \in Run
      BY DEF Record
    <3>2. backup' \in [Row -> Run \cup {NoRun}]
      BY <2>2, <3>1 DEF BackUp, HistoryType
    <3> QED BY <2>2, <3>2 DEF BackUp, HistoryType
  <2>3. CASE ListRows \/ BackedUp \/ UndoRows
    BY <2>3 DEF ListRows, BackedUp, UndoRows, Dropped, Kept, historyVars,
                HistoryType
  <2> QED BY <2>1, <2>2, <2>3 DEF BackUpStep
<1> QED BY <1>1, <1>2, <1>3, PairingTypeKept DEF PhaseType

FileStep(t) ==
    \/ CreateFile(t) \/ SetSwapped(t) \/ SetNone(t) \/ WriteFails(t)
    \/ t = "switch" /\ (SetPrepared \/ SetHandshakeDone)

LEMMA FileType ==
    ASSUME TypeOK, NEW t \in Thread, FileStep(t)
    PROVE  TypeOK'
<1> USE SwitchParts DEF TypeOK
<1>1. NotPairing /\ (Fault \/ NoFault)
  BY DEF FileStep, CreateFile, SetSwapped, SetNone, WriteFails, SetPrepared,
         SetHandshakeDone, Fails, NoFault
<1>2. HistoryType'
  BY DEF FileStep, CreateFile, SetSwapped, SetNone, WriteFails, SetPrepared,
         SetHandshakeDone, Fails, historyVars, HistoryType
<1>3. PhaseType'
  <2>1. NoPhase \in [step : Phase, run : Run \cup {NoRun}]
    BY DEF NoPhase, Phase
  <2>2. \A step \in Phase : [step |-> step, run |-> job[t].run]
            \in [step : Phase, run : Run \cup {NoRun}]
    BY JobType
  <2>3. {"prepared", "handshake_done", "swapped"} \subseteq Phase
    BY DEF Phase
  <2> QED BY <2>1, <2>2, <2>3
       DEF FileStep, CreateFile, SetSwapped, SetNone, WriteFails, SetPrepared,
           SetHandshakeDone, WriteFile, Fails, PhaseType
<1>4. job' \in Jobs
  <2>1. {"handshake", "list backup", "commit"} \subseteq JobStep
    BY DEF JobStep
  <2>2. \A step \in JobStep :
            [job EXCEPT ![t].at = step, ![t].open = FALSE] \in Jobs
    BY JobType
  <2>3. [job EXCEPT ![t].open = TRUE] \in Jobs /\ [job EXCEPT ![t] = NoJob] \in Jobs
    BY JobType
  <2>4. CASE \E step \in Phase, after \in {"handshake", "list backup", "commit"} :
                WriteFile(t, step, after)
    BY <2>1, <2>2, <2>4 DEF WriteFile
  <2>5. CASE CreateFile(t) \/ SetNone(t) \/ WriteFails(t)
    BY <2>3, <2>5 DEF CreateFile, SetNone, WriteFails, Fails, GiveUp
  <2> QED BY <2>4, <2>5
       DEF FileStep, SetSwapped, SetPrepared, SetHandshakeDone, Phase
<1> QED BY <1>1, <1>2, <1>3, <1>4, PairingTypeKept

LEMMA JoinSpaceType ==
    ASSUME TypeOK, NEW c \in Code, JoinSpace(c)
    PROVE  TypeOK'
<1> USE SwitchParts DEF TypeOK
<1>1. PairingTypeOK'
  BY DialType, SwitchAssumption DEF JoinSpace
<1>2. SwitchTypeOK'
  BY DEF JoinSpace, HistoryType, PhaseType, historyVars
<1> QED BY <1>1, <1>2

LEMMA HandshakeOverType ==
    ASSUME TypeOK, DialFails \/ HandshakeOver
    PROVE  TypeOK'
<1> USE SwitchParts DEF TypeOK
<1>1. UNCHANGED <<historyVars, phase, runs, promised>>
  BY DEF DialFails, HandshakeOver
<1>2. job' \in Jobs
  <2>1. "switch" \in Thread /\ {"set done", "drop rows"} \subseteq JobStep
    BY DEF Thread, JobStep, SetStep
  <2>2. \A step \in JobStep : [job EXCEPT !["switch"].at = step] \in Jobs
    BY <2>1, JobType
  <2> QED BY <2>1, <2>2 DEF DialFails, HandshakeOver, GoTo
<1>3. PairingTypeOK'
  <2>1. CASE DialFails
    BY <2>1, PairingTypeKept DEF DialFails, NoFault
  <2>2. CASE HandshakeOver
    <3>1. JoinerType'
      BY <2>2, StepType, SwitchAssumption, PairingParts
         DEF HandshakeOver, JoinerType
    <3> QED BY <2>2, <3>1, PairingParts, SponsorTypeKept, WireTypeKept
         DEF HandshakeOver
  <2> QED BY <2>1, <2>2
<1> QED BY <1>1, <1>2, <1>3 DEF HistoryType, PhaseType, historyVars

SwapStep(t) ==
    \/ ListBackup(t) \/ (\E rec \in Record : Swap(t, rec)) \/ SwapFails(t)
    \/ AllSwapped(t)

LEMMA SwapType ==
    ASSUME TypeOK, NEW t \in Thread, SwapStep(t)
    PROVE  TypeOK'
<1> USE SwitchParts DEF TypeOK
<1>1. /\ NotPairing /\ (Fault \/ NoFault)
      /\ UNCHANGED <<backup, keyring, phase, runs, promised>>
  BY DEF SwapStep, ListBackup, Swap, SwapFails, AllSwapped, StopSwap, Fails,
         NoFault, historyVars
<1>2. job' \in Jobs
  <2>1. {"swap", "set swapped"} \subseteq JobStep
    BY DEF JobStep, SetStep
  <2>2. BackupRecords \in SUBSET Record
    BY DEF BackupRecords
  <2>3. \A rec \in Record : job[t].left \ {rec} \in SUBSET Record
    BY JobType
  <2>4. CASE ListBackup(t)
    BY <2>1, <2>2, <2>4, JobType DEF ListBackup
  <2>5. CASE \E rec \in Record : Swap(t, rec)
    BY ZenonT(40), <2>3, <2>5, JobType DEF Swap
  <2>6. CASE SwapFails(t) \/ AllSwapped(t)
    BY <2>1, <2>6, JobType DEF SwapFails, AllSwapped, StopSwap, Fails, GiveUp, GoTo
  <2> QED BY <2>4, <2>5, <2>6 DEF SwapStep
<1>3. main' \in [Row -> Key \cup {"none", "gone"}]
  <2>1. ASSUME NEW rec \in Record, Swap(t, rec)
        PROVE  main' \in [Row -> Key \cup {"none", "gone"}]
    <3>1. master[Mover] \in Key
      BY <2>1, PairingParts, SwitchAssumption DEF Swap, CanSwap, JoinerType
    <3> QED BY <2>1, <3>1 DEF Swap, HistoryType
  <2> QED BY <2>1 DEF SwapStep, ListBackup, SwapFails, AllSwapped, StopSwap,
                      Fails, historyVars, HistoryType
<1> QED BY <1>1, <1>2, <1>3, PairingTypeKept DEF HistoryType, PhaseType

CommitStep(t) == Commit(t) \/ CommitFails(t) \/ DropRows(t) \/ DropKey(t)

LEMMA CommitType ==
    ASSUME TypeOK, NEW t \in Thread, CommitStep(t)
    PROVE  TypeOK'
<1> USE SwitchParts DEF TypeOK
<1>1. UNCHANGED <<main, phase, runs, promised>>
  BY DEF CommitStep, Commit, CommitFails, DropRows, DropKey, Fails, historyVars
<1>2. job' \in Jobs
  <2>1. {"drop rows", "drop key", "set none"} \subseteq JobStep
    BY DEF JobStep, SetStep
  <2> QED BY ZenonT(40), <2>1, JobType DEF CommitStep, Commit, CommitFails, DropRows,
                               DropKey, Fails, GiveUp, GoTo
<1>3. HistoryType'
  BY <1>1 DEF CommitStep, Commit, CommitFails, DropRows, DropKey, Fails, Dropped,
              Kept, historyVars, HistoryType
<1>4. PairingTypeOK'
  <2>1. CASE Commit(t)
    <3>1. JoinerType'
      BY <2>1, PairingParts DEF Commit, JoinerType, Key
    <3> QED BY <2>1, <3>1, PairingParts, SponsorTypeKept, WireTypeKept
         DEF Commit
  <2>2. CASE CommitFails(t) \/ DropRows(t) \/ DropKey(t)
    BY <2>2, PairingTypeKept
       DEF CommitFails, DropRows, DropKey, Fails, Dropped, Kept
  <2> QED BY <2>1, <2>2 DEF CommitStep
<1> QED BY <1>1, <1>2, <1>3, <1>4 DEF PhaseType

LEMMA ResumeType ==
    ASSUME TypeOK, ResumePending
    PROVE  TypeOK'
<1> USE SwitchParts DEF TypeOK
<1>1. job' \in Jobs
  <2>1. phase.run \in Run \cup {NoRun}
    BY DEF PhaseType
  <2>2. ResumeAt[phase.step] \in JobStep
    <3>1. phase.step \in {"prepared", "handshake_done", "swapped"}
      BY DEF ResumePending, InterruptedSteps
    <3>2. /\ ResumeAt["prepared"] = "drop rows"
          /\ ResumeAt["handshake_done"] = "list backup"
          /\ ResumeAt["swapped"] = "commit"
      BY DEF ResumeAt
    <3> QED BY <3>1, <3>2 DEF JobStep
  <2>3. "resume" \in Thread
    BY DEF Thread
  <2> QED BY <2>1, <2>2, <2>3, JobType DEF ResumePending
<1>2. PairingTypeOK'
  BY PairingTypeKept DEF ResumePending, NoFault
<1> QED BY <1>1, <1>2 DEF ResumePending, HistoryType, PhaseType, historyVars

LEMMA DeviceType ==
    ASSUME TypeOK, Device
    PROVE  TypeOK'
<1> USE SwitchParts, SwitchAssumption DEF TypeOK
<1>1. CASE Unlock \/ Lock
  <2>1. JoinerType'
    BY <1>1, PairingParts DEF Unlock, Lock, JoinerType
  <2> QED BY <1>1, <2>1, PairingParts, SponsorTypeKept, WireTypeKept, FaultsType,
             SwitchTypeKept DEF Unlock, Lock
<1>2. CASE MoverCrash
  <2>1. JoinerAtType' /\ QueuesType'
    BY <1>2, JoinerFailsType DEF MoverCrash
  <2>2. JoinerType' /\ WireType'
    BY <1>2, <2>1, PairingParts
       DEF MoverCrash, JoinerType, WireType, JoinerAtType, QueuesType
  <2>3. SwitchTypeOK'
    BY <1>2, NoJobsType DEF MoverCrash, HistoryType, PhaseType, historyVars
  <2> QED BY <1>2, <2>2, <2>3, PairingParts, SponsorTypeKept, FaultsType
       DEF MoverCrash
<1>3. ASSUME NEW r \in Row, CaptureRow(r) \/ DeleteRow(r)
      PROVE  TypeOK'
  <2>1. main' \in [Row -> Key \cup {"none", "gone"}]
    BY <1>3, PairingParts DEF CaptureRow, DeleteRow, HistoryType, JoinerType
  <2> QED BY <1>3, <2>1, PairingTypeKept
       DEF CaptureRow, DeleteRow, HistoryType, PhaseType, NoFault
<1> QED BY <1>1, <1>2, <1>3 DEF Device

-----------------------------------------------------------------------------
LEMMA InitType == Init => TypeOK
<1> SUFFICES ASSUME Init PROVE TypeOK
  OBVIOUS
<1>1. HomeKeys \in [Joiner -> Key \cup {NoKey}]
  BY DEF HomeKeys, Key
<1>2. PairingTypeOK
  BY <1>1, EmptySeq
     DEF Init, PairingInit, PairingTypeOK, Invitation, Idle, At, HandlerStep,
         JoinerStep
<1>3. SwitchTypeOK
  BY NoJobsType, SwitchAssumption
     DEF Init, SwitchInit, SwitchTypeOK, NoPhase, Phase, Key, Jobs
<1> QED BY <1>2, <1>3 DEF TypeOK

(***************************************************************************)
(* A step keeps every variable in its type, given the two facts about      *)
(* sessions and runs that a type does not say.                             *)
(***************************************************************************)
LEMMA NextType ==
    ASSUME TypeOK, SessionInv, RunInv, [Next]_vars
    PROVE  TypeOK'
<1>1. CASE PairingNext /\ UNCHANGED switchVars
  BY <1>1, PairingStepType, SwitchTypeKept DEF TypeOK
<1>2. ASSUME NEW t \in Thread, Migrate(t)
      PROVE  TypeOK'
  BY <1>2, FileType, SwapType, CommitType
     DEF Migrate, FileStep, SwapStep, CommitStep
<1>3. CASE Switch
  <2>1. "switch" \in Thread
    BY DEF Thread
  <2> QED BY <1>2, <1>3, <2>1, BackUpType, FileType, HandshakeOverType
       DEF Switch, BackUpStep, FileStep
<1>4. CASE UNCHANGED vars
  BY <1>4, PairingParts, SponsorTypeKept, WireTypeKept, JoinerTypeKept,
     SwitchTypeKept DEF vars, pairingVars, TypeOK
<1>5. CASE StartSwitch
  BY <1>5, BackUpType DEF BackUpStep
<1>6. CASE Migrate("resume")
  BY <1>2, <1>6 DEF Thread
<1> QED BY <1>1, <1>3, <1>4, <1>5, <1>6, JoinSpaceType, ResumeType, DeviceType
        DEF Next

-----------------------------------------------------------------------------
(* Sessions *)

LEMMA PutArrives ==
    ASSUME TypeOK, NEW s, NEW frame, NEW x \in Session,
           Put(inbox, s, frame)[x] # <<>>
    PROVE  x = s \/ inbox[x] # <<>>
BY DEF Put, TypeOK, PairingTypeOK

LEMMA PopArrives ==
    ASSUME TypeOK, NEW s \in Session, inbox[s] # <<>>, NEW x \in Session,
           Pop(inbox, s)[x] # <<>>
    PROVE  inbox[x] # <<>>
BY DEF Pop, TypeOK, PairingTypeOK

(* What only the frames say of the sessions.                               *)
InboxInv == \A s \in Session : inbox[s] # <<>> => s \in Dialled

SponsorSessions ==
    /\ live \subseteq Dialled /\ parked \subseteq Dialled
    /\ offered \subseteq Dialled
    /\ handler # Idle => handler.session \in Dialled

JoinerSessions ==
    \A j \in Joiner :
        /\ joiner[j].at \in {"offer", "kek", "keyslot", "verdict"}
              => joiner[j].session # NoSession
        /\ joiner[j].session # NoSession =>
              /\ joiner[j].session \in Dialled
              /\ dialled[joiner[j].session].by = j

LEMMA SessionParts ==
    /\ SessionInv => SponsorSessions /\ InboxInv /\ JoinerSessions
    /\ SponsorSessions' /\ InboxInv' /\ JoinerSessions' => SessionInv'
BY DEF SessionInv, SponsorSessions, InboxInv, JoinerSessions

LEMMA SponsorSessionsKept ==
    ASSUME SponsorSessions, UNCHANGED <<sponsorVars, dialled>>
    PROVE  SponsorSessions'
BY DEF SponsorSessions, sponsorVars, Dialled

LEMMA JoinerSessionsKept ==
    ASSUME JoinerSessions, UNCHANGED <<joiner, dialled>>
    PROVE  JoinerSessions'
BY DEF JoinerSessions, Dialled

LEMMA InboxKept ==
    ASSUME InboxInv, UNCHANGED <<inbox, dialled>>
    PROVE  InboxInv'
BY DEF InboxInv, Dialled

LEMMA SessionKept ==
    ASSUME SessionInv, UNCHANGED <<sponsorVars, dialled, inbox, joiner>>
    PROVE  SessionInv'
BY SessionParts, SponsorSessionsKept, InboxKept, JoinerSessionsKept

LEMMA SponsorKeepsSessions ==
    ASSUME TypeOK, SessionInv, SponsorLoop
    PROVE  SessionInv'
<1> USE SessionParts
<1>1. ASSUME NEW s \in Session, SponsorHandles(s)
      PROVE  SessionInv'
  <2>1. /\ inbox[s] # <<>> /\ inbox' = Pop(inbox, s)
        /\ UNCHANGED <<joiner, dialled>>
    BY <1>1 DEF SponsorHandles, AcceptRequest, OfferFails, RefuseRequest,
                VerifyResponse, VerifyFails, HandleSessionClosed,
                TakeInvitation, Arrived, joinerVars
  <2>2. InboxInv'
    BY <2>1, PopArrives DEF InboxInv, Dialled
  <2>3. s \in Dialled
    BY <2>1 DEF InboxInv
  <2>4. SponsorSessions'
    BY <1>1, <2>1, <2>3
       DEF SponsorHandles, AcceptRequest, OfferFails, RefuseRequest,
           VerifyResponse, VerifyFails, HandleSessionClosed, Reject, At,
           SponsorSessions, Dialled
  <2> QED BY <2>1, <2>2, <2>4, JoinerSessionsKept
<1>2. CASE SponsorFinalises
  <2>1. UNCHANGED <<joiner, dialled, inbox>>
    BY <1>2 DEF SponsorFinalises, AdmitMember, TrustPeer, RecordFails,
                TakeParked, SendConfirm, wireVars, joinerVars
  <2>2. SponsorSessions'
    BY <1>2, <2>1
       DEF SponsorFinalises, AdmitMember, TrustPeer, RecordFails, TakeParked,
           SendConfirm, Reject, At, Idle, SponsorSessions, Dialled
  <2> QED BY <2>1, <2>2, InboxKept, JoinerSessionsKept
<1> QED BY <1>1, <1>2 DEF SponsorLoop

LEMMA SponsorFaultsKeepSessions ==
    ASSUME TypeOK, SessionInv, 
           (\E s \in Session : FireTimeout(s)) \/ SponsorCrash
    PROVE  SessionInv'
<1> USE SessionParts
<1>1. UNCHANGED <<joiner, dialled>>
  BY DEF FireTimeout, SponsorCrash, wireVars, joinerVars
<1>2. InboxInv'
  BY <1>1 DEF FireTimeout, SponsorCrash, wireVars, InboxInv, Dialled
<1>3. SponsorSessions'
  BY <1>1 DEF FireTimeout, SponsorCrash, Reject, Idle, At, SponsorSessions,
              Dialled
<1> QED BY <1>1, <1>2, <1>3, JoinerSessionsKept

InSession == {"offer", "kek", "keyslot", "verdict"}

LEMMA MoveKeepsSessions ==
    ASSUME TypeOK, JoinerSessions, NEW j \in Joiner, NEW step,
           joiner' = [joiner EXCEPT ![j].at = step], UNCHANGED dialled,
           step \in InSession => joiner[j].at \in InSession
    PROVE  JoinerSessions'
<1>1. \A i \in Joiner : joiner'[i].session = joiner[i].session
  BY DEF TypeOK, PairingTypeOK
<1>2. joiner'[j].at = step /\ \A i \in Joiner \ {j} : joiner'[i] = joiner[i]
  BY DEF TypeOK, PairingTypeOK
<1> QED BY <1>1, <1>2 DEF JoinerSessions, InSession, Dialled

LEMMA RestKeepsSessions ==
    ASSUME TypeOK, JoinerSessions, NEW j \in Joiner,
           joiner' = [joiner EXCEPT ![j] = Idle], UNCHANGED dialled
    PROVE  JoinerSessions'
<1>1. joiner'[j] = Idle /\ \A i \in Joiner \ {j} : joiner'[i] = joiner[i]
  BY DEF TypeOK, PairingTypeOK
<1> QED BY <1>1 DEF JoinerSessions, Dialled, Idle, At

LEMMA LeaveKeepsSessions ==
    ASSUME TypeOK, SessionInv, NEW j \in Joiner,
           NEW step \in {"idle", "persist", "failed"},
           Leave(j, step), UNCHANGED dialled
    PROVE  InboxInv' /\ JoinerSessions'
<1> USE SessionParts
<1>1. InboxInv'
  BY PutArrives DEF Leave, InboxInv, JoinerSessions, Dialled, Session, NoSession
<1>2. JoinerSessions'
  BY DEF Leave, JoinerSessions, Dialled, At, TypeOK, PairingTypeOK
<1> QED BY <1>1, <1>2

LEMMA DialKeepsSessions ==
    ASSUME TypeOK, SessionInv, NEW j \in Joiner, NEW c \in Code, Dial(j, c)
    PROVE  SessionInv'
<1> USE SessionParts
<1> DEFINE s == Len(dialled) + 1
<1>1. /\ Dialled = 1 .. Len(dialled) /\ Len(dialled) \in Nat
      /\ Dialled' = Dialled \cup {s}
      /\ \A x \in Dialled : dialled'[x] = dialled[x]
      /\ dialled'[s].by = j /\ s # NoSession
  <2>1. dialled \in Seq([by : Joiner, code : Code])
    BY DEF TypeOK, PairingTypeOK
  <2>2. [by |-> j, code |-> c] \in [by : Joiner, code : Code]
    OBVIOUS
  <2>3. Dialled' = 1 .. Len(dialled')
    BY <2>1, <2>2, AppendProperties, LenProperties DEF Dial, Dialled
  <2> QED BY <2>1, <2>2, <2>3, AppendProperties, LenProperties
       DEF Dial, Dialled, NoSession
<1>2. InboxInv'
  BY <1>1, PutArrives DEF Dial, InboxInv
<1>3. SponsorSessions'
  BY <1>1 DEF Dial, SponsorSessions
<1>4. JoinerSessions'
  BY <1>1 DEF Dial, JoinerSessions, At, TypeOK, PairingTypeOK
<1> QED BY <1>2, <1>3, <1>4

LEMMA HandshakeKeepsSessions ==
    ASSUME TypeOK, SessionInv, NEW j \in Joiner, JoinerHandshake(j)
    PROVE  SessionInv'
<1> USE SessionParts
<1>1. UNCHANGED <<sponsorVars, dialled>>
  BY DEF JoinerHandshake, AbandonHandshake, TakeOffer, StoreKek, StoreKeyslot,
         StoreKeyslotFails, TakeConfirm, PersistSponsor, CompleteSetup, wireVars
<1>2. InboxInv' /\ JoinerSessions'
  <2>1. CASE Leave(j, "failed") \/ Leave(j, "persist")
    BY <1>1, <2>1, LeaveKeepsSessions
  <2>2. CASE StoreKeyslot(j)
    <3>1. InboxInv'
      BY <1>1, <2>2, PutArrives
         DEF StoreKeyslot, InboxInv, JoinerSessions, Dialled
    <3>2. JoinerSessions'
      BY <1>1, <2>2 DEF StoreKeyslot, JoinerSessions, Dialled, TypeOK, PairingTypeOK
    <3> QED BY <3>1, <3>2
  <2>3. CASE TakeOffer(j) \/ StoreKek(j) \/ PersistSponsor(j) \/ CompleteSetup(j)
    <3>1. InboxInv'
      <4>1. UNCHANGED inbox
        BY <2>3 DEF TakeOffer, StoreKek, PersistSponsor, CompleteSetup, wireVars
      <4> QED BY <1>1, <4>1, InboxKept
    <3>2. JoinerSessions'
      <4>1. CASE TakeOffer(j)
        BY <1>1, <4>1, MoveKeepsSessions DEF TakeOffer, InSession
      <4>2. CASE StoreKek(j)
        BY <1>1, <4>2, MoveKeepsSessions DEF StoreKek, InSession
      <4>3. CASE PersistSponsor(j)
        BY <1>1, <4>3, MoveKeepsSessions DEF PersistSponsor, InSession
      <4>4. CASE CompleteSetup(j)
        BY <1>1, <4>4, RestKeepsSessions DEF CompleteSetup
      <4> QED BY <2>3, <4>1, <4>2, <4>3, <4>4
    <3> QED BY <3>1, <3>2
  <2> QED BY <2>1, <2>2, <2>3
       DEF JoinerHandshake, AbandonHandshake, StoreKeyslotFails, TakeConfirm
<1> QED BY <1>1, <1>2, SponsorSessionsKept

LEMMA HangUpKeepsSessions ==
    ASSUME TypeOK, SessionInv, NEW j \in Joiner, HangUp(j),
           UNCHANGED <<sponsorVars, dialled>>
    PROVE  SessionInv'
<1> USE SessionParts
<1>1. CASE Leave(j, "idle")
  BY <1>1, LeaveKeepsSessions, SponsorSessionsKept
<1>2. CASE joiner' = [joiner EXCEPT ![j] = Idle] /\ UNCHANGED <<inbox, outbox>>
  <2>1. JoinerSessions'
    BY <1>2, RestKeepsSessions
  <2> QED BY <1>2, <2>1, InboxKept, SponsorSessionsKept
<1> QED BY <1>1, <1>2 DEF HangUp

LEMMA BreakLinkKeepsSessions ==
    ASSUME TypeOK, SessionInv, NEW j \in Joiner, BreakLink(j)
    PROVE  SessionInv'
<1> USE SessionParts
<1>1. InboxInv'
  BY DEF BreakLink, InboxInv, JoinerSessions, Dialled, TypeOK, PairingTypeOK
<1>2. SponsorSessions'
  BY DEF BreakLink, SponsorSessions, Dialled
<1> QED BY <1>1, <1>2, JoinerSessionsKept DEF BreakLink, joinerVars

(* The migration leaves the sessions alone, but for the handshake's.       *)
LEMMA MigrateKeepsPairing ==
    ASSUME NEW t \in Thread, Migrate(t)
    PROVE  UNCHANGED <<sponsorVars, wireVars, joiner, kek, keyslot, master>>
BY DEF Migrate, CreateFile, SetSwapped, SetNone, WriteFails, ListBackup, Swap,
       SwapFails, AllSwapped, Commit, CommitFails, DropRows, DropKey, NotPairing,
       joinerVars

LEMMA SwitchKeepsSessions ==
    ASSUME TypeOK, SessionInv, Switch
    PROVE  SessionInv'
<1>1. CASE Migrate("switch")
  BY <1>1, MigrateKeepsPairing, SessionKept DEF Thread, wireVars
<1>2. CASE HandshakeOver
  <2>1. JoinerSessions'
    BY <1>2, SessionParts, SwitchAssumption, RestKeepsSessions
       DEF HandshakeOver, wireVars
  <2> QED BY <1>2, <2>1, SessionParts, SponsorSessionsKept, InboxKept
       DEF HandshakeOver, wireVars
<1>3. CASE Switch /\ NotPairing
  BY <1>3, SessionKept DEF NotPairing, wireVars, joinerVars
<1> QED BY <1>1, <1>2, <1>3
     DEF Switch, ListRows, BackUp, BackedUp, UndoRows, SetPrepared,
         SetHandshakeDone, DialFails

LEMMA NextKeepsSessions ==
    ASSUME TypeOK, SessionInv, [Next]_vars
    PROVE  SessionInv'
<1>1. ASSUME PairingNext
      PROVE  SessionInv'
  <2>1. CASE (\E c \in Code : IssueInvitation(c) \/ ExpireInvitation(c))
             \/ CancelInvitations
    <3>1. UNCHANGED <<live, parked, offered, handler, dialled, inbox, joiner>>
      BY <2>1 DEF IssueInvitation, ExpireInvitation, CancelInvitations,
                  InvitationsOnly, wireVars, joinerVars
    <3> QED BY <3>1 DEF SessionInv, Dialled
  <2>2. ASSUME NEW j \in Joiner, JoinerCrash(j)
        PROVE  SessionInv'
    BY <2>2, HangUpKeepsSessions DEF JoinerCrash
  <2> QED BY <1>1, <2>1, <2>2, SponsorKeepsSessions, SponsorFaultsKeepSessions,
             DialKeepsSessions, HandshakeKeepsSessions, BreakLinkKeepsSessions
       DEF PairingNext, RedeemInvitation
<1>2. CASE \E c \in Code : JoinSpace(c)
  BY <1>2, DialKeepsSessions, SwitchAssumption DEF JoinSpace
<1>3. CASE Device
  <2>1. CASE MoverCrash
    BY <2>1, HangUpKeepsSessions, SwitchAssumption DEF MoverCrash
  <2>2. CASE Unlock \/ Lock \/ \E r \in Row : CaptureRow(r) \/ DeleteRow(r)
    BY <2>2, SessionKept DEF Unlock, Lock, CaptureRow, DeleteRow, NotPairing,
                             wireVars, joinerVars
  <2> QED BY <1>3, <2>1, <2>2 DEF Device
<1>4. CASE StartSwitch \/ ResumePending
  BY <1>4, SessionKept DEF StartSwitch, ResumePending, NotPairing, wireVars,
                           joinerVars
<1>5. CASE Migrate("resume")
  BY <1>5, MigrateKeepsPairing, SessionKept DEF Thread, wireVars
<1>6. CASE UNCHANGED vars
  BY <1>6, SessionKept DEF vars, pairingVars, wireVars, joinerVars
<1> QED BY <1>1, <1>2, <1>3, <1>4, <1>5, <1>6, SwitchKeepsSessions DEF Next

-----------------------------------------------------------------------------
(* Jobs *)

(* Where a step leaves the request that takes it.                          *)
LEMMA JobMoves ==
    ASSUME job \in Jobs, NEW t \in Thread
    PROVE  /\ GiveUp(t) => job'[t] = NoJob
           /\ \A step : GoTo(t, step) => job'[t].at = step
           /\ \A step, set :
                job' = [job EXCEPT ![t].at = step, ![t].left = set]
                    => job'[t].at = step
           /\ \A step, phased : WriteFile(t, phased, step) => job'[t].at = step
           /\ \A set : job' = [job EXCEPT ![t].left = set]
                    => job'[t].at = job[t].at
           /\ \A bit : job' = [job EXCEPT ![t].open = bit]
                    => job'[t].at = job[t].at
BY DEF Jobs, GiveUp, GoTo, WriteFile

(* ... and that it leaves the other request alone.                         *)
LEMMA OtherJob ==
    ASSUME job \in Jobs, NEW t \in Thread, NEW u \in Thread, u # t, Migrate(t)
    PROVE  job'[u] = job[u]
BY DEF Migrate, CreateFile, SetSwapped, SetNone, WriteFails, WriteFile,
       ListBackup, Swap, SwapFails, StopSwap, AllSwapped, Commit, CommitFails,
       DropRows, DropKey, Fails, GiveUp, GoTo, Jobs

(* The steps of a migration, by where they lead.                           *)
LEMMA MigrateMoves ==
    ASSUME job \in Jobs, NEW t \in Thread, Migrate(t)
    PROVE  \/ job'[t].at = job[t].at /\ job[t].at \in SetStep \cup {"swap"}
           \/ job'[t].at = "idle"
           \/ /\ job[t].at = "set swapped" /\ job'[t].at = "commit"
              /\ phase' = [step |-> "swapped", run |-> job[t].run]
           \/ job[t].at = "list backup" /\ job'[t].at = "swap"
           \/ job[t].at = "swap" /\ job'[t].at = "set swapped"
           \/ job'[t].at \in {"drop rows", "drop key", "set none"}
<1> USE JobMoves
<1>1. NoJob.at = "idle"
  BY DEF NoJob
<1>2. CASE CreateFile(t)
  BY <1>1, <1>2 DEF CreateFile, Fails
<1>3. CASE SetNone(t) \/ WriteFails(t) \/ CommitFails(t)
  BY <1>1, <1>3 DEF SetNone, WriteFails, CommitFails, Fails
<1>4. CASE SetSwapped(t)
  BY <1>4 DEF SetSwapped, JobAt, WriteFile
<1>5. CASE ListBackup(t)
  BY <1>5 DEF ListBackup, JobAt
<1>6. CASE \E rec \in Record : Swap(t, rec)
  BY <1>6 DEF Swap, JobAt
<1>7. CASE SwapFails(t) \/ AllSwapped(t)
  BY <1>1, <1>7 DEF SwapFails, AllSwapped, StopSwap, Fails, JobAt
<1>8. CASE Commit(t) \/ DropRows(t) \/ DropKey(t)
  BY <1>8 DEF Commit, DropRows, DropKey
<1> QED BY <1>2, <1>3, <1>4, <1>5, <1>6, <1>7, <1>8 DEF Migrate

(* The same for the steps that only a switch takes.                        *)
SwitchOnly ==
    \/ ListRows \/ (\E rec \in Record : BackUp(rec)) \/ BackedUp \/ UndoRows
    \/ SetPrepared \/ SetHandshakeDone \/ DialFails \/ HandshakeOver

LEMMA SwitchMoves ==
    ASSUME job \in Jobs, SwitchOnly
    PROVE  \/ job'["switch"].at
                \in {"idle", "back up", "undo rows", "set prepared",
                     "handshake", "drop rows"}
           \/ HandshakeOver /\ joiner[Mover].at = "setup" /\ job'["switch"].at = "set done"
           \/ SetHandshakeDone /\ job'["switch"].at = "list backup"
<1> "switch" \in Thread
  BY DEF Thread
<1>1. CASE BackedUp
  BY <1>1, JobMoves DEF BackedUp
<1>7. CASE UndoRows
  <2>1. job'["switch"] = NoJob
    BY <1>7, JobMoves DEF UndoRows
  <2> QED BY <2>1 DEF NoJob
<1>2. CASE \E rec \in Record : BackUp(rec)
  <2>1. PICK rec \in Record : BackUp(rec)
    BY <1>2
  <2>2. JobAt("switch", "back up")
    BY <2>1 DEF BackUp
  <2>3. \/ job' = [job EXCEPT !["switch"].left = job["switch"].left \ {rec}]
        \/ GoTo("switch", "undo rows")
    BY <2>1 DEF BackUp, Jobs, Thread
  <2> QED BY <2>2, <2>3, JobMoves DEF JobAt
<1>3. CASE SetPrepared \/ SetHandshakeDone
  BY <1>3, JobMoves DEF SetPrepared, SetHandshakeDone
<1>4. CASE DialFails
  BY <1>4, JobMoves DEF DialFails
<1>5. CASE HandshakeOver
  BY <1>5, JobMoves DEF HandshakeOver
<1>6. CASE ListRows
  BY <1>6 DEF ListRows, Jobs
<1> QED BY <1>1, <1>2, <1>3, <1>4, <1>5, <1>6, <1>7 DEF SwitchOnly

LEMMA NextKeepsRuns ==
    ASSUME TypeOK, RunInv, [Next]_vars
    PROVE  RunInv'
<1>1. job \in Jobs /\ "switch" \in Thread /\ "resume" \in Thread
  BY SwitchParts DEF TypeOK, Thread
<1>2. CASE StartSwitch
  <2>1. runs + 1 \in Run
    BY <1>2, SwitchAssumption, SwitchParts DEF StartSwitch, TypeOK, HistoryType, Run
  <2>2. job'["switch"].run = runs + 1
    BY <1>1, <1>2 DEF StartSwitch, Jobs, NoJob
  <2> QED BY <2>1, <2>2 DEF RunInv
<1>3. CASE UNCHANGED job
  BY <1>3 DEF RunInv, JobAt
<1>4. CASE Migrate("switch")
  BY <1>1, <1>4, MigrateMoves DEF RunInv, JobAt, SetStep
<1>5. CASE SwitchOnly
  BY <1>1, <1>5, SwitchMoves DEF RunInv, JobAt
<1>6. CASE Migrate("resume")
  BY <1>1, <1>6, OtherJob DEF RunInv, JobAt
<1>7. CASE ResumePending
  <2>1. job'["switch"] = job["switch"]
    BY <1>1, <1>7 DEF ResumePending, Jobs
  <2> QED BY <2>1 DEF RunInv, JobAt
<1>8. CASE MoverCrash
  <2>1. job'["switch"].at = "idle"
    BY <1>1, <1>8 DEF MoverCrash, NoJob
  <2> QED BY <2>1 DEF RunInv, JobAt
<1>9. CASE (PairingNext /\ UNCHANGED switchVars) \/ UNCHANGED vars
  BY <1>3, <1>9 DEF switchVars, vars
<1>10. CASE Unlock \/ Lock \/ (\E r \in Row : CaptureRow(r) \/ DeleteRow(r))
            \/ \E c \in Code : JoinSpace(c)
  BY <1>3, <1>10 DEF Unlock, Lock, CaptureRow, DeleteRow, JoinSpace, switchVars
<1> QED BY <1>2, <1>4, <1>5, <1>6, <1>7, <1>8, <1>9, <1>10
     DEF Next, Switch, SwitchOnly, Device

-----------------------------------------------------------------------------
LEMMA InitFacts == Init => SessionInv /\ RunInv
<1>1. Init => SessionInv
  <2>1. ASSUME Init PROVE SessionInv
    BY <2>1 DEF Init, PairingInit, SessionInv, Dialled, Idle, At, NoSession
  <2> QED BY <2>1
<1>2. Init => RunInv
  <2>1. ASSUME Init PROVE job["switch"].at = "idle"
    BY <2>1 DEF Init, SwitchInit, NoJob, Thread
  <2> QED BY <2>1 DEF RunInv, JobAt
<1> QED BY <1>1, <1>2

(***************************************************************************)
(* Every variable keeps to its type, through crashes on either side, broken *)
(* links and failing operations; in particular a session that the sponsor  *)
(* handles is one that some joiner dialled (sponsor_handshake.rs,          *)
(* joiner_handshake.rs, switch_space/mod.rs).                              *)
(***************************************************************************)
THEOREM TypeCorrect == Spec => [](TypeOK /\ SessionInv /\ RunInv)
<1>1. Init => TypeOK /\ SessionInv /\ RunInv
  BY InitType, InitFacts
<1>2. TypeOK /\ SessionInv /\ RunInv /\ [Next]_vars
        => (TypeOK /\ SessionInv /\ RunInv)'
  BY NextType, NextKeepsSessions, NextKeepsRuns
<1> QED BY <1>1, <1>2, PTL DEF Spec

-----------------------------------------------------------------------------
(* Membership *)

Both == members \cap trusted

(* The message that lets a joiner go on is sent to recorded joiners only.  *)
ConfirmInv ==
    \A s \in Session : \A i \in 1 .. Len(outbox[s]) :
        outbox[s][i] = "confirm" => s \in Dialled /\ dialled[s].by \in Both

HandlerInv ==
    /\ handler.at = "trust" => dialled[handler.session].by \in members
    /\ handler.at \in {"confirm", "send"} => dialled[handler.session].by \in Both

JoinerInv ==
    /\ \A j \in Joiner : joiner[j].at \in {"persist", "setup"} => j \in Both
    /\ \A j \in Joiner : setup[j] = Target => j \in Both

(* A migration past its handshake, in memory or on disk.                   *)
Past == {"set done", "list backup", "swap", "set swapped", "commit"}

MigrationInv ==
    /\ \A t \in Thread : job[t].at \in Past => Mover \in Both
    /\ phase.step \in {"handshake_done", "swapped"} => Mover \in Both

MemberInv == ConfirmInv /\ HandlerInv /\ JoinerInv /\ MigrationInv

(* Nobody is dropped from the sponsor's lists.                             *)
LEMMA ListMoves ==
    ASSUME [Next]_vars
    PROVE  AdmitMember \/ TrustPeer \/ UNCHANGED <<members, trusted>>
<1>1. ASSUME PairingNext
      PROVE  AdmitMember \/ TrustPeer \/ UNCHANGED <<members, trusted>>
  BY <1>1
     DEF PairingNext, IssueInvitation, ExpireInvitation, CancelInvitations,
         InvitationsOnly, SponsorLoop, SponsorFinalises, SponsorHandles,
         AcceptRequest, OfferFails, RefuseRequest, VerifyResponse, VerifyFails,
         HandleSessionClosed, RecordFails, TakeParked, SendConfirm, FireTimeout,
         SponsorCrash, RedeemInvitation, Dial, JoinerHandshake,
         AbandonHandshake, TakeOffer, StoreKek, StoreKeyslot,
         StoreKeyslotFails, TakeConfirm, PersistSponsor, CompleteSetup,
         JoinerCrash, BreakLink, sponsorVars
<1>2. ASSUME Next, ~ PairingNext
      PROVE  UNCHANGED <<members, trusted>>
  <2>1. ASSUME NEW t \in Thread, Migrate(t)
        PROVE  UNCHANGED <<members, trusted>>
    BY <2>1, MigrateKeepsPairing DEF sponsorVars
  <2>2. ASSUME NEW c \in Code, JoinSpace(c)
        PROVE  UNCHANGED <<members, trusted>>
    BY <2>2 DEF JoinSpace, Dial
  <2>3. CASE SwitchOnly
    BY <2>3 DEF SwitchOnly, ListRows, BackUp, BackedUp, UndoRows, SetPrepared,
                SetHandshakeDone, DialFails, HandshakeOver, NotPairing,
                sponsorVars
  <2>4. CASE StartSwitch \/ ResumePending \/ Device
    BY <2>4 DEF StartSwitch, ResumePending, Device, Unlock, Lock, MoverCrash,
                CaptureRow, DeleteRow, NotPairing, sponsorVars
  <2> QED BY <1>2, <2>1, <2>2, <2>3, <2>4 DEF Next, Switch, SwitchOnly, Thread
<1> QED BY <1>1, <1>2 DEF vars, pairingVars, sponsorVars

LEMMA ListsGrow ==
    ASSUME [Next]_vars
    PROVE  members \subseteq members' /\ trusted \subseteq trusted'
BY ListMoves DEF AdmitMember, TrustPeer

(* Nor is a session forgotten.                                             *)
LEMMA SessionsGrow ==
    ASSUME TypeOK, [Next]_vars
    PROVE  /\ Dialled \subseteq Dialled'
           /\ \A s \in Dialled : dialled'[s] = dialled[s]
<1>1. CASE UNCHANGED dialled
  BY <1>1 DEF Dialled
<1>2. ASSUME NEW j \in Joiner, NEW c \in Code, Dial(j, c)
      PROVE  /\ Dialled \subseteq Dialled'
             /\ \A s \in Dialled : dialled'[s] = dialled[s]
  <2>1. dialled \in Seq([by : Joiner, code : Code])
    BY DEF TypeOK, PairingTypeOK
  <2>2. [by |-> j, code |-> c] \in [by : Joiner, code : Code]
    OBVIOUS
  <2>3. Dialled = 1 .. Len(dialled) /\ Dialled' = 1 .. Len(dialled')
    BY <1>2, <2>1, <2>2, AppendProperties, LenProperties DEF Dial, Dialled
  <2> QED BY <1>2, <2>1, <2>2, <2>3, AppendProperties, LenProperties DEF Dial
<1>3. ASSUME PairingNext
      PROVE  UNCHANGED dialled \/ \E j \in Joiner, c \in Code : Dial(j, c)
  BY <1>3
     DEF PairingNext, IssueInvitation, ExpireInvitation, CancelInvitations,
         InvitationsOnly, SponsorLoop, SponsorFinalises, SponsorHandles,
         AcceptRequest, OfferFails, RefuseRequest, VerifyResponse, VerifyFails,
         HandleSessionClosed, AdmitMember, TrustPeer, RecordFails, TakeParked,
         SendConfirm, FireTimeout, SponsorCrash, RedeemInvitation,
         JoinerHandshake, AbandonHandshake, TakeOffer, StoreKek, StoreKeyslot,
         StoreKeyslotFails, TakeConfirm, PersistSponsor, CompleteSetup,
         JoinerCrash, BreakLink, wireVars
<1>4. ASSUME Next, ~ PairingNext
      PROVE  UNCHANGED dialled \/ \E j \in Joiner, c \in Code : Dial(j, c)
  <2>1. ASSUME NEW t \in Thread, Migrate(t)
        PROVE  UNCHANGED dialled
    BY <2>1, MigrateKeepsPairing DEF wireVars
  <2>2. ASSUME NEW c \in Code, JoinSpace(c)
        PROVE  \E j \in Joiner, d \in Code : Dial(j, d)
    BY <2>2, SwitchAssumption DEF JoinSpace
  <2>3. CASE SwitchOnly
    BY <2>3 DEF SwitchOnly, ListRows, BackUp, BackedUp, UndoRows, SetPrepared,
                SetHandshakeDone, DialFails, HandshakeOver, NotPairing, wireVars
  <2>4. CASE StartSwitch \/ ResumePending \/ Device
    BY <2>4 DEF StartSwitch, ResumePending, Device, Unlock, Lock, MoverCrash,
                CaptureRow, DeleteRow, NotPairing, wireVars
  <2> QED BY <1>4, <2>1, <2>2, <2>3, <2>4 DEF Next, Switch, SwitchOnly, Thread
<1>5. CASE UNCHANGED vars
  BY <1>1, <1>5 DEF vars, pairingVars, wireVars
<1> QED BY <1>1, <1>2, <1>3, <1>4, <1>5

(***************************************************************************)
(* A frame "confirm" is either there already or sent by SendConfirm.       *)
(***************************************************************************)
Confirms(s) == \E i \in 1 .. Len(outbox[s]) : outbox[s][i] = "confirm"

LEMMA ConfirmParts ==
    /\ ConfirmInv <=> \A s \in Session :
          Confirms(s) => s \in Dialled /\ dialled[s].by \in Both
    /\ ConfirmInv' <=> \A s \in Session :
          Confirms(s)' => s \in Dialled' /\ dialled'[s].by \in Both'
BY DEF ConfirmInv, Confirms

LEMMA PutConfirms ==
    ASSUME TypeOK, NEW s \in Session, NEW frame \in ToJoiner,
           outbox' = Put(outbox, s, frame), NEW x \in Session, Confirms(x)'
    PROVE  Confirms(x) \/ (x = s /\ frame = "confirm")
<1>1. outbox \in [Session -> Seq(ToJoiner)]
  BY DEF TypeOK, PairingTypeOK
<1>2. CASE x = s
  <2>1. outbox'[x] = Append(outbox[x], frame)
    BY <1>1, <1>2 DEF Put
  <2>2. outbox[x] \in Seq(ToJoiner)
    BY <1>1
  <2>3. PICK i \in 1 .. Len(outbox'[x]) : outbox'[x][i] = "confirm"
    BY DEF Confirms
  <2> QED BY <1>2, <2>1, <2>2, <2>3, AppendProperties, LenProperties DEF Confirms
<1>3. CASE x # s
  BY <1>1, <1>3 DEF Put, Confirms
<1> QED BY <1>2, <1>3

LEMMA PopConfirms ==
    ASSUME TypeOK, NEW s, s \in Session, outbox[s] # <<>>,
           outbox' = Pop(outbox, s), NEW x \in Session, Confirms(x)'
    PROVE  Confirms(x)
<1>1. outbox \in [Session -> Seq(ToJoiner)]
  BY DEF TypeOK, PairingTypeOK
<1>2. CASE x = s
  <2>1. outbox'[x] = Tail(outbox[x]) /\ outbox[x] \in Seq(ToJoiner)
    BY <1>1, <1>2 DEF Pop
  <2>2. PICK i \in 1 .. Len(outbox'[x]) : outbox'[x][i] = "confirm"
    BY DEF Confirms
  <2>3. Len(outbox'[x]) = Len(outbox[x]) - 1 /\ outbox'[x][i] = outbox[x][i + 1]
        /\ Len(outbox[x]) \in Nat
    BY <1>2, <2>1, <2>2, HeadTailProperties, LenProperties
  <2> QED BY <2>2, <2>3 DEF Confirms
<1>3. CASE x # s
  BY <1>1, <1>3 DEF Pop, Confirms
<1> QED BY <1>2, <1>3

LEMMA LeaveConfirms ==
    ASSUME TypeOK, NEW j \in Joiner, NEW step, Leave(j, step),
           NEW x \in Session, Confirms(x)'
    PROVE  Confirms(x)
<1>1. outbox \in [Session -> Seq(ToJoiner)]
  BY DEF TypeOK, PairingTypeOK
<1>2. outbox'[x] \in {outbox[x], <<>>}
  BY <1>1 DEF Leave
<1>3. Len(<<>>) = 0
  BY EmptySeq
<1> QED BY <1>2, <1>3 DEF Confirms

Sent(s) == SendConfirm /\ s = handler.session

LEMMA ConfirmSent ==
    ASSUME TypeOK, SessionInv, [Next]_vars, NEW x \in Session, Confirms(x)'
    PROVE  Confirms(x) \/ Sent(x)
<1>1. ASSUME UNCHANGED outbox
      PROVE  Confirms(x)
  BY <1>1 DEF Confirms
<1>2. ASSUME NEW s \in Session, AcceptRequest(s), ~ UNCHANGED outbox
      PROVE  Confirms(x)
  BY <1>2, PutConfirms DEF AcceptRequest, ToJoiner
<1>3. CASE SendConfirm /\ ~ UNCHANGED outbox
  <2>1. outbox' = Put(outbox, handler.session, "confirm")
    BY <1>3 DEF SendConfirm
  <2>2. CASE handler.session \in Session
    BY <1>3, <2>1, <2>2, PutConfirms DEF Sent, ToJoiner
  <2>3. CASE handler.session \notin Session
    BY <2>1, <2>3 DEF Put, Confirms, TypeOK, PairingTypeOK
  <2> QED BY <2>2, <2>3
<1>4. ASSUME NEW j \in Joiner, NEW step, Leave(j, step)
      PROVE  Confirms(x)
  BY <1>4, LeaveConfirms
<1>5. ASSUME NEW j \in Joiner, TakeOffer(j)
      PROVE  Confirms(x)
  <2>1. joiner[j].session \in Session
    BY <1>5 DEF TakeOffer, SessionInv, TypeOK, PairingTypeOK
  <2> QED BY <1>5, <2>1, PopConfirms DEF TakeOffer, Arrived
<1>6. ASSUME NEW j \in Joiner, BreakLink(j)
      PROVE  Confirms(x)
  <2>1. outbox'[x] \in {outbox[x], <<>>}
    BY <1>6 DEF BreakLink, TypeOK, PairingTypeOK
  <2> QED BY <2>1, EmptySeq DEF Confirms
<1>7. ASSUME PairingNext
      PROVE  Confirms(x) \/ Sent(x)
  <2>1. CASE SponsorLoop
    BY <1>1, <1>2, <1>3, <2>1
       DEF SponsorLoop, SponsorFinalises, SponsorHandles, OfferFails,
           RefuseRequest, VerifyResponse, VerifyFails, HandleSessionClosed,
           AdmitMember, TrustPeer, RecordFails, TakeParked, wireVars, Sent
  <2>2. ASSUME NEW j \in Joiner, JoinerHandshake(j) \/ JoinerCrash(j)
        PROVE  Confirms(x)
    BY <1>1, <1>4, <1>5, <2>2
       DEF JoinerHandshake, AbandonHandshake, StoreKek, StoreKeyslot,
           StoreKeyslotFails, TakeConfirm, PersistSponsor, CompleteSetup,
           JoinerCrash, HangUp, wireVars
  <2> QED BY <1>1, <1>6, <1>7, <2>1, <2>2
       DEF PairingNext, IssueInvitation, ExpireInvitation, CancelInvitations,
           InvitationsOnly, FireTimeout, SponsorCrash, RedeemInvitation, Dial,
           wireVars
<1>8. ASSUME Next, ~ PairingNext
      PROVE  Confirms(x)
  <2>1. ASSUME NEW t \in Thread, Migrate(t)
        PROVE  Confirms(x)
    BY <1>1, <2>1, MigrateKeepsPairing DEF wireVars
  <2>2. CASE \E c \in Code : JoinSpace(c)
    BY <1>1, <2>2 DEF JoinSpace, Dial
  <2>3. CASE SwitchOnly
    BY <1>1, <2>3 DEF SwitchOnly, ListRows, BackUp, BackedUp, UndoRows,
         SetPrepared, SetHandshakeDone, DialFails, HandshakeOver, NotPairing,
         wireVars
  <2>4. CASE StartSwitch \/ ResumePending \/ Device
    BY <1>1, <1>4, <2>4, SwitchAssumption
       DEF StartSwitch, ResumePending, Device, Unlock, Lock, MoverCrash, HangUp,
           CaptureRow, DeleteRow, NotPairing, wireVars
  <2> QED BY <1>8, <2>1, <2>2, <2>3, <2>4 DEF Next, Switch, SwitchOnly, Thread
<1>9. CASE UNCHANGED vars
  BY <1>1, <1>9 DEF vars, pairingVars, wireVars
<1> QED BY <1>7, <1>8, <1>9

(***************************************************************************)
(* The event loop moves on only by recording the joiner, one list at a     *)
(* time, and taking its context.                                           *)
(***************************************************************************)
LEMMA HandlerMoves ==
    ASSUME [Next]_vars
    PROVE  \/ UNCHANGED handler \/ handler'.at \in {"idle", "admit"}
           \/ AdmitMember \/ TrustPeer \/ TakeParked
<1>1. ASSUME PairingNext, ~ UNCHANGED handler
      PROVE  handler'.at \in {"idle", "admit"}
             \/ AdmitMember \/ TrustPeer \/ TakeParked
  <2>1. CASE \E s \in Session : VerifyResponse(s)
    BY <1>1, <2>1 DEF VerifyResponse, At
  <2>2. CASE RecordFails \/ SendConfirm \/ SponsorCrash
    BY <2>2 DEF RecordFails, SendConfirm, SponsorCrash, Idle, At
  <2> QED BY <1>1, <2>1, <2>2
       DEF PairingNext, IssueInvitation, ExpireInvitation, CancelInvitations,
           InvitationsOnly, SponsorLoop, SponsorFinalises, SponsorHandles,
           AcceptRequest, OfferFails, RefuseRequest, VerifyFails,
           HandleSessionClosed, FireTimeout, RedeemInvitation, Dial,
           JoinerHandshake, AbandonHandshake, TakeOffer, StoreKek,
           StoreKeyslot, StoreKeyslotFails, TakeConfirm, PersistSponsor,
           CompleteSetup, JoinerCrash, BreakLink, sponsorVars
<1>2. ASSUME Next, ~ PairingNext
      PROVE  UNCHANGED handler
  <2>1. ASSUME NEW t \in Thread, Migrate(t)
        PROVE  UNCHANGED handler
    BY <2>1, MigrateKeepsPairing DEF sponsorVars
  <2>2. CASE \E c \in Code : JoinSpace(c)
    BY <2>2 DEF JoinSpace, Dial
  <2>3. CASE SwitchOnly
    BY <2>3 DEF SwitchOnly, ListRows, BackUp, BackedUp, UndoRows, SetPrepared,
                SetHandshakeDone, DialFails, HandshakeOver, NotPairing,
                sponsorVars
  <2>4. CASE StartSwitch \/ ResumePending \/ Device
    BY <2>4 DEF StartSwitch, ResumePending, Device, Unlock, Lock, MoverCrash,
                CaptureRow, DeleteRow, NotPairing, sponsorVars
  <2> QED BY <1>2, <2>1, <2>2, <2>3, <2>4 DEF Next, Switch, SwitchOnly, Thread
<1> QED BY <1>1, <1>2 DEF vars, pairingVars, sponsorVars

LEMMA HandlerStepKeeps ==
    ASSUME TypeOK, SessionInv, HandlerInv, [Next]_vars
    PROVE  HandlerInv'
<1>1. handler.at # "idle" => handler.session \in Dialled
  BY DEF SessionInv, Idle, At
<1>2. /\ members \subseteq members' /\ trusted \subseteq trusted'
      /\ Dialled \subseteq Dialled' /\ \A s \in Dialled : dialled'[s] = dialled[s]
  BY ListsGrow, SessionsGrow
<1>3. CASE UNCHANGED handler
  BY <1>1, <1>2, <1>3 DEF HandlerInv, Both
<1>4. CASE handler'.at \in {"idle", "admit"}
  BY <1>4 DEF HandlerInv
<1>5. CASE AdmitMember
  BY <1>1, <1>2, <1>5 DEF AdmitMember, HandlerInv, At
<1>6. CASE TrustPeer
  BY <1>1, <1>2, <1>6 DEF TrustPeer, HandlerInv, At, Both
<1>7. CASE TakeParked
  BY <1>1, <1>2, <1>7 DEF TakeParked, HandlerInv, At, Idle, Both
<1> QED BY <1>3, <1>4, <1>5, <1>6, <1>7, HandlerMoves

LEMMA ConfirmStepKeeps ==
    ASSUME TypeOK, SessionInv, HandlerInv, ConfirmInv, [Next]_vars
    PROVE  ConfirmInv'
<1>1. /\ members \subseteq members' /\ trusted \subseteq trusted'
      /\ Dialled \subseteq Dialled' /\ \A s \in Dialled : dialled'[s] = dialled[s]
  BY ListsGrow, SessionsGrow
<1>2. ASSUME NEW s \in Session, Confirms(s)'
      PROVE  s \in Dialled' /\ dialled'[s].by \in Both'
  <2>1. CASE Confirms(s)
    BY <1>1, <2>1, ConfirmParts DEF Both
  <2>2. CASE Sent(s)
    BY <1>1, <2>2 DEF Sent, SendConfirm, SessionInv, HandlerInv, Idle, At, Both
  <2> QED BY <1>2, <2>1, <2>2, ConfirmSent
<1> QED BY <1>2, ConfirmParts

(***************************************************************************)
(* A joiner gets past the verdict only by taking a confirmation.           *)
(***************************************************************************)
LEMMA JoinerMoves ==
    ASSUME TypeOK, [Next]_vars, NEW j \in Joiner
    PROVE  /\ \/ joiner'[j] = joiner[j]
              \/ joiner'[j].at \notin {"persist", "setup"}
              \/ TakeConfirm(j)
              \/ joiner[j].at = "persist"
           /\ \/ setup'[j] = setup[j]
              \/ joiner[j].at = "setup"
              \/ j = Mover /\ \E t \in Thread : job[t].at = "commit"
<1> DEFINE Goal == /\ \/ joiner'[j] = joiner[j]
                      \/ joiner'[j].at \notin {"persist", "setup"}
                      \/ TakeConfirm(j)
                      \/ joiner[j].at = "persist"
                   /\ \/ setup'[j] = setup[j]
                      \/ joiner[j].at = "setup"
                      \/ j = Mover /\ \E t \in Thread : job[t].at = "commit"
<1> USE DEF TypeOK, PairingTypeOK
<1>1. ASSUME UNCHANGED <<joiner, setup>>
      PROVE  Goal
  BY <1>1
<1>2. ASSUME NEW i \in Joiner, NEW step \in {"failed", "idle"},
             Leave(i, step), UNCHANGED setup
      PROVE  Goal
  BY <1>2 DEF Leave, At
<1>3. ASSUME NEW i \in Joiner, JoinerHandshake(i)
      PROVE  Goal
  <2>1. CASE AbandonHandshake(i) \/ StoreKeyslotFails(i)
    BY <1>2, <2>1 DEF AbandonHandshake, StoreKeyslotFails
  <2>2. CASE TakeOffer(i) \/ StoreKek(i) \/ StoreKeyslot(i)
    BY <2>2 DEF TakeOffer, StoreKek, StoreKeyslot
  <2>3. CASE TakeConfirm(i)
    <3>1. i # j => joiner'[j] = joiner[j]
      BY <2>3 DEF TakeConfirm, Leave
    <3>2. UNCHANGED setup
      BY <2>3 DEF TakeConfirm
    <3> QED BY <2>3, <3>1, <3>2
  <2>4. CASE PersistSponsor(i)
    BY <2>4 DEF PersistSponsor
  <2>5. CASE CompleteSetup(i)
    BY <2>5 DEF CompleteSetup, Idle, At
  <2> QED BY <1>3, <2>1, <2>2, <2>3, <2>4, <2>5 DEF JoinerHandshake
<1>4. ASSUME NEW i \in Joiner, HangUp(i), UNCHANGED setup
      PROVE  Goal
  BY <1>2, <1>4 DEF HangUp, Idle, At
<1>5. ASSUME NEW i \in Joiner, NEW c \in Code, Dial(i, c)
      PROVE  Goal
  BY <1>5 DEF Dial, At
<1>6. CASE PairingNext
  BY <1>1, <1>3, <1>4, <1>5, <1>6
     DEF PairingNext, IssueInvitation, ExpireInvitation, CancelInvitations,
         InvitationsOnly, SponsorLoop, SponsorFinalises, SponsorHandles,
         AcceptRequest, OfferFails, RefuseRequest, VerifyResponse, VerifyFails,
         HandleSessionClosed, AdmitMember, TrustPeer, RecordFails, TakeParked,
         SendConfirm, FireTimeout, SponsorCrash, RedeemInvitation,
         JoinerCrash, BreakLink, joinerVars
<1>7. ASSUME NEW t \in Thread, Migrate(t)
      PROVE  Goal
  <2>1. CASE Commit(t)
    BY <2>1 DEF Commit, JobAt
  <2>2. CASE ~ Commit(t)
    <3>1. UNCHANGED <<joiner, setup>>
      BY <1>7, <2>2
         DEF Migrate, CreateFile, SetSwapped, SetNone, WriteFails, ListBackup,
             Swap, SwapFails, AllSwapped, CommitFails, DropRows, DropKey,
             NotPairing, joinerVars
    <3> QED BY <1>1, <3>1
  <2> QED BY <2>1, <2>2
<1>8. CASE SwitchOnly
  <2>1. CASE HandshakeOver
    BY <2>1 DEF HandshakeOver, Idle, At
  <2> QED BY <1>1, <1>8, <2>1
       DEF SwitchOnly, ListRows, BackUp, BackedUp, UndoRows, SetPrepared,
           SetHandshakeDone, DialFails, NotPairing, joinerVars
<1>9. CASE MoverCrash \/ \E c \in Code : JoinSpace(c)
  BY <1>4, <1>5, <1>9, SwitchAssumption DEF MoverCrash, JoinSpace
<1>10. CASE StartSwitch \/ ResumePending \/ (Device /\ ~ MoverCrash)
            \/ UNCHANGED vars
  BY <1>1, <1>10 DEF StartSwitch, ResumePending, Device, Unlock, Lock,
                     CaptureRow, DeleteRow, NotPairing, joinerVars, vars,
                     pairingVars
<1> QED BY <1>6, <1>7, <1>8, <1>9, <1>10 DEF Next, Switch, SwitchOnly, Thread

LEMMA JoinerStepKeeps ==
    ASSUME TypeOK, SessionInv, ConfirmInv, JoinerInv, MigrationInv, [Next]_vars
    PROVE  JoinerInv'
<1>1. Both \subseteq Both'
  BY ListsGrow DEF Both
<1>2. ASSUME NEW j \in Joiner, TakeConfirm(j)
      PROVE  j \in Both
  <2> DEFINE s == joiner[j].session
  <2>1. /\ s \in Session /\ dialled[s].by = j
        /\ outbox[s] # <<>> /\ Head(outbox[s]) = "confirm"
    BY <1>2 DEF TakeConfirm, Arrived, SessionInv, TypeOK, PairingTypeOK
  <2>2. Confirms(s)
    <3>1. outbox[s] \in Seq(ToJoiner)
      BY <2>1 DEF TypeOK, PairingTypeOK
    <3>2. Len(outbox[s]) \in Nat \ {0} /\ outbox[s][1] = Head(outbox[s])
      BY <2>1, <3>1, EmptySeq
    <3> QED BY <2>1, <3>2 DEF Confirms
  <2> QED BY <2>1, <2>2, ConfirmParts
<1>3. ASSUME NEW j \in Joiner, joiner'[j].at \in {"persist", "setup"}
      PROVE  j \in Both'
  BY <1>1, <1>2, <1>3, JoinerMoves DEF JoinerInv
<1>4. ASSUME NEW j \in Joiner, setup'[j] = Target
      PROVE  j \in Both'
  BY <1>1, <1>4, JoinerMoves DEF JoinerInv, MigrationInv, Past
<1> QED BY <1>3, <1>4 DEF JoinerInv

(* Which requests are past the handshake, and what the disk says of it.    *)
LEMMA MigrationStepKeeps ==
    ASSUME TypeOK, JoinerInv, MigrationInv, [Next]_vars
    PROVE  MigrationInv'
<1>1. Both \subseteq Both'
  BY ListsGrow DEF Both
<1>2. job \in Jobs /\ "switch" \in Thread /\ "resume" \in Thread
  BY SwitchParts DEF TypeOK, Thread
<1> DEFINE JobFits(t) == job'[t].at \in Past => Mover \in Both
<1> DEFINE PhaseFits == phase'.step \in {"handshake_done", "swapped"} => Mover \in Both
<1> SUFFICES (\A t \in Thread : JobFits(t)) /\ PhaseFits
  BY <1>1 DEF MigrationInv
<1>3. ASSUME NEW t \in Thread, Migrate(t)
      PROVE  (\A u \in Thread : JobFits(u)) /\ PhaseFits
  <2>1. JobFits(t)
    BY <1>2, <1>3, MigrateMoves DEF MigrationInv, Past, SetStep
  <2>2. \A u \in Thread \ {t} : JobFits(u)
    BY <1>2, <1>3, OtherJob DEF MigrationInv
  <2>3. PhaseFits
    <3>1. CASE SetSwapped(t)
      BY <3>1 DEF SetSwapped, JobAt, MigrationInv, Past
    <3>2. CASE CreateFile(t)
      BY <3>2 DEF CreateFile, Fails, NoPhase, MigrationInv
    <3>3. CASE UNCHANGED phase
      BY <3>3 DEF MigrationInv
    <3> QED BY <1>3, <3>1, <3>2, <3>3
         DEF Migrate, SetNone, WriteFails, ListBackup, Swap, SwapFails,
             AllSwapped, StopSwap, Commit, CommitFails, DropRows, DropKey, Fails
  <2> QED BY <2>1, <2>2, <2>3
<1>4. ASSUME SwitchOnly
      PROVE  (\A u \in Thread : JobFits(u)) /\ PhaseFits
  <2>1. JobFits("switch")
    <3>1. CASE HandshakeOver /\ joiner[Mover].at = "setup"
      BY <3>1, SwitchAssumption DEF JoinerInv
    <3>2. CASE SetHandshakeDone
      BY <1>2, <3>2 DEF SetHandshakeDone, JobAt, MigrationInv, Past
    <3> QED BY <1>2, <1>4, <3>1, <3>2, SwitchMoves DEF Past
  <2>2. job'["resume"] = job["resume"]
    BY <1>2, <1>4
       DEF SwitchOnly, ListRows, BackUp, BackedUp, UndoRows, SetPrepared,
           SetHandshakeDone, DialFails, HandshakeOver, WriteFile, GoTo, GiveUp,
           Jobs
  <2>3. JobFits("resume")
    BY <1>2, <2>2 DEF MigrationInv
  <2>4. PhaseFits
    <3>1. CASE SetPrepared
      BY <3>1 DEF SetPrepared, WriteFile
    <3>2. CASE SetHandshakeDone
      BY <1>2, <3>2 DEF SetHandshakeDone, JobAt, MigrationInv, Past
    <3>3. CASE UNCHANGED phase
      BY <3>3 DEF MigrationInv
    <3> QED BY <1>4, <3>1, <3>2, <3>3
         DEF SwitchOnly, ListRows, BackUp, BackedUp, UndoRows, DialFails,
             HandshakeOver, historyVars
  <2> QED BY <2>1, <2>3, <2>4 DEF Thread
<1>5. CASE ResumePending
  <2>1. PhaseFits
    BY <1>5 DEF ResumePending, MigrationInv
  <2>2. job'["switch"] = job["switch"]
    BY <1>2, <1>5 DEF ResumePending, Jobs
  <2>3. job'["resume"].at = ResumeAt[phase.step]
    BY <1>2, <1>5 DEF ResumePending, NoJob, Jobs
  <2>4. /\ ResumeAt["prepared"] = "drop rows"
        /\ phase.step \in {"prepared", "handshake_done", "swapped"}
    BY <1>5 DEF ResumePending, ResumeAt, InterruptedSteps
  <2> QED BY <1>2, <2>1, <2>2, <2>3, <2>4 DEF MigrationInv, Past, Thread
<1>6. CASE StartSwitch
  <2>1. job'["switch"].at = "list rows" /\ job'["resume"] = job["resume"]
    BY <1>2, <1>6 DEF StartSwitch, NoJob, Jobs
  <2> QED BY <1>2, <1>6, <2>1 DEF StartSwitch, MigrationInv, Past, Thread
<1>7. CASE MoverCrash
  <2>1. \A t \in Thread : job'[t].at = "idle"
    BY <1>7 DEF MoverCrash, NoJob
  <2> QED BY <1>7, <2>1 DEF MoverCrash, MigrationInv, Past
<1>8. CASE UNCHANGED <<phase, job>>
  BY <1>8 DEF MigrationInv
<1> HIDE DEF JobFits, PhaseFits
<1> QED BY <1>3, <1>4, <1>5, <1>6, <1>7, <1>8
     DEF Next, Switch, SwitchOnly, Thread, Device, Unlock, Lock, CaptureRow,
         DeleteRow, JoinSpace, switchVars, vars

LEMMA InitMember == Init => MemberInv
<1> SUFFICES ASSUME Init PROVE MemberInv
  OBVIOUS
<1>1. ConfirmInv
  BY EmptySeq DEF Init, PairingInit, ConfirmInv
<1>2. HandlerInv
  BY DEF Init, PairingInit, HandlerInv, Idle, At
<1>3. JoinerInv
  BY DEF Init, PairingInit, JoinerInv, Idle, At, HomeKeys, Home, Target, NoKey
<1>4. MigrationInv
  BY DEF Init, SwitchInit, MigrationInv, NoJob, NoPhase, Past
<1> QED BY <1>1, <1>2, <1>3, <1>4 DEF MemberInv

LEMMA Members == Spec => []MemberInv
<1>1. TypeOK /\ SessionInv /\ MemberInv /\ [Next]_vars => MemberInv'
  BY HandlerStepKeeps, ConfirmStepKeeps, JoinerStepKeeps, MigrationStepKeeps
     DEF MemberInv
<1> QED BY <1>1, InitMember, TypeCorrect, PTL DEF Spec

-----------------------------------------------------------------------------
(* The refinement *)

Joined == {j \in Joiner : setup[j] = Target}

LEMMA SetupMoves ==
    ASSUME [Next]_vars
    PROVE  \/ UNCHANGED setup \/ \E j \in Joiner : CompleteSetup(j)
           \/ \E t \in Thread : Commit(t)
<1>1. CASE PairingNext
  BY <1>1
     DEF PairingNext, IssueInvitation, ExpireInvitation, CancelInvitations,
         InvitationsOnly, SponsorLoop, SponsorFinalises, SponsorHandles,
         AcceptRequest, OfferFails, RefuseRequest, VerifyResponse, VerifyFails,
         HandleSessionClosed, AdmitMember, TrustPeer, RecordFails, TakeParked,
         SendConfirm, FireTimeout, SponsorCrash, RedeemInvitation, Dial,
         JoinerHandshake, AbandonHandshake, TakeOffer, StoreKek, StoreKeyslot,
         StoreKeyslotFails, TakeConfirm, PersistSponsor, JoinerCrash,
         BreakLink, joinerVars
<1>2. ASSUME NEW t \in Thread, Migrate(t)
      PROVE  UNCHANGED setup \/ Commit(t)
  BY <1>2 DEF Migrate, CreateFile, SetSwapped, SetNone, WriteFails, ListBackup,
              Swap, SwapFails, AllSwapped, CommitFails, DropRows, DropKey,
              NotPairing, joinerVars
<1>3. CASE SwitchOnly
  BY <1>3 DEF SwitchOnly, ListRows, BackUp, BackedUp, UndoRows, SetPrepared,
              SetHandshakeDone, DialFails, HandshakeOver, NotPairing, joinerVars
<1>4. CASE StartSwitch \/ ResumePending \/ Device \/ \E c \in Code : JoinSpace(c)
  BY <1>4 DEF StartSwitch, ResumePending, Device, Unlock, Lock, MoverCrash,
              CaptureRow, DeleteRow, JoinSpace, Dial, NotPairing, joinerVars
<1>5. CASE UNCHANGED vars
  BY <1>5 DEF vars, pairingVars, joinerVars
<1> QED BY <1>1, <1>2, <1>3, <1>4, <1>5 DEF Next, Switch, SwitchOnly, Thread

LEMMA JoinStep ==
    ASSUME TypeOK, MemberInv, [Next]_vars, UNCHANGED <<members, trusted>>
    PROVE  [Promise!MembershipNext]_<<members, trusted, Joined>>
<1>1. ASSUME NEW j \in Joiner, \A i \in Joiner \ {j} : setup'[i] = setup[i],
             setup'[j] \in {setup[j], Target}, j \in Both
      PROVE  Promise!Join(j) \/ UNCHANGED Joined
  <2>1. CASE setup'[j] = Target
    BY <1>1, <2>1 DEF Promise!Join, Joined, Both
  <2>2. CASE setup'[j] = setup[j]
    BY <1>1, <2>2 DEF Joined
  <2> QED BY <1>1, <2>1, <2>2
<1>2. CASE UNCHANGED setup
  BY <1>2 DEF Joined
<1>3. ASSUME NEW j \in Joiner, CompleteSetup(j)
      PROVE  Promise!Join(j) \/ UNCHANGED Joined
  BY <1>1, <1>3 DEF CompleteSetup, MemberInv, JoinerInv, TypeOK, PairingTypeOK
<1>4. ASSUME NEW t \in Thread, Commit(t)
      PROVE  Promise!Join(Mover) \/ UNCHANGED Joined
  BY <1>1, <1>4, SwitchAssumption
     DEF Commit, JobAt, MemberInv, MigrationInv, Past, TypeOK, PairingTypeOK
<1>5. \/ UNCHANGED setup \/ \E j \in Joiner : CompleteSetup(j)
      \/ \E t \in Thread : Commit(t)
  BY SetupMoves
<1> QED BY <1>2, <1>3, <1>4, <1>5, SwitchAssumption DEF Promise!MembershipNext

LEMMA RecordStep ==
    ASSUME TypeOK, SessionInv, MemberInv, AdmitMember \/ TrustPeer
    PROVE  Promise!MembershipNext
<1> DEFINE j == dialled[handler.session].by
<1>1. handler.session \in Dialled /\ j \in Joiner
  BY DialledBy, PairingParts DEF AdmitMember, TrustPeer, SessionInv, Idle, At, TypeOK
<1>2. UNCHANGED Joined
  BY DEF AdmitMember, TrustPeer, Joined, joinerVars
<1>3. CASE AdmitMember
  BY <1>1, <1>2, <1>3
     DEF AdmitMember, Promise!MembershipNext, Promise!Admit, Joined
<1>4. CASE TrustPeer
  <2>1. j \in members
    BY <1>4 DEF TrustPeer, MemberInv, HandlerInv
  <2> QED BY <1>1, <1>2, <1>4, <2>1
       DEF TrustPeer, Promise!MembershipNext, Promise!Trust, Joined
<1> QED BY <1>3, <1>4

(***************************************************************************)
(* Pairing and migration implement Membership: whatever crashes, breaks or *)
(* times out, a device - the one that migrates over a restart included -   *)
(* names the sponsor's space its own only when the sponsor has recorded it *)
(* as a member and a trusted peer (orchestrator.rs finalise_verified,      *)
(* redeem_invitation.rs persist, switch_space/mod.rs phase_4).             *)
(***************************************************************************)
THEOREM MembershipImplemented == Spec => ImplementsMembership
<1>1. Init => Promise!MembershipInit
  BY DEF Init, PairingInit, Promise!MembershipInit, HomeKeys, Home, Target, NoKey
<1>2. TypeOK /\ SessionInv /\ MemberInv /\ [Next]_vars
        => [Promise!MembershipNext]_<<members, trusted, Joined>>
  BY RecordStep, JoinStep, ListMoves
<1> QED BY <1>1, <1>2, TypeCorrect, Members, PTL
     DEF Spec, ImplementsMembership, Promise!MembershipSpec,
         Promise!membershipVars, Joined

-----------------------------------------------------------------------------
(* Invitations *)

(* Whoever was sent a keyslot has used the invitation up.                  *)
InvitationInv ==
    /\ \A s \in offered : invitation[dialled[s].code] = "gone"
    /\ InvitationServesOne

LEMMA InvitationMoves ==
    ASSUME TypeOK, SessionInv, [Next]_vars
    PROVE  /\ \A c \in Code : invitation[c] = "gone" => invitation'[c] = "gone"
           /\ \/ UNCHANGED offered
              \/ \E s \in Session : AcceptRequest(s) /\ offered' = offered \cup {s}
<1> USE DEF TypeOK, PairingTypeOK
<1>1. ASSUME PairingNext
      PROVE  \A c \in Code : invitation[c] = "gone" => invitation'[c] = "gone"
  <2>1. CASE SponsorLoop
    BY <2>1 DEF SponsorLoop, SponsorFinalises, SponsorHandles, AcceptRequest,
                OfferFails, RefuseRequest, TakeInvitation, Spent, VerifyResponse,
                VerifyFails, HandleSessionClosed, AdmitMember, TrustPeer,
                RecordFails, TakeParked, SendConfirm
  <2>2. CASE SponsorCrash \/ CancelInvitations
    BY <2>2 DEF SponsorCrash, CancelInvitations, WithoutOutstanding
  <2>3. CASE \E c \in Code : IssueInvitation(c) \/ ExpireInvitation(c)
    BY <2>3 DEF IssueInvitation, ExpireInvitation
  <2>4. CASE UNCHANGED invitation
    BY <2>4
  <2> QED BY <1>1, <2>1, <2>2, <2>3, <2>4
       DEF PairingNext, FireTimeout, RedeemInvitation, Dial, JoinerHandshake,
           AbandonHandshake, TakeOffer, StoreKek, StoreKeyslot,
           StoreKeyslotFails, TakeConfirm, PersistSponsor, CompleteSetup,
           JoinerCrash, BreakLink, sponsorVars
<1>2. ASSUME PairingNext
      PROVE  \/ UNCHANGED offered
             \/ \E s \in Session : AcceptRequest(s) /\ offered' = offered \cup {s}
  <2>1. ASSUME NEW s \in Session, AcceptRequest(s)
        PROVE  UNCHANGED offered \/ offered' = offered \cup {s}
    BY <2>1 DEF AcceptRequest
  <2> QED BY <1>2, <2>1
       DEF PairingNext, IssueInvitation, ExpireInvitation, CancelInvitations,
           InvitationsOnly, SponsorLoop, SponsorFinalises, SponsorHandles,
           OfferFails, RefuseRequest, VerifyResponse, VerifyFails,
           HandleSessionClosed, AdmitMember, TrustPeer, RecordFails, TakeParked,
           SendConfirm, FireTimeout, SponsorCrash, RedeemInvitation, Dial,
           JoinerHandshake, AbandonHandshake, TakeOffer, StoreKek,
           StoreKeyslot, StoreKeyslotFails, TakeConfirm, PersistSponsor,
           CompleteSetup, JoinerCrash, BreakLink, sponsorVars
<1>3. ASSUME Next, ~ PairingNext
      PROVE  UNCHANGED <<invitation, offered>>
  <2>1. ASSUME NEW t \in Thread, Migrate(t)
        PROVE  UNCHANGED <<invitation, offered>>
    BY <2>1, MigrateKeepsPairing DEF sponsorVars
  <2>2. CASE \E c \in Code : JoinSpace(c)
    BY <2>2 DEF JoinSpace, Dial
  <2>3. CASE SwitchOnly
    BY <2>3 DEF SwitchOnly, ListRows, BackUp, BackedUp, UndoRows, SetPrepared,
                SetHandshakeDone, DialFails, HandshakeOver, NotPairing,
                sponsorVars
  <2>4. CASE StartSwitch \/ ResumePending \/ Device
    BY <2>4 DEF StartSwitch, ResumePending, Device, Unlock, Lock, MoverCrash,
                CaptureRow, DeleteRow, NotPairing, sponsorVars
  <2> QED BY <1>3, <2>1, <2>2, <2>3, <2>4 DEF Next, Switch, SwitchOnly, Thread
<1>4. CASE UNCHANGED vars
  BY <1>4 DEF vars, pairingVars, sponsorVars
<1> QED BY <1>1, <1>2, <1>3, <1>4

LEMMA InvitationStepKeeps ==
    ASSUME TypeOK, SessionInv, InvitationInv, [Next]_vars
    PROVE  InvitationInv'
<1>1. /\ Dialled \subseteq Dialled' /\ \A s \in Dialled : dialled'[s] = dialled[s]
      /\ offered \subseteq Dialled
      /\ \A s \in Dialled : dialled[s].code \in Code
  BY SessionsGrow, DialledBy, PairingParts DEF SessionInv, TypeOK
<1>2. \A s \in offered : invitation'[dialled'[s].code] = "gone"
  BY <1>1, InvitationMoves DEF InvitationInv
<1>3. CASE UNCHANGED offered
  BY <1>1, <1>2, <1>3 DEF InvitationInv, InvitationServesOne
<1>4. ASSUME NEW s \in Session, AcceptRequest(s), offered' = offered \cup {s}
      PROVE  InvitationInv'
  <2>1. s \in Dialled /\ invitation[dialled[s].code] = "held"
        /\ invitation' = Spent(s) /\ UNCHANGED dialled
    BY <1>4 DEF AcceptRequest, TakeInvitation, Arrived, SessionInv
  <2>2. invitation'[dialled'[s].code] = "gone"
    BY <1>1, <2>1 DEF Spent, TypeOK, PairingTypeOK
  <2>3. \A t \in offered : dialled[t].code # dialled[s].code
    BY <2>1 DEF InvitationInv
  <2> QED BY <1>1, <1>2, <1>4, <2>1, <2>2, <2>3
       DEF InvitationInv, InvitationServesOne
<1> QED BY <1>3, <1>4, InvitationMoves

(***************************************************************************)
(* An invitation serves one session: around expiry, cancellation, restarts *)
(* and failed offers no second session that dials the same code is sent    *)
(* the keyslot (holder.rs take_matching).                                  *)
(***************************************************************************)
THEOREM InvitationsServeOne == Spec => []InvitationServesOne
<1>1. Init => InvitationInv
  BY DEF Init, PairingInit, InvitationInv, InvitationServesOne
<1>2. TypeOK /\ SessionInv /\ InvitationInv /\ [Next]_vars => InvitationInv'
  BY InvitationStepKeeps
<1>3. InvitationInv => InvitationServesOne
  BY DEF InvitationInv
<1> QED BY <1>1, <1>2, <1>3, TypeCorrect, PTL DEF Spec

-----------------------------------------------------------------------------
(* The rows of a device that changes space, however a switch and the       *)
(* unlock requests beside it interleave.                                   *)

ResumeSteps == {"idle", "list backup", "swap", "set swapped", "commit",
                "drop rows", "drop key", "set none"}

(* Where a switch is before HandshakeDone is recorded, and where it may be *)
(* with its backups made or being made.                                    *)
Before == {"list rows", "back up", "undo rows", "set prepared", "handshake",
           "set done"}
Preparing == Before \ {"undo rows"}

(* Where a request no longer needs the backups.                            *)
Finishing == {"set swapped", "commit", "drop rows", "drop key", "set none"}

(* Some migration has replaced the keys, as far as the setup, the state    *)
(* file and the unlock request know.                                       *)
Turned ==
    \/ setup[Mover] = Target
    \/ phase.step \in {"handshake_done", "swapped"}
    \/ job["resume"].at \in Past

(* The key in memory is the one on disk, if there is one on disk; once     *)
(* replaced, the old key never comes back.                                 *)
SlotInv ==
    /\ master[Mover] \in {NoKey, keyslot[Mover]} \/ keyslot[Mover] = NoKey
    /\ Turned \/ job["switch"].at \in Past
          => keyslot[Mover] # Home /\ master[Mover] # Home
    /\ joiner[Mover].at \in {"verdict", "persist", "setup"}
          => keyslot[Mover] = Target
    /\ JobAt("switch", "set done") \/ promised # {} => keyslot[Mover] = Target

(* The handshake belongs to the switch, and ends every earlier promise.    *)
TurnInv ==
    /\ job["resume"].at \in ResumeSteps
    /\ \A t \in Thread : job[t].open => job[t].at \in SetStep
    /\ joiner[Mover] # Idle => JobAt("switch", "handshake") /\ promised = {}

(* No other request writes HandshakeDone before the switch does.           *)
PhaseInv == job["switch"].at \in Before => phase.step # "handshake_done"

BackupInv ==
    /\ \A r \in Row : backup[r] <= runs
    /\ job["switch"].at \in Preparing =>
          /\ job["switch"].run \in 1 .. runs
          /\ Turned => \A r \in Row :
                 main[r] = Home => backup[r] # job["switch"].run
    /\ JobAt("switch", "back up") =>
          \A rec \in job["switch"].left : rec[2] = job["switch"].run

Moved(r) == Stored(r) => main[r] = keyslot[Mover]

(* A request that finishes has no row left to move; one that still swaps   *)
(* works from the backups the state file names, and none is passed over.   *)
Swapping(t, r) ==
    /\ phase.run = job[t].run
    /\ JobAt(t, "swap") => <<r, job[t].run>> \in job[t].left

MoveInv ==
    \A t \in Thread, r \in promised :
        /\ job[t].at \in Finishing => Moved(r)
        /\ job[t].at \in {"list backup", "swap"} => Moved(r) \/ Swapping(t, r)

RowsInv ==
    /\ SlotInv /\ TurnInv /\ PhaseInv /\ BackupInv /\ MoveInv
    /\ PromisedRowsRecoverable /\ CommittedRowsMoved

LEMMA MoverTypes ==
    ASSUME TypeOK
    PROVE  /\ Mover \in Joiner /\ Mover \in Settled
           /\ joiner \in [Joiner -> [at : JoinerStep,
                                     session : Session \cup {NoSession}]]
           /\ keyslot \in [Joiner -> Key \cup {NoKey}]
           /\ master \in [Joiner -> Key \cup {NoKey}]
           /\ setup \in [Joiner -> Key \cup {NoKey}]
BY SwitchAssumption DEF TypeOK, PairingTypeOK

LEMMA HistoryTypes ==
    ASSUME TypeOK
    PROVE  /\ job \in Jobs /\ PhaseType /\ HistoryType
           /\ runs \in Nat /\ Run \subseteq Nat
           /\ "switch" \in Thread /\ "resume" \in Thread
BY SwitchAssumption, SwitchParts DEF TypeOK, HistoryType, Run, Thread

LEMMA IdleAt == Idle.at = "idle"
BY DEF Idle, At

LEMMA NoJobIs == NoJob.at = "idle" /\ ~ NoJob.open
BY DEF NoJob

LEMMA RunsAreNumbers ==
    ASSUME TypeOK
    PROVE  /\ runs \in Nat /\ 0 <= runs /\ runs + 1 <= runs + 1
           /\ \A r \in Row : backup[r] <= runs
                => backup[r] <= runs + 1 /\ backup[r] # runs + 1
<1>1. \A r \in Row : backup[r] \in Nat
  BY HistoryTypes DEF HistoryType, NoRun
<1> QED BY <1>1, HistoryTypes

LEMMA InitRows == Init => RowsInv
<1> SUFFICES ASSUME Init PROVE RowsInv
  OBVIOUS
<1>1. /\ joiner[Mover] = Idle
      /\ keyslot[Mover] = Home /\ master[Mover] = Home /\ setup[Mover] = Home
      /\ promised = {} /\ phase.step = "none" /\ backup = [r \in Row |-> NoRun]
      /\ runs = 0
  BY SwitchAssumption DEF Init, PairingInit, SwitchInit, HomeKeys, NoPhase
<1>2. \A t \in Thread : job[t].at = "idle" /\ ~ job[t].open
  BY NoJobIs DEF Init, SwitchInit
<1>3. job["switch"].at = "idle" /\ job["resume"].at = "idle"
  BY <1>2 DEF Thread
<1>4. SlotInv
  BY <1>1, <1>3, IdleAt DEF SlotInv, Turned, Past, JobAt, Home, Target
<1>5. TurnInv /\ PhaseInv
  BY <1>1, <1>2, <1>3 DEF TurnInv, PhaseInv, Before, ResumeSteps, JobAt
<1>6. BackupInv
  <2>1. \A r \in Row : backup[r] <= runs
    BY <1>1 DEF NoRun
  <2> QED BY <1>3, <2>1 DEF BackupInv, JobAt, Preparing, Before
<1>7. MoveInv /\ PromisedRowsRecoverable /\ CommittedRowsMoved
  BY <1>1 DEF MoveInv, PromisedRowsRecoverable, CommittedRowsMoved
<1> QED BY <1>4, <1>5, <1>6, <1>7 DEF RowsInv

-----------------------------------------------------------------------------
(* What a step does to the requests *)

(* The steps of any request, and those of a switch only.                   *)
AnyEdge == {<<"set swapped", "commit">>, <<"list backup", "swap">>,
            <<"swap", "swap">>, <<"swap", "set swapped">>,
            <<"commit", "drop rows">>, <<"drop rows", "drop key">>,
            <<"drop key", "set none">>}
SwitchEdge == {<<"list rows", "back up">>, <<"back up", "back up">>,
               <<"back up", "undo rows">>, <<"back up", "set prepared">>,
               <<"set prepared", "handshake">>, <<"handshake", "set done">>,
               <<"handshake", "drop rows">>, <<"set done", "list backup">>}

Passes(t, edges) ==
    /\ <<job[t].at, job'[t].at>> \in edges
    /\ job'[t].run = job[t].run
    /\ ~ job'[t].open

Stops(t) ==
    /\ job'[t] = NoJob
    /\ job[t].at \in SetStep \cup {"swap", "commit", "undo rows"} \/ MoverCrash

Opens(t) ==
    /\ CreateFile(t)
    /\ job[t].at \in SetStep
    /\ job'[t].at = job[t].at /\ job'[t].run = job[t].run

LEMMA GoesAlong ==
    ASSUME job \in Jobs, NEW t \in Thread, ~ job[t].open,
           NEW step, GoTo(t, step), NEW edges, <<job[t].at, step>> \in edges
    PROVE  Passes(t, edges) /\ \A u \in Thread : u # t => job'[u] = job[u]
BY DEF GoTo, Jobs, Passes

LEMMA WritesAlong ==
    ASSUME job \in Jobs, NEW t \in Thread, NEW phased, NEW step,
           WriteFile(t, phased, step), NEW edges, <<job[t].at, step>> \in edges
    PROVE  Passes(t, edges) /\ \A u \in Thread : u # t => job'[u] = job[u]
BY DEF WriteFile, Jobs, Passes

LEMMA MigrationEdges ==
    ASSUME TypeOK, TurnInv, NEW t \in Thread, Migrate(t)
    PROVE  Stops(t) \/ Opens(t) \/ Passes(t, AnyEdge)
<1> USE HistoryTypes DEF Jobs
<1>1. job[t].open => job[t].at \in SetStep
  BY DEF TurnInv
<1>2. CASE CreateFile(t)
  BY <1>2 DEF CreateFile, Fails, GiveUp, Opens, Stops
<1>3. CASE SetNone(t) \/ WriteFails(t) \/ CommitFails(t) \/ SwapFails(t)
  <2>1. GiveUp(t) /\ job[t].at \in SetStep \cup {"swap", "commit"}
    BY <1>1, <1>3 DEF SetNone, WriteFails, CommitFails, SwapFails, Fails, StopSwap,
                      JobAt, SetStep
  <2> QED BY <2>1 DEF GiveUp, Stops
<1>4. CASE SetSwapped(t)
  BY <1>4 DEF SetSwapped, WriteFile, JobAt, Passes, AnyEdge
<1>5. CASE ListBackup(t)
  BY <1>1, <1>5 DEF ListBackup, JobAt, SetStep, Passes, AnyEdge
<1>6. ASSUME NEW rec \in Record, Swap(t, rec)
      PROVE  Passes(t, AnyEdge)
  BY <1>1, <1>6 DEF Swap, JobAt, SetStep, Passes, AnyEdge
<1>7. CASE AllSwapped(t) \/ Commit(t) \/ DropRows(t) \/ DropKey(t)
  <2>1. \/ JobAt(t, "swap") /\ GoTo(t, "set swapped")
        \/ JobAt(t, "commit") /\ GoTo(t, "drop rows")
        \/ JobAt(t, "drop rows") /\ GoTo(t, "drop key")
        \/ JobAt(t, "drop key") /\ GoTo(t, "set none")
    BY <1>7 DEF AllSwapped, Commit, DropRows, DropKey
  <2> QED BY <1>1, <2>1, GoesAlong DEF JobAt, SetStep, AnyEdge
<1> QED BY <1>2, <1>3, <1>4, <1>5, <1>6, <1>7 DEF Migrate

LEMMA SwitchEdges ==
    ASSUME TypeOK, TurnInv, SwitchOnly
    PROVE  /\ job'["resume"] = job["resume"]
           /\ Stops("switch") \/ Passes("switch", SwitchEdge)
<1> USE HistoryTypes DEF Jobs
<1>1. job["switch"].open => job["switch"].at \in SetStep
  BY DEF TurnInv
<1>2. CASE ListRows
  BY <1>1, <1>2 DEF ListRows, JobAt, SetStep, Passes, SwitchEdge
<1>3. ASSUME NEW rec \in Record, BackUp(rec)
      PROVE  job'["resume"] = job["resume"] /\ Passes("switch", SwitchEdge)
  <2>1. \/ job' = [job EXCEPT !["switch"].left = @ \ {rec}]
        \/ GoTo("switch", "undo rows")
    BY <1>3 DEF BackUp
  <2>2. JobAt("switch", "back up")
    BY <1>3 DEF BackUp
  <2> QED BY <1>1, <2>1, <2>2 DEF JobAt, GoTo, SetStep, Passes, SwitchEdge
<1>4. CASE BackedUp \/ DialFails \/ HandshakeOver
  <2>1. \/ JobAt("switch", "back up") /\ GoTo("switch", "set prepared")
        \/ JobAt("switch", "handshake") /\ GoTo("switch", "set done")
        \/ JobAt("switch", "handshake") /\ GoTo("switch", "drop rows")
    BY <1>4 DEF BackedUp, DialFails, HandshakeOver
  <2> QED BY <1>1, <2>1, GoesAlong DEF JobAt, SetStep, SwitchEdge
<1>5. CASE UndoRows
  BY <1>5 DEF UndoRows, GiveUp, Stops, JobAt
<1>6. CASE SetPrepared \/ SetHandshakeDone
  <2>1. \/ /\ JobAt("switch", "set prepared")
           /\ WriteFile("switch", "prepared", "handshake")
        \/ /\ JobAt("switch", "set done")
           /\ WriteFile("switch", "handshake_done", "list backup")
    BY <1>6 DEF SetPrepared, SetHandshakeDone
  <2> QED BY <2>1, WritesAlong DEF JobAt, SwitchEdge
<1> QED BY <1>2, <1>3, <1>4, <1>5, <1>6 DEF SwitchOnly

Starts(t) ==
    /\ t = "switch" /\ StartSwitch
    /\ job'[t].at = "list rows" /\ job'[t].run = runs + 1
    /\ ~ job'[t].open

TakesUp(t) ==
    /\ t = "resume" /\ ResumePending
    /\ job'[t].run = phase.run /\ ~ job'[t].open
    /\ \/ phase.step = "prepared" /\ job'[t].at = "drop rows"
       \/ phase.step = "handshake_done" /\ job'[t].at = "list backup"
       \/ phase.step = "swapped" /\ job'[t].at = "commit"

(* What becomes of a request in any step of the system.                    *)
LEMMA RequestMoves ==
    ASSUME TypeOK, TurnInv, [Next]_vars, NEW t \in Thread
    PROVE  \/ job'[t] = job[t]
           \/ Stops(t)
           \/ Opens(t)
           \/ Migrate(t) /\ Passes(t, AnyEdge)
           \/ t = "switch" /\ SwitchOnly /\ Passes(t, SwitchEdge)
           \/ Starts(t)
           \/ TakesUp(t)
<1> USE HistoryTypes DEF Jobs
<1>1. t = "switch" \/ t = "resume"
  BY DEF Thread
<1>2. ASSUME NEW u \in Thread, Migrate(u)
      PROVE  \/ job'[t] = job[t]
             \/ Stops(t)
             \/ Opens(t)
             \/ Migrate(t) /\ Passes(t, AnyEdge)
  <2>1. CASE u = t
    BY <1>2, <2>1, MigrationEdges
  <2>2. CASE u # t
    BY <1>2, <2>2, OtherJob
  <2> QED BY <2>1, <2>2
<1>3. CASE SwitchOnly
  BY <1>1, <1>3, SwitchEdges
<1>4. CASE StartSwitch
  BY <1>1, <1>4 DEF StartSwitch, Starts, NoJob
<1>5. CASE ResumePending
  <2>1. job'["switch"] = job["switch"]
    BY <1>5 DEF ResumePending
  <2>2. /\ job'["resume"].at = ResumeAt[phase.step]
        /\ job'["resume"].run = phase.run /\ ~ job'["resume"].open
        /\ phase.step \in {"prepared", "handshake_done", "swapped"}
    BY <1>5 DEF ResumePending, NoJob, InterruptedSteps
  <2>3. /\ ResumeAt["prepared"] = "drop rows"
        /\ ResumeAt["handshake_done"] = "list backup"
        /\ ResumeAt["swapped"] = "commit"
    BY DEF ResumeAt
  <2> QED BY <1>1, <1>5, <2>1, <2>2, <2>3 DEF TakesUp
<1>6. CASE MoverCrash
  BY <1>6 DEF MoverCrash, Stops
<1>7. CASE UNCHANGED job
  BY <1>7
<1>8. CASE \/ PairingNext /\ UNCHANGED switchVars
           \/ \E c \in Code : JoinSpace(c)
           \/ Unlock \/ Lock \/ (\E r \in Row : CaptureRow(r) \/ DeleteRow(r))
           \/ UNCHANGED vars
  <2>1. UNCHANGED job
    BY <1>8 DEF JoinSpace, Unlock, Lock, CaptureRow, DeleteRow, switchVars, vars
  <2> QED BY <2>1
<1> QED BY <1>2, <1>3, <1>4, <1>5, <1>6, <1>8
     DEF Next, Switch, SwitchOnly, Device, Thread

(* In the handshake, a switch waits for the handshake.                     *)
LEMMA HandshakeWaits ==
    ASSUME TypeOK, TurnInv, [Next]_vars, job["switch"].at = "handshake"
    PROVE  \/ job'["switch"] = job["switch"]
           \/ DialFails \/ HandshakeOver \/ MoverCrash
<1>1. ~ Starts("switch") /\ ~ Opens("switch") /\ ~ TakesUp("switch")
  BY DEF Starts, StartSwitch, Opens, TakesUp, SetStep, JobAt
<1>2. ~ Passes("switch", AnyEdge)
  BY DEF Passes, AnyEdge
<1>3. SwitchOnly => DialFails \/ HandshakeOver
  BY DEF SwitchOnly, ListRows, BackUp, BackedUp, UndoRows, SetPrepared,
         SetHandshakeDone, JobAt
<1>4. Stops("switch") => MoverCrash
  BY DEF Stops, SetStep
<1> QED BY <1>1, <1>2, <1>3, <1>4, RequestMoves DEF Thread

-----------------------------------------------------------------------------
(* What a step does to the keys *)

moverVars == <<joiner[Mover], keyslot[Mover], master[Mover], setup[Mover]>>

(* What pairing does to the device: only its own handshake touches it.     *)
LEMMA PairingMoves ==
    ASSUME TypeOK, PairingNext
    PROVE  UNCHANGED moverVars \/ JoinerHandshake(Mover)
<1> USE MoverTypes DEF moverVars
<1>1. CASE \E j \in Joiner : JoinerHandshake(j)
  <2>1. PICK j \in Joiner : JoinerHandshake(j)
    BY <1>1
  <2>2. j # Mover => UNCHANGED moverVars
    BY <2>1 DEF JoinerHandshake, AbandonHandshake, TakeOffer, StoreKek,
         StoreKeyslot, StoreKeyslotFails, TakeConfirm, PersistSponsor,
         CompleteSetup, Leave
  <2> QED BY <2>1, <2>2
<1>2. CASE \E j \in Joiner : (\E c \in Code : RedeemInvitation(j, c)) \/ JoinerCrash(j)
  BY <1>2 DEF RedeemInvitation, Dial, JoinerCrash, HangUp, Leave
<1>3. CASE UNCHANGED joinerVars
  BY <1>3 DEF joinerVars
<1> QED BY <1>1, <1>2, <1>3
     DEF PairingNext, IssueInvitation, ExpireInvitation, CancelInvitations,
         InvitationsOnly, SponsorLoop, SponsorFinalises, SponsorHandles,
         AcceptRequest, OfferFails, RefuseRequest, VerifyResponse, VerifyFails,
         HandleSessionClosed, AdmitMember, TrustPeer, RecordFails, TakeParked,
         SendConfirm, FireTimeout, SponsorCrash, BreakLink, joinerVars

(* ... and what its handshake does to its keys.                            *)
LEMMA HandshakeMoves ==
    ASSUME TypeOK, JoinerHandshake(Mover)
    PROVE  /\ joiner[Mover] # Idle /\ UNCHANGED setup
           /\ \/ /\ UNCHANGED <<keyslot[Mover], master[Mover]>>
                 /\ joiner'[Mover].at \in {"verdict", "persist", "setup"}
                      => joiner[Mover].at \in {"verdict", "persist", "setup"}
              \/ keyslot'[Mover] = Target /\ master'[Mover] = Target
              \/ /\ keyslot'[Mover] = NoKey /\ UNCHANGED master[Mover]
                 /\ joiner'[Mover].at = "failed"
<1> USE MoverTypes DEF Idle, At
<1>1. CASE AbandonHandshake(Mover)
  BY <1>1 DEF AbandonHandshake, Waits, Leave
<1>2. CASE TakeOffer(Mover) \/ StoreKek(Mover)
  BY <1>2 DEF TakeOffer, StoreKek
<1>3. CASE StoreKeyslot(Mover)
  BY <1>3 DEF StoreKeyslot
<1>4. CASE StoreKeyslotFails(Mover)
  BY <1>4 DEF StoreKeyslotFails, Leave
<1>5. CASE TakeConfirm(Mover)
  BY <1>5 DEF TakeConfirm, Leave
<1>6. CASE PersistSponsor(Mover)
  BY <1>6 DEF PersistSponsor
<1> QED BY <1>1, <1>2, <1>3, <1>4, <1>5, <1>6 DEF JoinerHandshake, CompleteSetup

LEMMA KeyMoves ==
    ASSUME TypeOK, [Next]_vars
    PROVE  \/ UNCHANGED <<joiner[Mover], keyslot[Mover], master[Mover]>>
           \/ /\ UNCHANGED <<joiner[Mover], keyslot[Mover], promised, job>>
              /\ master'[Mover] \in {NoKey, keyslot[Mover]}
           \/ /\ UNCHANGED keyslot[Mover] /\ joiner'[Mover] = Idle
              /\ master'[Mover] \in {NoKey, master[Mover]}
           \/ /\ JobAt("switch", "handshake") /\ joiner'[Mover].at = "offer"
              /\ UNCHANGED <<keyslot[Mover], master[Mover], job>>
              /\ promised' = {}
           \/ JoinerHandshake(Mover) /\ UNCHANGED switchVars
<1> USE MoverTypes
<1>1. CASE PairingNext /\ UNCHANGED switchVars
  BY <1>1, PairingMoves DEF moverVars
<1>2. ASSUME NEW c \in Code, JoinSpace(c)
      PROVE  /\ JobAt("switch", "handshake") /\ joiner'[Mover].at = "offer"
             /\ UNCHANGED <<keyslot[Mover], master[Mover], job>>
             /\ promised' = {}
  BY <1>2 DEF JoinSpace, Dial, At
<1>3. CASE HandshakeOver
  BY <1>3 DEF HandshakeOver
<1>4. CASE Unlock \/ Lock
  BY <1>4 DEF Unlock, Lock, switchVars
<1>5. CASE MoverCrash
  BY <1>5 DEF MoverCrash, HangUp, Leave, Idle
<1>6. CASE NotPairing
  BY <1>6 DEF NotPairing, joinerVars
<1>7. ASSUME NEW t \in Thread, Commit(t)
      PROVE  UNCHANGED <<joiner[Mover], keyslot[Mover], master[Mover]>>
  BY <1>7 DEF Commit
<1>8. CASE UNCHANGED vars
  BY <1>8 DEF vars, pairingVars, joinerVars
<1>9. ASSUME NEW t \in Thread, Migrate(t), ~ Commit(t)
      PROVE  NotPairing
  BY <1>9 DEF Migrate, CreateFile, SetSwapped, SetNone, WriteFails, ListBackup,
              Swap, SwapFails, AllSwapped, CommitFails, DropRows, DropKey
<1>10. CASE \/ StartSwitch \/ ListRows \/ (\E rec \in Record : BackUp(rec))
            \/ BackedUp \/ UndoRows \/ SetPrepared \/ SetHandshakeDone
            \/ DialFails \/ ResumePending
            \/ \E r \in Row : CaptureRow(r) \/ DeleteRow(r)
  <2>1. NotPairing
    BY <1>10 DEF StartSwitch, ListRows, BackUp, BackedUp, UndoRows, SetPrepared,
                 SetHandshakeDone, DialFails, ResumePending, CaptureRow, DeleteRow
  <2> QED BY <1>6, <2>1
<1> HIDE MoverTypes
<1> QED BY <1>1, <1>2, <1>3, <1>4, <1>5, <1>6, <1>7, <1>8, <1>9, <1>10
     DEF Next, Switch, Device, Thread

-----------------------------------------------------------------------------
(* What a step does to the state file, the rows and the setup status *)

LEMMA PhaseMoves ==
    ASSUME TypeOK, [Next]_vars
    PROVE  \/ phase' = phase
           \/ phase'.step = "none" /\ \E t \in Thread : job[t].at \in SetStep
           \/ JobAt("switch", "set prepared") /\ phase'.step = "prepared"
           \/ /\ SetHandshakeDone /\ phase'.step = "handshake_done"
              /\ phase'.run = job["switch"].run
           \/ /\ phase'.step = "swapped"
              /\ \E t \in Thread : JobAt(t, "set swapped")
<1> "switch" \in Thread
  BY DEF Thread
<1>1. ASSUME NEW t \in Thread, CreateFile(t)
      PROVE  \/ phase' = phase
             \/ phase'.step = "none" /\ job[t].at \in SetStep
  BY <1>1 DEF CreateFile, NoPhase, Fails
<1>2. ASSUME NEW t \in Thread, SetSwapped(t)
      PROVE  phase'.step = "swapped" /\ JobAt(t, "set swapped")
  BY <1>2 DEF SetSwapped, WriteFile
<1>3. ASSUME NEW t \in Thread, Migrate(t), ~ CreateFile(t), ~ SetSwapped(t)
      PROVE  phase' = phase
  BY <1>3 DEF Migrate, SetNone, WriteFails, ListBackup, Swap, SwapFails,
              AllSwapped, Commit, CommitFails, DropRows, DropKey, Fails
<1>4. CASE SetPrepared
  BY <1>4 DEF SetPrepared, WriteFile
<1>5. CASE SetHandshakeDone
  BY <1>5 DEF SetHandshakeDone, WriteFile
<1>6. CASE \/ StartSwitch \/ ListRows \/ (\E rec \in Record : BackUp(rec))
           \/ BackedUp \/ UndoRows \/ DialFails \/ HandshakeOver \/ ResumePending
           \/ (\E c \in Code : JoinSpace(c)) \/ Device \/ UNCHANGED switchVars
           \/ UNCHANGED vars
  BY <1>6 DEF StartSwitch, ListRows, BackUp, BackedUp, UndoRows, DialFails,
              HandshakeOver, ResumePending, JoinSpace, Device, Unlock, Lock,
              MoverCrash, CaptureRow, DeleteRow, switchVars, vars
<1> QED BY <1>1, <1>2, <1>3, <1>4, <1>5, <1>6 DEF Next, Switch, Thread

LEMMA SetupMovesOn ==
    ASSUME TypeOK, [Next]_vars, setup'[Mover] # setup[Mover]
    PROVE  setup'[Mover] = Target /\ \E t \in Thread : JobAt(t, "commit")
<1> USE MoverTypes
<1>1. ASSUME NEW t \in Thread, Commit(t)
      PROVE  setup'[Mover] = Target /\ JobAt(t, "commit")
  BY <1>1 DEF Commit
<1>2. ASSUME PairingNext, UNCHANGED switchVars
      PROVE  UNCHANGED setup[Mover]
  BY <1>2, PairingMoves, HandshakeMoves DEF moverVars
<1>3. ASSUME NotPairing \/ UNCHANGED vars
      PROVE  UNCHANGED setup[Mover]
  BY <1>3 DEF NotPairing, vars, pairingVars, joinerVars
<1>4. ASSUME NEW t \in Thread, Migrate(t), ~ Commit(t)
      PROVE  NotPairing
  BY <1>4 DEF Migrate, CreateFile, SetSwapped, SetNone, WriteFails, ListBackup,
              Swap, SwapFails, AllSwapped, CommitFails, DropRows, DropKey
<1>5. ASSUME HandshakeOver \/ Unlock \/ Lock \/ MoverCrash
                \/ \E c \in Code : JoinSpace(c)
      PROVE  UNCHANGED setup[Mover]
  BY <1>5 DEF HandshakeOver, Unlock, Lock, MoverCrash, JoinSpace, Dial
<1>6. CASE \/ StartSwitch \/ ListRows \/ (\E rec \in Record : BackUp(rec))
           \/ BackedUp \/ UndoRows \/ SetPrepared \/ SetHandshakeDone
           \/ DialFails \/ ResumePending
           \/ \E r \in Row : CaptureRow(r) \/ DeleteRow(r)
  <2>1. NotPairing
    BY <1>6 DEF StartSwitch, ListRows, BackUp, BackedUp, UndoRows, SetPrepared,
                SetHandshakeDone, DialFails, ResumePending, CaptureRow, DeleteRow
  <2> QED BY <1>3, <2>1
<1> HIDE MoverTypes
<1> QED BY <1>1, <1>2, <1>3, <1>4, <1>5, <1>6 DEF Next, Switch, Device, Thread

(* A row is rewritten, or captured, under the key in memory only.          *)
LEMMA MainMoves ==
    ASSUME TypeOK, [Next]_vars, NEW r \in Row
    PROVE  \/ main'[r] \in {main[r], "gone"}
           \/ main'[r] = master[Mover] /\ master[Mover] # NoKey
<1> USE HistoryTypes DEF HistoryType, historyVars
<1>1. ASSUME NEW t \in Thread, NEW rec \in Record, Swap(t, rec)
      PROVE  \/ main'[r] = main[r]
             \/ main'[r] = master[Mover] /\ master[Mover] # NoKey
  BY <1>1 DEF Swap, CanSwap
<1>2. ASSUME NEW q \in Row, CaptureRow(q) \/ DeleteRow(q)
      PROVE  \/ main'[r] \in {main[r], "gone"}
             \/ main'[r] = master[Mover] /\ master[Mover] # NoKey
  BY <1>2 DEF CaptureRow, DeleteRow
<1>3. ASSUME NEW t \in Thread, Migrate(t), ~ \E rec \in Record : Swap(t, rec)
      PROVE  main' = main
  BY <1>3 DEF Migrate, CreateFile, SetSwapped, SetNone, WriteFails, ListBackup,
              SwapFails, AllSwapped, Commit, CommitFails, DropRows, DropKey, Fails
<1>4. CASE \/ StartSwitch \/ ListRows \/ (\E rec \in Record : BackUp(rec))
           \/ BackedUp \/ UndoRows \/ SetPrepared \/ SetHandshakeDone
           \/ DialFails \/ HandshakeOver \/ ResumePending
           \/ (\E c \in Code : JoinSpace(c)) \/ Unlock \/ Lock \/ MoverCrash
           \/ UNCHANGED switchVars \/ UNCHANGED vars
  <2>1. main' = main
    BY <1>4 DEF StartSwitch, ListRows, BackUp, BackedUp, UndoRows, SetPrepared,
                SetHandshakeDone, DialFails, HandshakeOver, ResumePending,
                JoinSpace, Unlock, Lock, MoverCrash, switchVars, vars
  <2> QED BY <2>1
<1> QED BY <1>1, <1>2, <1>3, <1>4 DEF Next, Switch, Device, Thread

(* Backups are made by a switch, and dropped where they are not needed.    *)
LEMMA BackupMoves ==
    ASSUME TypeOK, [Next]_vars
    PROVE  \/ backup' = backup
           \/ /\ backup' = [r \in Row |-> NoRun] /\ runs' = runs
              /\ \/ JobAt("switch", "undo rows")
                 \/ \E t \in Thread : JobAt(t, "drop rows")
           \/ \E rec \in Record : BackUp(rec)
<1> USE DEF historyVars
<1>1. ASSUME NEW t \in Thread, DropRows(t)
      PROVE  \/ backup' = backup
             \/ /\ backup' = [r \in Row |-> NoRun] /\ runs' = runs
                /\ JobAt(t, "drop rows")
  BY <1>1 DEF DropRows, Dropped, Kept
<1>2. CASE UndoRows
  BY <1>2 DEF UndoRows, Dropped, Kept
<1>3. ASSUME NEW t \in Thread, Migrate(t), ~ DropRows(t)
      PROVE  backup' = backup
  BY <1>3 DEF Migrate, CreateFile, SetSwapped, SetNone, WriteFails, ListBackup,
              Swap, SwapFails, AllSwapped, Commit, CommitFails, DropKey, Fails
<1>4. CASE \/ StartSwitch \/ ListRows \/ BackedUp \/ SetPrepared
           \/ SetHandshakeDone \/ DialFails \/ HandshakeOver \/ ResumePending
           \/ (\E c \in Code : JoinSpace(c)) \/ Device
           \/ UNCHANGED switchVars \/ UNCHANGED vars
  BY <1>4 DEF StartSwitch, ListRows, BackedUp, SetPrepared, SetHandshakeDone,
              DialFails, HandshakeOver, ResumePending, JoinSpace, Device, Unlock,
              Lock, MoverCrash, CaptureRow, DeleteRow, switchVars, vars
<1> QED BY <1>1, <1>2, <1>3, <1>4 DEF Next, Switch, Thread

LEMMA KeyringMoves ==
    ASSUME TypeOK, [Next]_vars
    PROVE  \/ keyring \subseteq keyring'
           \/ \E t \in Thread : JobAt(t, "drop key")
<1> USE DEF historyVars
<1>1. ASSUME NEW t \in Thread, Migrate(t), ~ DropKey(t)
      PROVE  keyring' = keyring
  BY <1>1 DEF Migrate, CreateFile, SetSwapped, SetNone, WriteFails, ListBackup,
              Swap, SwapFails, AllSwapped, Commit, CommitFails, DropRows, Fails
<1>2. CASE \/ ListRows \/ (\E rec \in Record : BackUp(rec)) \/ BackedUp
           \/ UndoRows \/ SetPrepared \/ SetHandshakeDone \/ DialFails
           \/ HandshakeOver \/ ResumePending \/ (\E c \in Code : JoinSpace(c))
           \/ Device \/ UNCHANGED switchVars \/ UNCHANGED vars
  <2>1. keyring' = keyring
    BY <1>2 DEF ListRows, BackUp, BackedUp, UndoRows, SetPrepared,
                SetHandshakeDone, DialFails, HandshakeOver, ResumePending,
                JoinSpace, Device, Unlock, Lock, MoverCrash, CaptureRow,
                DeleteRow, switchVars, vars
  <2> QED BY <2>1
<1>3. CASE StartSwitch
  BY <1>3 DEF StartSwitch
<1> QED BY <1>1, <1>2, <1>3 DEF Next, Switch, DropKey, Thread

LEMMA PromiseMoves ==
    ASSUME TypeOK, [Next]_vars
    PROVE  promised' \subseteq promised \/ SetHandshakeDone
<1>1. ASSUME NEW t \in Thread, Migrate(t)
      PROVE  promised' = promised
  BY <1>1 DEF Migrate, CreateFile, SetSwapped, SetNone, WriteFails, ListBackup,
              Swap, SwapFails, AllSwapped, Commit, CommitFails, DropRows, DropKey,
              Fails
<1>2. CASE \/ StartSwitch \/ ListRows \/ (\E rec \in Record : BackUp(rec))
           \/ BackedUp \/ UndoRows \/ SetPrepared \/ DialFails
           \/ HandshakeOver \/ ResumePending \/ Device
           \/ UNCHANGED switchVars \/ UNCHANGED vars
  <2>1. promised' = promised
    BY <1>2 DEF StartSwitch, ListRows, BackUp, BackedUp, UndoRows, SetPrepared,
                DialFails, HandshakeOver, ResumePending, Device, Unlock, Lock,
                MoverCrash, CaptureRow, DeleteRow, switchVars, vars
  <2> QED BY <2>1
<1>3. CASE \E c \in Code : JoinSpace(c)
  BY <1>3 DEF JoinSpace
<1> QED BY <1>1, <1>2, <1>3 DEF Next, Switch, Thread

LEMMA RunsMove ==
    ASSUME TypeOK, [Next]_vars
    PROVE  runs' = runs \/ StartSwitch
<1>1. ASSUME NEW t \in Thread, Migrate(t)
      PROVE  runs' = runs
  BY <1>1 DEF Migrate, CreateFile, SetSwapped, SetNone, WriteFails, ListBackup,
              Swap, SwapFails, AllSwapped, Commit, CommitFails, DropRows, DropKey
<1>2. CASE SwitchOnly
  BY <1>2 DEF SwitchOnly, ListRows, BackUp, BackedUp, UndoRows, SetPrepared,
              SetHandshakeDone, DialFails, HandshakeOver
<1>3. CASE ResumePending \/ Device \/ (\E c \in Code : JoinSpace(c))
           \/ UNCHANGED switchVars \/ UNCHANGED vars
  BY <1>3 DEF ResumePending, Device, Unlock, Lock, MoverCrash, CaptureRow,
              DeleteRow, JoinSpace, switchVars, vars
<1> QED BY <1>1, <1>2, <1>3 DEF Next, Switch, SwitchOnly, Thread

-----------------------------------------------------------------------------
(* The requests, the keys and the backups *)

LEMMA TurnKept ==
    ASSUME TypeOK, RowsInv, [Next]_vars
    PROVE  TurnInv'
<1> USE HistoryTypes
<1>1. TurnInv
  BY DEF RowsInv
<1>2. job'["resume"].at \in ResumeSteps
  BY <1>1, RequestMoves, NoJobIs
     DEF TurnInv, Stops, Opens, Passes, AnyEdge, Starts, TakesUp, ResumeSteps
<1>3. ASSUME NEW t \in Thread, job'[t].open
      PROVE  job'[t].at \in SetStep
  BY <1>1, <1>3, RequestMoves, NoJobIs
     DEF TurnInv, Stops, Opens, Passes, Starts, TakesUp
<1>4. ASSUME joiner'[Mover] # Idle
      PROVE  job'["switch"].at = "handshake" /\ promised' = {}
  <2>1. CASE JoinerHandshake(Mover) /\ UNCHANGED switchVars
    BY <1>1, <2>1, HandshakeMoves DEF TurnInv, JobAt, switchVars
  <2>2. CASE /\ JobAt("switch", "handshake")
             /\ UNCHANGED job /\ promised' = {}
    BY <2>2 DEF JobAt
  <2>3. CASE UNCHANGED joiner[Mover]
    <3>1. job["switch"].at = "handshake" /\ promised = {} /\ joiner[Mover] # Idle
      BY <1>1, <1>4, <2>3 DEF TurnInv, JobAt
    <3>2. ~ DialFails /\ ~ SetHandshakeDone
      BY <3>1 DEF DialFails, SetHandshakeDone, JobAt
    <3>3. ~ HandshakeOver /\ ~ MoverCrash
      <4>1. HandshakeOver \/ MoverCrash => joiner'[Mover] = Idle
        BY MoverTypes DEF HandshakeOver, MoverCrash, HangUp, Leave, Idle
      <4> QED BY <1>4, <4>1
    <3> QED BY <1>1, <3>1, <3>2, <3>3, HandshakeWaits, PromiseMoves
  <2> QED BY <1>4, <2>1, <2>2, <2>3, KeyMoves
<1> QED BY <1>2, <1>3, <1>4 DEF TurnInv, JobAt

LEMMA PhaseKept ==
    ASSUME TypeOK, RowsInv, [Next]_vars
    PROVE  PhaseInv'
<1> USE HistoryTypes
<1>1. SUFFICES ASSUME job'["switch"].at \in Before, phase'.step = "handshake_done"
               PROVE  FALSE
  BY DEF PhaseInv
<1>2. phase' = phase \/ SetHandshakeDone
  BY <1>1, PhaseMoves
<1>3. ~ SetHandshakeDone
  <2>1. SetHandshakeDone => job'["switch"].at = "list backup"
    BY JobMoves DEF SetHandshakeDone
  <2> QED BY <1>1, <2>1 DEF Before
<1>4. job["switch"].at \in Before \/ StartSwitch
  BY <1>1, RequestMoves, NoJobIs
     DEF RowsInv, Stops, Opens, Passes, AnyEdge, SwitchEdge, Starts, TakesUp, Before
<1>5. StartSwitch => phase.step = "none"
  BY DEF StartSwitch, NoPhase
<1> QED BY <1>1, <1>2, <1>3, <1>4, <1>5 DEF RowsInv, PhaseInv

Replaced == keyslot[Mover] # Home /\ master[Mover] # Home

(* Once replaced, the keys stay so.                                        *)
LEMMA ReplacedStays ==
    ASSUME TypeOK, [Next]_vars, Replaced
    PROVE  Replaced'
<1>1. Target # Home /\ NoKey # Home
  BY DEF Target, Home, NoKey
<1> QED BY <1>1, KeyMoves, HandshakeMoves DEF Replaced

(* The handshake that leads a migration on has replaced them.              *)
LEMMA HandshakeReplaces ==
    ASSUME RowsInv, HandshakeOver, joiner[Mover].at = "setup"
    PROVE  keyslot[Mover] = Target /\ Replaced
BY DEF RowsInv, SlotInv, Replaced, Target, Home, NoKey

LEMMA SetDoneAfterHandshake ==
    ASSUME TypeOK, RowsInv, [Next]_vars, job'["switch"].at = "set done"
    PROVE  \/ job["switch"].at = "set done"
           \/ HandshakeOver /\ joiner[Mover].at = "setup"
<1> USE HistoryTypes
<1>1. job["switch"].at \in {"set done", "handshake"}
  BY RequestMoves, NoJobIs
     DEF RowsInv, Stops, Opens, Passes, AnyEdge, SwitchEdge, Starts, TakesUp
<1>2. ASSUME DialFails \/ HandshakeOver
      PROVE  HandshakeOver /\ joiner[Mover].at = "setup"
  BY <1>2 DEF DialFails, HandshakeOver, GoTo, Jobs
<1>3. ~ MoverCrash
  BY NoJobIs DEF MoverCrash
<1> QED BY <1>1, <1>2, <1>3, HandshakeWaits DEF RowsInv

LEMMA TurnedReplaced ==
    ASSUME TypeOK, RowsInv, [Next]_vars, Turned' \/ job'["switch"].at \in Past
    PROVE  Replaced
<1> USE HistoryTypes
<1>1. Turned \/ (\E t \in Thread : job[t].at \in Past) => Replaced
  BY DEF RowsInv, SlotInv, Turned, Replaced, Thread
<1>2. CASE setup'[Mover] = Target
  BY <1>1, <1>2, SetupMovesOn DEF Turned, JobAt, Past
<1>3. CASE phase'.step \in {"handshake_done", "swapped"}
  BY <1>1, <1>3, PhaseMoves DEF Turned, SetHandshakeDone, JobAt, Past
<1>4. CASE job'["resume"].at \in Past
  <2>1. job["resume"].at \in Past \/ phase.step \in {"handshake_done", "swapped"}
    BY <1>4, RequestMoves, NoJobIs
       DEF RowsInv, Stops, Opens, Passes, AnyEdge, Starts, TakesUp, Past
  <2> QED BY <1>1, <2>1 DEF Turned
<1>5. CASE job'["switch"].at \in Past
  <2>1. job["switch"].at \in Past \/ job'["switch"].at = "set done"
    BY <1>5, RequestMoves, NoJobIs
       DEF RowsInv, Stops, Opens, Passes, AnyEdge, SwitchEdge, Starts, TakesUp, Past
  <2> QED BY <1>1, <2>1, SetDoneAfterHandshake, HandshakeReplaces DEF Past
<1> QED BY <1>2, <1>3, <1>4, <1>5 DEF Turned

(* The keyslot stays while it is the one that rows were promised under.    *)
LEMMA SlotStays ==
    ASSUME TypeOK, RowsInv, [Next]_vars, JobAt("switch", "set done") \/ promised # {}
    PROVE  keyslot'[Mover] = keyslot[Mover]
<1>1. ~ JoinerHandshake(Mover)
  BY HandshakeMoves DEF RowsInv, TurnInv, JobAt
<1> QED BY <1>1, KeyMoves

LEMMA SlotKept ==
    ASSUME TypeOK, RowsInv, [Next]_vars
    PROVE  SlotInv'
<1>1. SlotInv
  BY DEF RowsInv
<1>2. master'[Mover] \in {NoKey, keyslot'[Mover]} \/ keyslot'[Mover] = NoKey
  BY <1>1, KeyMoves, HandshakeMoves DEF SlotInv
<1>3. Turned' \/ job'["switch"].at \in Past => Replaced'
  BY TurnedReplaced, ReplacedStays
<1>4. ASSUME joiner'[Mover].at \in {"verdict", "persist", "setup"}
      PROVE  keyslot'[Mover] = Target
  BY <1>1, <1>4, KeyMoves, HandshakeMoves, IdleAt DEF SlotInv
<1>5. ASSUME job'["switch"].at = "set done" \/ promised' # {}
      PROVE  keyslot'[Mover] = Target
  <2>1. CASE JobAt("switch", "set done") \/ promised # {}
    BY <1>1, <2>1, SlotStays DEF SlotInv
  <2>2. CASE HandshakeOver /\ joiner[Mover].at = "setup"
    <3>1. keyslot' = keyslot
      BY <2>2 DEF HandshakeOver
    <3> QED BY <2>2, <3>1, HandshakeReplaces
  <2>3. promised' # {} => promised # {} \/ JobAt("switch", "set done")
    BY PromiseMoves DEF SetHandshakeDone
  <2> QED BY <1>5, <2>1, <2>2, <2>3, SetDoneAfterHandshake DEF JobAt
<1> QED BY <1>2, <1>3, <1>4, <1>5 DEF SlotInv, Replaced, JobAt

(* A migration that is being prepared learns of no other that is past its  *)
(* handshake, unless there was one.                                        *)
LEMMA TurnedStays ==
    ASSUME TypeOK, RowsInv, [Next]_vars, Turned',
           job["switch"].at \in Before, job'["switch"].at \in Before
    PROVE  Turned
<1> USE HistoryTypes
<1>1. CASE setup'[Mover] = Target
  <2>1. ASSUME NEW t \in Thread, JobAt(t, "commit")
        PROVE  job["resume"].at \in Past
    BY <2>1 DEF Thread, JobAt, Before, Past
  <2> QED BY <1>1, <2>1, SetupMovesOn DEF Turned
<1>2. CASE phase'.step \in {"handshake_done", "swapped"}
  <2>1. ASSUME NEW t \in Thread, JobAt(t, "set swapped")
        PROVE  job["resume"].at \in Past
    BY <2>1 DEF Thread, JobAt, Before, Past
  <2>2. SetHandshakeDone => job'["switch"].at = "list backup"
    BY JobMoves DEF SetHandshakeDone
  <2> QED BY <1>2, <2>1, <2>2, PhaseMoves DEF Turned, Before
<1>3. CASE job'["resume"].at \in Past
  BY <1>3, RequestMoves, NoJobIs
     DEF RowsInv, Stops, Opens, Passes, AnyEdge, Starts, TakesUp, Past, Turned
<1> QED BY <1>1, <1>2, <1>3 DEF Turned

LEMMA BackupKept ==
    ASSUME TypeOK, RowsInv, [Next]_vars
    PROVE  BackupInv'
<1> USE HistoryTypes DEF HistoryType
<1>1. BackupInv
  BY DEF RowsInv
<1>2. runs <= runs' /\ \A n \in Nat : n <= runs => n <= runs'
  BY RunsMove, RunsAreNumbers DEF StartSwitch
<1>3. ASSUME NEW rec \in Record, BackUp(rec)
      PROVE  /\ job["switch"].at = "back up"
             /\ rec[2] = job["switch"].run /\ rec[2] <= runs /\ rec[2] \in Nat
             /\ \A r \in Row :
                   \/ backup'[r] = backup[r]
                   \/ /\ backup'[r] = rec[2] /\ main[r] \in Key
                      /\ main[r] = master[Mover]
  <2>1. rec \in job["switch"].left /\ job["switch"].at = "back up"
    BY <1>3 DEF BackUp, JobAt
  <2>2. rec[2] = job["switch"].run /\ rec[2] <= runs
    <3>1. job["switch"].run \in 1 .. runs
      BY <1>1, <2>1 DEF BackupInv, Preparing, Before
    <3>2. rec[2] = job["switch"].run
      BY <1>1, <2>1 DEF BackupInv, JobAt
    <3> QED BY <3>1, <3>2
  <2> QED BY <1>3, <2>1, <2>2 DEF BackUp, Record, Stored
<1>4. \A r \in Row : backup'[r] <= runs'
  <2>1. \A r \in Row : backup[r] <= runs'
    <3>1. \A r \in Row : backup[r] \in Nat
      BY DEF NoRun
    <3>2. \A r \in Row : backup[r] <= runs
      BY <1>1 DEF BackupInv
    <3> QED BY <1>2, <3>1, <3>2
  <2>2. CASE \E rec \in Record : BackUp(rec)
    BY <1>2, <1>3, <2>1, <2>2
  <2>3. CASE backup' = [r \in Row |-> NoRun] /\ runs' = runs
    BY <2>3, RunsAreNumbers DEF NoRun
  <2> QED BY <2>1, <2>2, <2>3, BackupMoves
<1>5. ASSUME job'["switch"].at \in Preparing
      PROVE  \/ StartSwitch /\ job'["switch"].run = runs + 1
             \/ /\ job["switch"].at \in Preparing
                /\ job'["switch"].run = job["switch"].run
  BY <1>5, RequestMoves, NoJobIs
     DEF RowsInv, Stops, Opens, Passes, AnyEdge, SwitchEdge, Starts, TakesUp,
         Preparing, Before
<1>6. ASSUME job'["switch"].at \in Preparing, StartSwitch,
             job'["switch"].run = runs + 1
      PROVE  /\ job'["switch"].run \in 1 .. runs'
             /\ \A r \in Row : backup'[r] # job'["switch"].run
  <2>1. runs' = runs + 1 /\ backup' = backup
    BY <1>6 DEF StartSwitch
  <2>2. runs + 1 \in 1 .. runs + 1
    OBVIOUS
  <2>3. \A r \in Row : backup[r] # runs + 1
    BY <1>1, RunsAreNumbers DEF BackupInv
  <2> QED BY <1>6, <2>1, <2>2, <2>3
<1>7. ASSUME job'["switch"].at \in Preparing, job["switch"].at \in Preparing,
             job'["switch"].run = job["switch"].run
      PROVE  /\ job'["switch"].run \in 1 .. runs'
             /\ Turned' => \A r \in Row :
                   main'[r] = Home => backup'[r] # job'["switch"].run
  <2>1. job["switch"].run \in 1 .. runs /\ job["switch"].run \in 1 .. runs'
    <3>1. job["switch"].run \in 1 .. runs
      BY <1>1, <1>7 DEF BackupInv
    <3>2. runs' = runs \/ runs' = runs + 1
      BY RunsMove DEF StartSwitch
    <3> QED BY <3>1, <3>2
  <2>2. ASSUME Turned', NEW r \in Row, main'[r] = Home
        PROVE  backup'[r] # job["switch"].run
    <3>1. Turned /\ Replaced
      BY <1>7, <2>2, TurnedStays, TurnedReplaced DEF Preparing
    <3>2. main[r] = Home
      BY <2>2, <3>1, MainMoves DEF Replaced, Home
    <3>3. backup[r] # job["switch"].run
      BY <1>1, <1>7, <3>1, <3>2 DEF BackupInv
    <3>4. NoRun # job["switch"].run
      BY <2>1 DEF NoRun
    <3>5. \A rec \in Record : BackUp(rec) => backup'[r] # job["switch"].run
      BY <1>3, <3>1, <3>2, <3>3 DEF Replaced
    <3> QED BY <3>3, <3>4, <3>5, BackupMoves
  <2> QED BY <1>7, <2>1, <2>2
<1>8. ASSUME job'["switch"].at = "back up"
      PROVE  \A rec \in job'["switch"].left : rec[2] = job'["switch"].run
  <2>1. CASE job'["switch"] = job["switch"]
    BY <1>1, <1>8, <2>1 DEF BackupInv, JobAt
  <2>2. CASE SwitchOnly /\ Passes("switch", SwitchEdge)
    <3>1. job["switch"].at \in {"list rows", "back up"}
      BY <1>8, <2>2 DEF Passes, SwitchEdge
    <3>2. CASE ListRows
      <4>1. job'["switch"].left = {r \in Row : Stored(r)} \X {job["switch"].run}
        BY <3>2 DEF ListRows, Jobs
      <4> QED BY <2>2, <4>1 DEF Passes
    <3>3. ASSUME NEW rec \in Record, BackUp(rec)
          PROVE  /\ job["switch"].at = "back up"
                 /\ job'["switch"].left \subseteq job["switch"].left
      <4>1. job["switch"].at = "back up"
        BY <3>3 DEF BackUp, JobAt
      <4>2. \/ job' = [job EXCEPT !["switch"].left = @ \ {rec}]
            \/ GoTo("switch", "undo rows")
        BY <3>3 DEF BackUp
      <4>3. CASE GoTo("switch", "undo rows")
        BY <1>8, <4>3, JobMoves
      <4>4. CASE job' = [job EXCEPT !["switch"].left = @ \ {rec}]
        <5>1. job'["switch"].left = job["switch"].left \ {rec}
          BY <4>4 DEF Jobs
        <5> QED BY <4>1, <5>1
      <4> QED BY <4>2, <4>3, <4>4
    <3>4. ~ BackedUp
      BY <1>8, JobMoves DEF BackedUp
    <3>5. ListRows \/ (\E rec \in Record : BackUp(rec)) \/ BackedUp
      BY <2>2, <3>1 DEF SwitchOnly, UndoRows, SetPrepared, SetHandshakeDone,
                        DialFails, HandshakeOver, JobAt
    <3> QED BY <1>1, <2>2, <3>2, <3>3, <3>4, <3>5 DEF BackupInv, JobAt, Passes
  <2>3. \/ job'["switch"] = job["switch"]
        \/ SwitchOnly /\ Passes("switch", SwitchEdge)
    BY <1>8, RequestMoves, NoJobIs
       DEF RowsInv, Stops, Opens, Passes, AnyEdge, Starts, TakesUp, SetStep
  <2> QED BY <2>1, <2>2, <2>3
<1> QED BY <1>4, <1>5, <1>6, <1>7, <1>8 DEF BackupInv, JobAt

-----------------------------------------------------------------------------
(* The rows *)

(* The key that rows are rewritten with is the one on disk, once rows are  *)
(* promised.                                                               *)
LEMMA KeyInMemory ==
    ASSUME RowsInv, promised # {}, master[Mover] # NoKey
    PROVE  master[Mover] = keyslot[Mover]
BY DEF RowsInv, SlotInv, Target, NoKey

LEMMA MovedStays ==
    ASSUME TypeOK, RowsInv, [Next]_vars, NEW r \in promised, Moved(r)
    PROVE  Moved(r)'
<1>1. r \in Row /\ promised # {}
  BY HistoryTypes DEF HistoryType
<1>2. keyslot'[Mover] = keyslot[Mover]
  BY <1>1, SlotStays
<1>3. "gone" \notin Key
  BY DEF Key, Home, Target
<1> QED BY <1>1, <1>2, <1>3, MainMoves, KeyInMemory DEF Moved, Stored

(* While a promised row has not moved, no request is where it could do     *)
(* without the backups, and those that swap work on the recorded run.      *)
LEMMA Loose ==
    ASSUME RowsInv, NEW r \in promised, ~ Moved(r)
    PROVE  /\ Recoverable(r)
           /\ job["switch"].at \notin Before
           /\ \A t \in Thread :
                 /\ job[t].at \notin Finishing
                 /\ job[t].at \in {"list backup", "swap"} => Swapping(t, r)
<1>1. Recoverable(r)
  BY DEF RowsInv, PromisedRowsRecoverable, Moved
<1>2. job["switch"].at \notin Before
  BY <1>1 DEF RowsInv, PhaseInv, Recoverable
<1> QED BY <1>1, <1>2 DEF RowsInv, MoveInv

LEMMA LooseSteps ==
    ASSUME RowsInv, NEW r \in promised, ~ Moved(r), NEW t \in Thread
    PROVE  job[t].at \notin SetStep \cup Finishing
<1>1. t = "switch" \/ job[t].at \in ResumeSteps
  BY DEF RowsInv, TurnInv, Thread
<1> QED BY <1>1, Loose DEF SetStep, Finishing, ResumeSteps, Before

LEMMA LooseStays ==
    ASSUME TypeOK, RowsInv, [Next]_vars, NEW r \in promised, ~ Moved(r)
    PROVE  UNCHANGED <<phase, backup>> /\ keyring \subseteq keyring'
<1> USE HistoryTypes
<1>1. job["switch"].at \notin Before
  BY Loose
<1>2. ~ SetHandshakeDone /\ ~ JobAt("switch", "set prepared")
  BY <1>1 DEF SetHandshakeDone, JobAt, Before
<1>3. ~ JobAt("switch", "undo rows") /\ ~ \E rec \in Record : BackUp(rec)
  BY <1>1 DEF BackUp, JobAt, Before
<1>4. \A t \in Thread : ~ JobAt(t, "set swapped") /\ ~ JobAt(t, "drop rows")
                          /\ ~ JobAt(t, "drop key") /\ job[t].at \notin SetStep
  BY LooseSteps DEF JobAt, Finishing
<1>5. phase' = phase
  BY <1>2, <1>4, PhaseMoves
<1>6. backup' = backup
  BY <1>3, <1>4, BackupMoves
<1>7. keyring \subseteq keyring'
  BY <1>4, KeyringMoves
<1> QED BY <1>5, <1>6, <1>7

(* What HandshakeDone promises, and to which rows.                         *)
LEMMA NewPromise ==
    ASSUME TypeOK, SetHandshakeDone, promised' # {}
    PROVE  /\ job["switch"].at = "set done" /\ job["resume"].at = "idle"
           /\ job'["switch"].at = "list backup" /\ job'["resume"] = job["resume"]
           /\ job'["switch"].run = job["switch"].run
           /\ phase'.step = "handshake_done" /\ phase'.run = job["switch"].run
           /\ UNCHANGED <<main, backup, keyring, setup>>
           /\ job["switch"].run \in keyring
           /\ \A r \in promised' : r \in Row /\ backup[r] = job["switch"].run
<1> USE HistoryTypes
<1>1. job["resume"].at = "idle" /\ job["switch"].run \in keyring
  BY DEF SetHandshakeDone, JobAt
<1>2. \A r \in promised' : r \in Row /\ backup[r] = job["switch"].run
  BY <1>1 DEF SetHandshakeDone, JobAt
<1>3. /\ job["switch"].at = "set done"
      /\ UNCHANGED <<main, backup, keyring, setup>>
  BY DEF SetHandshakeDone, JobAt, NotPairing, joinerVars, historyVars
<1>4. /\ job'["switch"].at = "list backup" /\ job'["resume"] = job["resume"]
      /\ job'["switch"].run = job["switch"].run
      /\ phase'.step = "handshake_done" /\ phase'.run = job["switch"].run
  BY DEF SetHandshakeDone, WriteFile, Jobs
<1> QED BY <1>1, <1>2, <1>3, <1>4

LEMMA PromiseKept ==
    ASSUME TypeOK, RowsInv, [Next]_vars
    PROVE  PromisedRowsRecoverable'
<1>1. SUFFICES ASSUME NEW r \in promised', ~ Moved(r)'
               PROVE  Recoverable(r)'
  BY DEF PromisedRowsRecoverable, Moved
<1>2. CASE r \in promised
  <2>1. ~ Moved(r)
    BY <1>1, <1>2, MovedStays
  <2> QED BY <1>2, <2>1, Loose, LooseStays DEF Recoverable
<1>3. CASE r \notin promised
  <2>1. SetHandshakeDone
    BY <1>3, PromiseMoves
  <2> QED BY <2>1, NewPromise DEF Recoverable
<1> QED BY <1>2, <1>3

LEMMA CommitKept ==
    ASSUME TypeOK, RowsInv, [Next]_vars
    PROVE  CommittedRowsMoved'
<1>1. SUFFICES ASSUME setup'[Mover] = Target, NEW r \in promised', main'[r] = Home
               PROVE  FALSE
  BY DEF CommittedRowsMoved
<1>2. Replaced
  BY <1>1, TurnedReplaced DEF Turned
<1>3. CASE r \in promised
  <2>1. main[r] = Home
    <3>1. r \in Row
      BY <1>3, HistoryTypes DEF HistoryType
    <3> QED BY <1>1, <1>2, <3>1, MainMoves DEF Replaced, Home
  <2>2. setup[Mover] # Target
    BY <1>3, <2>1 DEF RowsInv, CommittedRowsMoved
  <2>3. PICK t \in Thread : job[t].at = "commit"
    BY <1>1, <2>2, SetupMovesOn DEF JobAt
  <2>4. Moved(r)
    BY <1>3, <2>3, Loose DEF Finishing
  <2> QED BY <1>2, <2>1, <2>4 DEF Moved, Stored, Key, Replaced
<1>4. CASE r \notin promised
  <2>1. SetHandshakeDone
    BY <1>4, PromiseMoves
  <2>2. /\ Turned /\ job["switch"].at \in Preparing
        /\ main[r] = Home /\ r \in Row /\ backup[r] = job["switch"].run
    BY <1>1, <2>1, NewPromise DEF Turned, Preparing, Before
  <2> QED BY <2>2 DEF RowsInv, BackupInv
<1> QED BY <1>3, <1>4

(* A row that is not moved by a step of a swap stays on its list.          *)
LEMMA SwapGoesOn ==
    ASSUME TypeOK, RowsInv, [Next]_vars, NEW t \in Thread, NEW r \in promised,
           ~ Moved(r), ~ Moved(r)', Migrate(t), Passes(t, AnyEdge)
    PROVE  job'[t].at = "swap" /\ <<r, job'[t].run>> \in job'[t].left
<1> USE HistoryTypes
<1>1. r \in Row /\ Recoverable(r)
  BY Loose DEF HistoryType
<1>2. job[t].at \in {"list backup", "swap"} /\ Swapping(t, r)
  BY LooseSteps, Loose DEF Passes, AnyEdge, Finishing
<1>3. CASE ListBackup(t)
  <2>1. <<r, job[t].run>> \in BackupRecords
    BY <1>1, <1>2 DEF Recoverable, Swapping, BackupRecords, Record, HistoryType
  <2> QED BY <1>3, <2>1 DEF ListBackup, Jobs
<1>4. ASSUME NEW rec \in Record, Swap(t, rec)
      PROVE  job'[t].at = "swap" /\ <<r, job'[t].run>> \in job'[t].left
  <2>1. <<r, job[t].run>> \in job[t].left
    BY <1>2, <1>4 DEF Swapping, Swap
  <2>2. r # rec[1]
    <3>1. ASSUME r = rec[1] PROVE Moved(r)'
      <4>1. Stored(r)' => main'[r] = master[Mover] /\ master[Mover] # NoKey
        BY <1>1, <1>4, <3>1 DEF Swap, CanSwap, Stored, HistoryType
      <4>2. keyslot'[Mover] = keyslot[Mover]
        BY SlotStays
      <4> QED BY <4>1, <4>2, KeyInMemory DEF Moved
    <3> QED BY <3>1
  <2> QED BY <1>4, <2>1, <2>2 DEF Swap, JobAt, Jobs
<1>5. ~ AllSwapped(t)
  BY <1>2 DEF AllSwapped, Swapping
<1>6. ListBackup(t) \/ \E rec \in Record : Swap(t, rec)
  <2>1. job'[t].at # "idle"
    BY DEF Passes, AnyEdge
  <2>2. ~ SwapFails(t)
    <3>1. SwapFails(t) => job'[t] = NoJob
      BY JobMoves DEF SwapFails, Fails, StopSwap
    <3> QED BY <2>1, <3>1, NoJobIs
  <2>3. ~ job[t].open
    BY <1>2 DEF RowsInv, TurnInv, SetStep
  <2> QED BY <1>2, <1>5, <2>2, <2>3
       DEF Migrate, CreateFile, SetSwapped, SetNone, WriteFails, Commit,
           CommitFails, DropRows, DropKey, JobAt, SetStep
<1> QED BY <1>3, <1>4, <1>6

LEMMA MoveKept ==
    ASSUME TypeOK, RowsInv, [Next]_vars
    PROVE  MoveInv'
<1> USE HistoryTypes
<1>1. SUFFICES ASSUME NEW t \in Thread, NEW r \in promised', ~ Moved(r)'
               PROVE  /\ job'[t].at \notin Finishing
                      /\ job'[t].at \in {"list backup", "swap"} => Swapping(t, r)'
  BY DEF MoveInv
<1>2. CASE r \in promised
  <2>1. ~ Moved(r)
    BY <1>1, <1>2, MovedStays
  <2>2. /\ phase' = phase /\ phase.step = "handshake_done"
        /\ job["switch"].at \notin Before
    BY <1>2, <2>1, Loose, LooseStays DEF Recoverable
  <2>3. CASE job'[t] = job[t]
    BY <1>2, <2>1, <2>2, <2>3, Loose DEF Swapping, JobAt
  <2>4. CASE Stops(t)
    BY <2>4, NoJobIs DEF Stops, Finishing
  <2>5. CASE Migrate(t) /\ Passes(t, AnyEdge)
    <3>1. job'[t].at = "swap" /\ <<r, job'[t].run>> \in job'[t].left
      BY <1>1, <1>2, <2>1, <2>5, SwapGoesOn
    <3>2. job'[t].run = job[t].run /\ phase.run = job[t].run
      <4>1. job[t].at \in {"list backup", "swap"}
        BY <2>5, <3>1 DEF Passes, AnyEdge
      <4> QED BY <1>2, <2>1, <2>5, <4>1, Loose DEF Swapping, Passes
    <3> QED BY <2>2, <3>1, <3>2 DEF Swapping, JobAt, Finishing
  <2>6. ~ (t = "switch" /\ SwitchOnly /\ Passes(t, SwitchEdge)) /\ ~ Opens(t)
    BY <1>2, <2>1, <2>2, LooseSteps DEF Passes, SwitchEdge, Before, Opens
  <2>7. ~ Starts(t)
    <3>1. StartSwitch => phase.step = "none"
      BY DEF StartSwitch, NoPhase
    <3> QED BY <2>2, <3>1 DEF Starts
  <2>8. CASE TakesUp(t)
    BY <2>2, <2>8 DEF TakesUp, Swapping, JobAt, Finishing
  <2>9. TurnInv
    BY DEF RowsInv
  <2> QED BY <2>3, <2>4, <2>5, <2>6, <2>7, <2>8, <2>9, RequestMoves
<1>3. CASE r \notin promised
  <2>1. SetHandshakeDone
    BY <1>3, PromiseMoves
  <2> QED BY <2>1, NewPromise DEF Thread, Swapping, JobAt, Finishing
<1> QED BY <1>2, <1>3

-----------------------------------------------------------------------------
LEMMA NextKeepsRows ==
    ASSUME TypeOK, RowsInv, [Next]_vars
    PROVE  RowsInv'
BY SlotKept, TurnKept, PhaseKept, BackupKept, MoveKept, PromiseKept, CommitKept
   DEF RowsInv

LEMMA RowsHold == Spec => []RowsInv
<1>1. TypeOK /\ RowsInv /\ [Next]_vars => RowsInv'
  BY NextKeepsRows
<1> QED BY <1>1, InitRows, TypeCorrect, PTL DEF Spec

(***************************************************************************)
(* No history row that HandshakeDone promised is lost, however the switch, *)
(* the unlock requests beside it, crashes, locks and failures interleave   *)
(* from then on: it is deleted, or opens with the keyslot, or the state    *)
(* file leads the next unlock to a backup whose key is still in the        *)
(* keyring (switch_space/mod.rs phase_1 to phase_4, resume_pending).       *)
(***************************************************************************)
THEOREM PromisedRowsStay == Spec => []PromisedRowsRecoverable
<1>1. RowsInv => PromisedRowsRecoverable
  BY DEF RowsInv
<1> QED BY <1>1, RowsHold, PTL

(***************************************************************************)
(* A setup status that names the new space leaves no promised row under    *)
(* the old key, also when the commit is a resumed one, or both the switch  *)
(* and an unlock request commit (switch_space/mod.rs phase_3_swap,         *)
(* phase_4_commit, resume_pending).                                        *)
(***************************************************************************)
THEOREM CommitLeavesNone == Spec => []CommittedRowsMoved
<1>1. RowsInv => CommittedRowsMoved
  BY DEF RowsInv
<1> QED BY <1>1, RowsHold, PTL
=============================================================================
