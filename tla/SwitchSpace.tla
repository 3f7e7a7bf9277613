---------------------------- MODULE SwitchSpace ----------------------------
(***************************************************************************)
(* A device that already lives in a space joins the space of a sponsor and *)
(* takes its clipboard history along (usecases/setup/switch_space): the    *)
(* rows are encrypted again under a migration key, the pairing handshake   *)
(* of Pairing overwrites the device's keys, and the rows are then          *)
(* rewritten under the new key.  Progress is kept in a state file, from    *)
(* which an unlock request takes up a migration that was interrupted.      *)
(*                                                                         *)
(* Ciphertexts are the key they need; a file write is two steps, because   *)
(* the file is truncated before it is written.  Nothing keeps a switch and *)
(* the resume of an unlock request apart: they work on the same rows, key  *)
(* and file.                                                               *)
(***************************************************************************)
EXTENDS Pairing

CONSTANTS
    Mover,      \* the device that changes space
    Row,        \* its history rows
    MaxRuns     \* bound on the migrations ever started

ASSUME SwitchAssumption ==
    /\ Mover \in Joiner
    /\ Settled = {Mover}
    /\ MaxRuns \in Nat

VARIABLES
    main,       \* main[r]: the key the row r of the main table needs
    backup,     \* backup[r]: the run whose key the backup of r needs
    keyring,    \* the runs whose migration key is in the keyring
    phase,      \* the migration phase in the state file
    job,        \* job[t]: what the request t is doing
    runs,       \* the migrations started so far
    promised    \* history: the rows HandshakeDone was last written for

historyVars == <<main, backup, keyring>>
switchVars == <<historyVars, phase, job, runs, promised>>
vars == <<pairingVars, switchVars>>

Run == 1 .. MaxRuns
NoRun == 0

Thread == {"switch", "resume"}
SetStep == {"set prepared", "set done", "set swapped", "set none"}
JobStep == {"idle", "list rows", "back up", "undo rows", "handshake",
            "list backup", "swap", "commit", "drop rows", "drop key"}
           \cup SetStep
Phase == {"none", "prepared", "handshake_done", "swapped"}

Record == Row \X Run

NoPhase == [step |-> "none", run |-> NoRun]
NoJob == [at |-> "idle", run |-> NoRun, left |-> {}, open |-> FALSE]

SwitchTypeOK ==
    /\ main \in [Row -> Key \cup {"none", "gone"}]
    /\ backup \in [Row -> Run \cup {NoRun}]
    /\ keyring \subseteq Run
    /\ phase \in [step : Phase, run : Run \cup {NoRun}]
    /\ job \in [Thread -> [at : JobStep, run : Run \cup {NoRun},
                           left : SUBSET Record, open : BOOLEAN]]
    /\ runs \in 0 .. MaxRuns
    /\ promised \subseteq Row

TypeOK == PairingTypeOK /\ SwitchTypeOK

SwitchInit ==
    /\ main \in [Row -> {"none", Home}]
    /\ backup = [r \in Row |-> NoRun]
    /\ keyring = {}
    /\ phase = NoPhase
    /\ job = [t \in Thread |-> NoJob]
    /\ runs = 0
    /\ promised = {}

Init == PairingInit /\ SwitchInit

Stored(r) == main[r] \in Key

JobAt(t, step) == job[t].at = step
GoTo(t, step) == job' = [job EXCEPT ![t].at = step]
GiveUp(t) == job' = [job EXCEPT ![t] = NoJob]

Fails(t) == Fault /\ GiveUp(t) /\ UNCHANGED <<historyVars, phase, promised>>

NotPairing == UNCHANGED <<sponsorVars, wireVars, joinerVars>>

-----------------------------------------------------------------------------
(* Phase 1: back the rows up under a fresh migration key. *)

StartSwitch ==
    /\ setup[Mover] # NoKey
    /\ phase = NoPhase
    /\ JobAt("switch", "idle")
    /\ runs < MaxRuns
    /\ runs' = runs + 1
    /\ keyring' = keyring \cup {runs + 1}
    /\ job' = [job EXCEPT !["switch"] =
                  [NoJob EXCEPT !.at = "list rows", !.run = runs + 1]]
    /\ NotPairing
    /\ UNCHANGED <<main, backup, phase, promised, faults>>

ListRows ==
    /\ JobAt("switch", "list rows")
    /\ job' = [job EXCEPT !["switch"].at = "back up",
                          !["switch"].left =
                              {r \in Row : Stored(r)} \X {job["switch"].run}]
    /\ NotPairing
    /\ UNCHANGED <<historyVars, phase, runs, promised, faults>>

(* A row deleted meanwhile is skipped; one that the key in memory does not *)
(* open fails the phase.                                                   *)
BackUp(rec) ==
    /\ JobAt("switch", "back up")
    /\ rec \in job["switch"].left
    /\ \/ /\ Stored(rec[1]) => main[rec[1]] = master[Mover]
          /\ backup' = IF Stored(rec[1])
                       THEN [backup EXCEPT ![rec[1]] = rec[2]] ELSE backup
          /\ job' = [job EXCEPT !["switch"].left = @ \ {rec}]
          /\ NoFault
       \/ /\ Stored(rec[1]) /\ main[rec[1]] # master[Mover]
          /\ GoTo("switch", "undo rows")
          /\ NoFault
          /\ UNCHANGED backup
       \/ /\ Fault
          /\ GoTo("switch", "undo rows")
          /\ UNCHANGED backup
    /\ NotPairing
    /\ UNCHANGED <<main, keyring, phase, runs, promised>>

BackedUp ==
    /\ JobAt("switch", "back up")
    /\ job["switch"].left = {}
    /\ GoTo("switch", "set prepared")
    /\ NotPairing
    /\ UNCHANGED <<historyVars, phase, runs, promised, faults>>

Dropped == backup' = [r \in Row |-> NoRun] /\ NoFault
Kept == Fault /\ UNCHANGED backup

(* cleanup_after_phase1_failure leaves the migration key behind.           *)
UndoRows ==
    /\ JobAt("switch", "undo rows")
    /\ Dropped \/ Kept
    /\ GiveUp("switch")
    /\ NotPairing
    /\ UNCHANGED <<main, keyring, phase, runs, promised>>

-----------------------------------------------------------------------------
(* set_current creates the file, which truncates it, and then writes.      *)

CreateFile(t) ==
    /\ job[t].at \in SetStep
    /\ ~ job[t].open
    /\ \/ /\ phase' = NoPhase
          /\ job' = [job EXCEPT ![t].open = TRUE]
          /\ NoFault
          /\ UNCHANGED <<historyVars, promised>>
       \/ Fails(t)
    /\ NotPairing
    /\ UNCHANGED runs

WriteFile(t, step, after) ==
    /\ job[t].open
    /\ phase' = [step |-> step, run |-> job[t].run]
    /\ job' = [job EXCEPT ![t].at = after, ![t].open = FALSE]

SetPrepared ==
    /\ JobAt("switch", "set prepared")
    /\ WriteFile("switch", "prepared", "handshake")
    /\ NotPairing
    /\ UNCHANGED <<historyVars, runs, promised, faults>>

(* HandshakeDone is a promise to the rows backed up for its migration; not *)
(* when an unlock request is at work, or has been and has taken the key:   *)
(* it took the migration up as Prepared and gives it up beside the switch. *)
SetHandshakeDone ==
    /\ JobAt("switch", "set done")
    /\ WriteFile("switch", "handshake_done", "list backup")
    /\ promised' = IF JobAt("resume", "idle") /\ job["switch"].run \in keyring
                   THEN {r \in Row : backup[r] = job["switch"].run} ELSE {}
    /\ NotPairing
    /\ UNCHANGED <<historyVars, runs, faults>>

SetSwapped(t) ==
    /\ JobAt(t, "set swapped")
    /\ WriteFile(t, "swapped", "commit")
    /\ NotPairing
    /\ UNCHANGED <<historyVars, runs, promised, faults>>

SetNone(t) ==
    /\ JobAt(t, "set none")
    /\ job[t].open
    /\ GiveUp(t)
    /\ NotPairing
    /\ UNCHANGED <<historyVars, phase, runs, promised, faults>>

WriteFails(t) ==
    /\ job[t].open
    /\ Fails(t)
    /\ NotPairing
    /\ UNCHANGED runs

-----------------------------------------------------------------------------
(* Phase 2: the handshake, as any joiner runs it. *)

JoinSpace(c) ==
    /\ JobAt("switch", "handshake")
    /\ joiner[Mover] = Idle
    /\ Dial(Mover, c)
    /\ promised' = {}
    /\ UNCHANGED <<historyVars, phase, job, runs>>

DialFails ==
    /\ JobAt("switch", "handshake")
    /\ joiner[Mover] = Idle
    /\ GoTo("switch", "drop rows")
    /\ NotPairing
    /\ UNCHANGED <<historyVars, phase, runs, promised, faults>>

(* phase_2 is over: with both records of the sponsor stored, or failed.    *)
HandshakeOver ==
    /\ JobAt("switch", "handshake")
    /\ joiner[Mover].at \in {"setup", "failed"}
    /\ joiner' = [joiner EXCEPT ![Mover] = Idle]
    /\ GoTo("switch", IF joiner[Mover].at = "setup"
                      THEN "set done" ELSE "drop rows")
    /\ UNCHANGED <<sponsorVars, wireVars, kek, keyslot, master, setup, faults,
                   historyVars, phase, runs, promised>>

-----------------------------------------------------------------------------
(* Phase 3: rewrite the rows from their backups, under the key in memory.  *)

(* Defect: rows without a backup are listed too.                           *)
AllRecords == {<<r, backup[r]>> : r \in Row}

BackupRecords == {rec \in Record : backup[rec[1]] = rec[2]}

ListBackup(t) ==
    /\ JobAt(t, "list backup")
    /\ job' = [job EXCEPT ![t].at = "swap",
                          ![t].left = BackupRecords]
    /\ NotPairing
    /\ UNCHANGED <<historyVars, phase, runs, promised, faults>>

CanSwap(t, rec) ==
    /\ rec[2] = job[t].run
    /\ rec[2] \in keyring
    /\ master[Mover] # NoKey

Swap(t, rec) ==
    /\ JobAt(t, "swap")
    /\ rec \in job[t].left
    /\ CanSwap(t, rec)
    /\ main' = IF Stored(rec[1])
               THEN [main EXCEPT ![rec[1]] = master[Mover]] ELSE main
    /\ job' = [job EXCEPT ![t].left = @ \ {rec}]
    /\ NotPairing
    /\ UNCHANGED <<backup, keyring, phase, runs, promised, faults>>

(* Defect: the rest of the rows are passed over.                           *)
SkipRows(t) == GoTo(t, "set swapped")

StopSwap(t) == GiveUp(t)

(* The phase stays as it is, for the next unlock.                          *)
SwapFails(t) ==
    /\ JobAt(t, "swap")
    /\ \/ Fails(t)
       \/ /\ \E rec \in job[t].left : ~ CanSwap(t, rec)
          /\ StopSwap(t)
          /\ UNCHANGED <<historyVars, phase, promised, faults>>
    /\ NotPairing
    /\ UNCHANGED runs

AllSwapped(t) ==
    /\ JobAt(t, "swap")
    /\ job[t].left = {}
    /\ GoTo(t, "set swapped")
    /\ NotPairing
    /\ UNCHANGED <<historyVars, phase, runs, promised, faults>>

-----------------------------------------------------------------------------
(* Phase 4, whose last steps are also how phase 2 cleans up.  A failure to *)
(* drop the rows or the key is only logged.                                *)

Commit(t) ==
    /\ JobAt(t, "commit")
    /\ setup' = [setup EXCEPT ![Mover] = Target]
    /\ GoTo(t, "drop rows")
    /\ UNCHANGED <<sponsorVars, wireVars, joiner, kek, keyslot, master,
                   historyVars, phase, runs, promised, faults>>

CommitFails(t) ==
    /\ JobAt(t, "commit")
    /\ Fails(t)
    /\ NotPairing
    /\ UNCHANGED runs

DropRows(t) ==
    /\ JobAt(t, "drop rows")
    /\ Dropped \/ Kept
    /\ GoTo(t, "drop key")
    /\ NotPairing
    /\ UNCHANGED <<main, keyring, phase, runs, promised>>

DropKey(t) ==
    /\ JobAt(t, "drop key")
    /\ \/ keyring' = keyring \ {job[t].run} /\ NoFault
       \/ Fault /\ UNCHANGED keyring
    /\ GoTo(t, "set none")
    /\ NotPairing
    /\ UNCHANGED <<main, backup, phase, runs, promised>>

-----------------------------------------------------------------------------
(* resume_pending, which every successful unlock request calls. *)

(* Defect: a migration that passed its handshake is given up as well.      *)
ResumeByAbandoning ==
    [prepared |-> "drop rows", handshake_done |-> "drop rows",
     swapped |-> "commit"]

ResumeAt ==
    [prepared |-> "drop rows", handshake_done |-> "list backup",
     swapped |-> "commit"]

(* Defect: only the clean-ups are taken up again.                          *)
CleanupSteps == {"prepared", "swapped"}

InterruptedSteps == {"prepared", "handshake_done", "swapped"}

ResumePending ==
    /\ JobAt("resume", "idle")
    /\ master[Mover] # NoKey
    /\ phase.step \in InterruptedSteps
    /\ job' = [job EXCEPT !["resume"] =
                  [NoJob EXCEPT !.at = ResumeAt[phase.step], !.run = phase.run]]
    /\ NotPairing
    /\ UNCHANGED <<historyVars, phase, runs, promised, faults>>

-----------------------------------------------------------------------------
(* The device. *)

(* unlock refreshes the keyring entry, unless this process wrote it.       *)
Unlock ==
    /\ keyslot[Mover] # NoKey
    /\ master' = [master EXCEPT ![Mover] = keyslot[Mover]]
    /\ kek' = IF joiner[Mover].at = "keyslot" THEN kek
              ELSE [kek EXCEPT ![Mover] = keyslot[Mover]]
    /\ UNCHANGED <<sponsorVars, wireVars, joiner, keyslot, setup, switchVars,
                   faults>>

Lock ==
    /\ Fault
    /\ master' = [master EXCEPT ![Mover] = NoKey]
    /\ UNCHANGED <<sponsorVars, wireVars, joiner, kek, keyslot, setup,
                   switchVars>>

MoverCrash ==
    /\ Fault
    /\ HangUp(Mover)
    /\ master' = [master EXCEPT ![Mover] = NoKey]
    /\ job' = [t \in Thread |-> NoJob]
    /\ UNCHANGED <<sponsorVars, dialled, kek, keyslot, setup, historyVars,
                   phase, runs, promised>>

CaptureRow(r) ==
    /\ main[r] = "none"
    /\ master[Mover] # NoKey
    /\ main' = [main EXCEPT ![r] = master[Mover]]
    /\ NotPairing
    /\ UNCHANGED <<backup, keyring, phase, job, runs, promised, faults>>

DeleteRow(r) ==
    /\ Stored(r)
    /\ main' = [main EXCEPT ![r] = "gone"]
    /\ NotPairing
    /\ UNCHANGED <<backup, keyring, phase, job, runs, promised, faults>>

-----------------------------------------------------------------------------
Migrate(t) ==
    \/ CreateFile(t) \/ SetSwapped(t) \/ SetNone(t) \/ WriteFails(t)
    \/ ListBackup(t) \/ (\E rec \in Record : Swap(t, rec)) \/ SwapFails(t)
    \/ AllSwapped(t) \/ Commit(t) \/ CommitFails(t) \/ DropRows(t) \/ DropKey(t)

Switch ==
    \/ ListRows \/ (\E rec \in Record : BackUp(rec)) \/ BackedUp \/ UndoRows
    \/ SetPrepared \/ SetHandshakeDone \/ DialFails \/ HandshakeOver
    \/ Migrate("switch")

Device ==
    \/ Unlock \/ Lock \/ MoverCrash
    \/ \E r \in Row : CaptureRow(r) \/ DeleteRow(r)

Next ==
    \/ PairingNext /\ UNCHANGED switchVars
    \/ StartSwitch
    \/ \E c \in Code : JoinSpace(c)
    \/ Switch
    \/ ResumePending
    \/ Migrate("resume")
    \/ Device

Spec == Init /\ [][Next]_vars

(* Every event loop and task runs, both handshake timeouts fire, and the   *)
(* daemon is unlocked again after it was restarted or locked.              *)
Fairness ==
    /\ WF_vars(SponsorLoop /\ UNCHANGED switchVars)
    /\ \A s \in Session : WF_vars(FireTimeout(s) /\ UNCHANGED switchVars)
    /\ \A j \in Joiner : WF_vars(JoinerHandshake(j) /\ UNCHANGED switchVars)
    /\ WF_vars(Switch)
    /\ WF_vars(Migrate("resume"))
    /\ WF_vars(ResumePending)
    /\ WF_vars(Unlock)

FairSpec == Spec /\ Fairness

-----------------------------------------------------------------------------
(* What must hold. *)

Promise == INSTANCE Membership
    WITH Joiner <- Joiner, members <- members, trusted <- trusted,
         joined <- {j \in Joiner : setup[j] = Target}

(* A device makes the sponsor's space its own only after the sponsor has   *)
(* recorded it as a member and then as a trusted peer, whatever is lost or *)
(* times out in between, and for a device that changes space also across   *)
(* crashes of its migration.                                               *)
ImplementsMembership == Promise!MembershipSpec

(* An invitation serves one session: of all the sessions that dial the     *)
(* same code, around expiry, cancellation and failed offers, at most one   *)
(* is ever sent the keyslot.                                               *)
InvitationServesOne ==
    \A s, t \in offered : dialled[s].code = dialled[t].code => s = t

(* Once HandshakeDone is on disk, each row it was written for is deleted,  *)
(* or opens with the keyslot, or has a backup under a key that is still in *)
(* the keyring and that the recorded phase leads a restart to, whatever    *)
(* unlock requests then work on the migration beside the switch.  Nothing  *)
(* is promised by a HandshakeDone written when an unlock request was at    *)
(* work already, or had given the migration up.                            *)
Recoverable(r) ==
    /\ phase.step = "handshake_done"
    /\ backup[r] = phase.run
    /\ phase.run \in keyring

PromisedRowsRecoverable ==
    \A r \in promised :
        Stored(r) => main[r] = keyslot[Mover] \/ Recoverable(r)

(* The setup status names the new space only when no row HandshakeDone     *)
(* promised to move (see SetHandshakeDone) is left under the old key, also *)
(* when the switch and an unlock request both commit.                      *)
CommittedRowsMoved ==
    setup[Mover] = Target => \A r \in promised : main[r] # Home

(* resume_pending may give a Prepared migration up because the old key is  *)
(* still in place: no row it has a backup of needs that backup.            *)
AbandonLosesNothing ==
    JobAt("resume", "drop rows") /\ phase.step = "prepared" =>
        \A r \in Row : backup[r] # NoRun /\ Stored(r) => main[r] = keyslot[Mover]

(* Every handshake ends on both sides: the joiner returns to its caller,   *)
(* and the sponsor releases the context it parked.                         *)
HandshakeEnds ==
    /\ \A j \in Joiner : []<>(joiner[j].at \in {"idle", "failed"})
    /\ \A s \in Session : []<>(s \notin parked)

(* A migration that has reached HandshakeDone, with its backups and its    *)
(* key there and no unlock request at work, is finished by the switch or   *)
(* by some later unlock: the promised rows have all moved and the state    *)
(* file is clear.                                                          *)
Resumable ==
    /\ phase.step \in {"handshake_done", "swapped"}
    /\ phase.run \in keyring
    /\ \A r \in Row : backup[r] \in {NoRun, phase.run}
    /\ JobAt("resume", "idle")
    /\ keyslot[Mover] = Target

MigrationFinishes ==
    Resumable ~> /\ phase = NoPhase
                 /\ \A r \in promised : main[r] # Home
=============================================================================
