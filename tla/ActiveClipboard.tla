--------------------------- MODULE ActiveClipboard ---------------------------
(***************************************************************************)
(* Convergence of the active clipboard across the devices of a space.      *)
(*                                                                         *)
(* Every device persists a register naming the content that should be on   *)
(* its OS clipboard.  Four activities change it, each a sequence of steps  *)
(* that the others interleave with:                                        *)
(*                                                                         *)
(*   local copy    watcher event -> capture -> register -> content frames  *)
(*   restore       OS write -> register -> debounced state broadcast       *)
(*   content frame capture -> register -> detached OS write                *)
(*   state frame   checks -> (pull) -> detached OS write -> register ->    *)
(*                 relay                                                   *)
(*                                                                         *)
(* A device may crash, restart (which reconciles the register while the    *)
(* space is still locked), be locked and unlocked; frames may be lost and  *)
(* are not ordered.  A worker re-sends the register to a peer each time    *)
(* presence reports it online.                                             *)
(***************************************************************************)
EXTENDS Activation, Sequences, FiniteSets

CONSTANTS
    Link,           \* <<d, p>>: d has p's address and neither send gate nor
                    \* receive gate stands between them
    Forgettable,    \* content the user may delete from the history
    FutureTolerance,\* FUTURE_TIMESTAMP_TOLERANCE_MS
    CoarseClock,    \* TRUE: a device may read the same time twice
    MaxTime,        \* bound: no clock ticks first beyond this value
    MaxOps,         \* bound: user operations (copy, restore, delete, lock)
    MaxFaults       \* bound: crashes, losses, failed writes and advances

ASSUME LinkAssumption == Link \subseteq Device \X Device
ASSUME ForgettableAssumption == Forgettable \subseteq Hash
ASSUME BoundAssumption ==
    /\ FutureTolerance \in Nat
    /\ CoarseClock \in BOOLEAN
    /\ MaxTime \in Nat
    /\ MaxOps \in Nat
    /\ MaxFaults \in Nat

VARIABLES
    clock,          \* clock[d]: wall clock of d
    mode,           \* mode[d]: "down", "locked" or "ready" (space unlocked)
    reg,            \* reg[d]: persisted register
    os,             \* os[d]: content of the OS clipboard
    held,           \* held[d]: content whose entry d stores in full
    observed,       \* observed[d]: local copies read by the watcher, unhandled
    restoring,      \* restoring[d]: content restored to the OS, not registered
    offer,          \* offer[d]: latest restore in the debounced broadcaster
    pulling,        \* pulling[d]: state frame whose content d is pulling
    tasks,          \* tasks[d]: clipboard writes of inbound frames under way
    net,            \* frames in flight
    claims,         \* history: every activation made by some device
    forgotten,      \* history: forgotten[d], content d has deleted
    ops,            \* user operations so far
    faults          \* faults so far

vars == <<clock, mode, reg, os, held, observed, restoring, offer, pulling,
          tasks, net, claims, forgotten, ops, faults>>

NoPull == [from |-> NoHash, act |-> NoActivation]

(***************************************************************************)
(* A state frame (0xC3) carries a register value.  A content frame carries *)
(* the content with the time the sender's watcher read it; the activation  *)
(* in it is the one its receiver will claim on the sender's behalf.        *)
(***************************************************************************)
Message == [type : {"state", "content"}, from : Device, to : Device,
            act : Activation]

(***************************************************************************)
(* converge: state frame, OS write then register then relay;               *)
(* resurface: content frame of held content, OS write then register;       *)
(* publish: content frame of new content, OS write only.                   *)
(***************************************************************************)
Task == [kind : {"converge", "resurface", "publish"},
         stage : {"write", "advance"}, from : Device, act : Activation]

TypeOK ==
    /\ clock \in [Device -> Nat]
    /\ mode \in [Device -> {"down", "locked", "ready"}]
    /\ reg \in [Device -> Register]
    /\ os \in [Device -> Hash \cup {NoHash}]
    /\ held \in [Device -> SUBSET Hash]
    /\ observed \in [Device -> Seq(Activation)]
    /\ restoring \in [Device -> SUBSET Hash]
    /\ offer \in [Device -> Register]
    /\ pulling \in [Device -> [from : Device, act : Activation] \cup {NoPull}]
    /\ tasks \in [Device -> SUBSET Task]
    /\ net \in SUBSET Message
    /\ claims \in SUBSET Activation
    /\ forgotten \in [Device -> SUBSET Hash]
    /\ ops \in Nat
    /\ faults \in Nat

-----------------------------------------------------------------------------

Up(d) == mode[d] # "down"
Unlocked(d) == mode[d] = "ready"
Peers(d) == {p \in Device \ {d} : <<d, p>> \in Link}

(* Rebuilding a snapshot decrypts its representations. *)
CanReconstruct(d, h) == Unlocked(d) /\ h \in held[d]

(* Defect: the activator is not left out of the fan-out. *)
StateFramesEchoed(d, targets, a) ==
    [type : {"state"}, from : {d}, to : targets, act : {a}]

(* Defect: only the activator itself ever sends a state. *)
StateFramesFromActivator(d, targets, a) ==
    [type : {"state"}, from : {d} \cap {a.by}, to : targets \ {a.by},
     act : {a}]

StateFrames(d, targets, a) ==
    [type : {"state"}, from : {d}, to : targets \ {a.by}, act : {a}]

ContentFrames(d, targets, a) ==
    [type : {"content"}, from : {d}, to : targets, act : {a}]

(* A user operation, and a fault, within their bounds. *)
UserOp == ops < MaxOps /\ ops' = ops + 1
Fault == faults < MaxFaults /\ faults' = faults + 1

(* Defect: the register is set without the compare-and-set. *)
AdvanceBlindly(d, a) ==
    /\ reg' = [reg EXCEPT ![d] = a]
    /\ UNCHANGED faults

(***************************************************************************)
(* AdvanceActiveClipboardPort::advance.  It errs when the database does    *)
(* (a fault), or when it must seal the mobile reference and the space has  *)
(* been locked meanwhile.                                                  *)
(***************************************************************************)
AdvanceRegister(d, a) ==
    /\ reg' = [reg EXCEPT ![d] = Advance(@, a)]
    /\ UNCHANGED faults

AdvanceFails(d) ==
    /\ UNCHANGED reg
    /\ \/ mode[d] = "locked" /\ UNCHANGED faults
       \/ Fault

(* Defect: the entry is left to be stored later. *)
PersistLater(d, h) == UNCHANGED held

(* An entry for h is stored, or found stored already. *)
Persist(d, h) == held' = [held EXCEPT ![d] = @ \cup {h}]

Init ==
    /\ clock \in [Device -> 0 .. MaxTime]
    /\ mode = [d \in Device |-> "ready"]
    /\ reg = [d \in Device |-> NoActivation]
    /\ os = [d \in Device |-> NoHash]
    /\ held = [d \in Device |-> {}]
    /\ observed = [d \in Device |-> <<>>]
    /\ restoring = [d \in Device |-> {}]
    /\ offer = [d \in Device |-> NoActivation]
    /\ pulling = [d \in Device |-> NoPull]
    /\ tasks = [d \in Device |-> {}]
    /\ net = {}
    /\ claims = {}
    /\ forgotten = [d \in Device |-> {}]
    /\ ops = 0
    /\ faults = 0

-----------------------------------------------------------------------------
(* Local copies and restores *)

(* A clock ticks up to MaxTime, and beyond that to catch up with another. *)
Tick(d) ==
    /\ clock[d] < MaxTime \/ \E p \in Device : clock[d] < clock[p]
    /\ clock' = [clock EXCEPT ![d] = @ + 1]
    /\ UNCHANGED <<mode, reg, os, held, observed, restoring, offer, pulling,
                   tasks, net, claims, forgotten, ops, faults>>

(* Unless the clock is coarse, no two readings of it are equal. *)
ReadClock(d) ==
    clock' = IF CoarseClock THEN clock ELSE [clock EXCEPT ![d] = @ + 1]

(***************************************************************************)
(* The user copies h.  The watcher reads it with the current time; while   *)
(* the daemon is down nobody notices.                                      *)
(***************************************************************************)
UserCopy(d, h) ==
    /\ UserOp
    /\ os' = [os EXCEPT ![d] = h]
    /\ LET a == [hash |-> h, at |-> clock[d], by |-> d] IN
       IF Up(d)
       THEN /\ observed' = [observed EXCEPT ![d] = Append(@, a)]
            /\ claims' = claims \cup {a}
            /\ ReadClock(d)
       ELSE UNCHANGED <<observed, claims, clock>>
    /\ UNCHANGED <<mode, reg, held, restoring, offer, pulling, tasks,
                   net, forgotten, faults>>

(* Defect: content and device id swapped in the constructor call. *)
StampSwapped(d, h) == [hash |-> d, at |-> clock[d], by |-> h]

(***************************************************************************)
(* advance_local: stamp (now, this device), try the register.  The stamp   *)
(* is the activation of record whether or not the register took it.        *)
(***************************************************************************)
Stamp(d, h) == [hash |-> h, at |-> clock[d], by |-> d]

AdvanceLocal(d, a) ==
    /\ ReadClock(d)
    /\ claims' = claims \cup {a}
    /\ AdvanceRegister(d, a) \/ AdvanceFails(d)

(***************************************************************************)
(* on_clipboard_changed for a genuine local copy: persist the entry,       *)
(* advance the register, dispatch the content to every peer.  A locked     *)
(* device can neither encrypt a new entry nor a frame, but it still        *)
(* resurfaces an entry it has.                                             *)
(***************************************************************************)
HandleCapture(d) ==
    /\ Up(d)
    /\ observed[d] # <<>>
    /\ observed' = [observed EXCEPT ![d] = Tail(@)]
    /\ LET seen == Head(observed[d]) IN
       /\ Unlocked(d) \/ seen.hash \in held[d]
       /\ Persist(d, seen.hash)
       /\ AdvanceLocal(d, Stamp(d, seen.hash))
       /\ net' = IF Unlocked(d)
                 THEN net \cup ContentFrames(d, Peers(d), seen)
                 ELSE net
    /\ UNCHANGED <<mode, os, restoring, offer, pulling, tasks, forgotten, ops>>

(***************************************************************************)
(* The capture is lost: the gate is closed, or the locked session cannot   *)
(* encrypt the entry; on an unlocked device this takes a storage fault.    *)
(***************************************************************************)
DropCapture(d) ==
    /\ Up(d)
    /\ observed[d] # <<>>
    /\ observed' = [observed EXCEPT ![d] = Tail(@)]
    /\ \/ mode[d] = "locked" /\ UNCHANGED faults
       \/ Unlocked(d) /\ Fault
    /\ UNCHANGED <<clock, mode, reg, os, held, restoring, offer, pulling,
                   tasks, net, claims, forgotten, ops>>

(***************************************************************************)
(* The user picks a history entry.  The OS write succeeds; the register    *)
(* is advanced in a later step of the same request.                        *)
(***************************************************************************)
RestoreWrite(d, h) ==
    /\ UserOp
    /\ CanReconstruct(d, h)
    /\ os' = [os EXCEPT ![d] = h]
    /\ restoring' = [restoring EXCEPT ![d] = @ \cup {h}]
    /\ UNCHANGED <<clock, mode, reg, held, observed, offer, pulling, tasks,
                   net, claims, forgotten, faults>>

(* The entry's hash is looked up, the register advanced, the broadcast offered;
   a deleted entry ends the request here. *)
RestoreAdvance(d, h) ==
    /\ Up(d)
    /\ h \in restoring[d]
    /\ restoring' = [restoring EXCEPT ![d] = @ \ {h}]
    /\ IF h \in held[d]
       THEN /\ AdvanceLocal(d, Stamp(d, h))
            /\ offer' = [offer EXCEPT ![d] = Stamp(d, h)]
       ELSE UNCHANGED <<clock, claims, reg, faults, offer>>
    /\ UNCHANGED <<mode, os, held, observed, pulling, tasks, net, forgotten,
                   ops>>

(* The debounced worker broadcasts the latest offer, unless sync_on_restore
   is off by then. *)
RestoreBroadcast(d) ==
    /\ Up(d)
    /\ offer[d] # NoActivation
    /\ offer' = [offer EXCEPT ![d] = NoActivation]
    /\ \/ net' = net \cup StateFrames(d, Peers(d), offer[d])
       \/ UNCHANGED net
    /\ UNCHANGED <<clock, mode, reg, os, held, observed, restoring, pulling,
                   tasks, claims, forgotten, ops, faults>>

(* The user deletes an entry; the register is not consulted. *)
Forget(d, h) ==
    /\ UserOp
    /\ Up(d)
    /\ h \in held[d] \cap Forgettable
    /\ held' = [held EXCEPT ![d] = @ \ {h}]
    /\ forgotten' = [forgotten EXCEPT ![d] = @ \cup {h}]
    /\ UNCHANGED <<clock, mode, reg, os, observed, restoring, offer, pulling,
                   tasks, net, claims, faults>>

-----------------------------------------------------------------------------
(* Inbound state frames *)

Converge(d, from, a) ==
    tasks' = [tasks EXCEPT ![d] = @ \cup
                {[kind |-> "converge", stage |-> "write", from |-> from,
                  act |-> a]}]

(* Defect: no comparison with the register. *)
AdmitsAgain(d, a) ==
    /\ Unlocked(d)
    /\ a.at <= clock[d] + FutureTolerance

(* Defect: no guard against a far future. *)
AdmitsFuture(d, a) ==
    /\ Unlocked(d)
    /\ reg[d] # NoActivation =>
         ~ IsSameActivation(a, reg[d]) /\ Supersedes(a, reg[d])

(* Defect: an empty register is taken to win every comparison. *)
AdmitsOnlyOverRow(d, a) ==
    /\ Unlocked(d)
    /\ reg[d] # NoActivation
    /\ ~ IsSameActivation(a, reg[d]) /\ Supersedes(a, reg[d])
    /\ a.at <= clock[d] + FutureTolerance

(***************************************************************************)
(* The checks of handle_one before any content is looked at: unlocked, not *)
(* known and newer than the register, not from the far future.             *)
(***************************************************************************)
Admits(d, a) ==
    /\ Unlocked(d)
    /\ reg[d] # NoActivation =>
         ~ IsSameActivation(a, reg[d]) /\ Supersedes(a, reg[d])
    /\ a.at <= clock[d] + FutureTolerance

(***************************************************************************)
(* The inbound loop handles one frame at a time, a pull included.  The OS  *)
(* write is detached, so the next frame may overtake it.                   *)
(***************************************************************************)
ReceiveState(d, m) ==
    /\ m.type = "state" /\ m.to = d
    /\ Up(d)
    /\ pulling[d] = NoPull
    /\ net' = net \ {m}
    /\ IF ~ Admits(d, m.act)
       THEN UNCHANGED <<tasks, pulling>>
       ELSE IF m.act.hash \in held[d]
       THEN Converge(d, m.from, m.act) /\ UNCHANGED pulling
       ELSE /\ pulling' = [pulling EXCEPT ![d] =
                             [from |-> m.from, act |-> m.act]]
            /\ UNCHANGED tasks
    /\ UNCHANGED <<clock, mode, reg, os, held, observed, restoring, offer,
                   claims, forgotten, ops, faults>>

(***************************************************************************)
(* The holder rebuilds and encrypts the content, the puller decrypts and   *)
(* stores it: both spaces must be unlocked.  The register is not consulted *)
(* again before the OS write.                                              *)
(***************************************************************************)
CanPull(d) ==
    /\ Unlocked(d)
    /\ CanReconstruct(pulling[d].from, pulling[d].act.hash)

PullSucceeds(d) ==
    /\ pulling[d] # NoPull
    /\ CanPull(d)
    /\ pulling' = [pulling EXCEPT ![d] = NoPull]
    /\ Persist(d, pulling[d].act.hash)
    /\ Converge(d, pulling[d].from, pulling[d].act)
    /\ UNCHANGED <<clock, mode, reg, os, observed, restoring, offer, net,
                   claims, forgotten, ops, faults>>

(* The holder cannot serve, or the 10s deadline passes (a fault). *)
PullFails(d) ==
    /\ Up(d)
    /\ pulling[d] # NoPull
    /\ pulling' = [pulling EXCEPT ![d] = NoPull]
    /\ IF CanPull(d) THEN Fault ELSE UNCHANGED faults
    /\ UNCHANGED <<clock, mode, reg, os, held, observed, restoring, offer,
                   tasks, net, claims, forgotten, ops>>

-----------------------------------------------------------------------------
(* Inbound content frames *)

(* The content loop awaits the OS write of a resurfaced entry. *)
ContentLoopBusy(d) == \E t \in tasks[d] : t.kind = "resurface"

(* Defect: the receiver attributes the activation to itself. *)
ClaimedByReceiver(d, m) == [m.act EXCEPT !.by = d]

(* The activation claimed for a content frame: its sender's, at the time its
   sender read the content. *)
Claimed(d, m) == m.act

ContentTask(kind, d, m) ==
    [kind |-> kind, stage |-> "write", from |-> m.from, act |-> Claimed(d, m)]

(***************************************************************************)
(* New content: persist it, advance the register at once with the sender's *)
(* claim - no test against the local clock - and write the OS clipboard    *)
(* later, whatever the register answered.                                  *)
(***************************************************************************)
ReceiveNewContent(d, m) ==
    /\ m.type = "content" /\ m.to = d
    /\ Unlocked(d) /\ ~ ContentLoopBusy(d)
    /\ m.act.hash \notin held[d]
    /\ net' = net \ {m}
    /\ Persist(d, m.act.hash)
    /\ AdvanceRegister(d, Claimed(d, m)) \/ AdvanceFails(d)
    /\ tasks' = [tasks EXCEPT ![d] = @ \cup {ContentTask("publish", d, m)}]
    /\ UNCHANGED <<clock, mode, os, observed, restoring, offer, pulling,
                   claims, forgotten, ops>>

(* Content held in full: write the OS clipboard first, register after. *)
ReceiveHeldContent(d, m) ==
    /\ m.type = "content" /\ m.to = d
    /\ Unlocked(d) /\ ~ ContentLoopBusy(d)
    /\ m.act.hash \in held[d]
    /\ net' = net \ {m}
    /\ tasks' = [tasks EXCEPT ![d] = @ \cup {ContentTask("resurface", d, m)}]
    /\ UNCHANGED <<clock, mode, reg, os, held, observed, restoring, offer,
                   pulling, claims, forgotten, ops, faults>>

(***************************************************************************)
(* A content frame without effect: the session is locked and it cannot be  *)
(* decrypted, or it repeats content applied less than 200ms ago.           *)
(***************************************************************************)
IgnoreContent(d, m) ==
    /\ m.type = "content" /\ m.to = d
    /\ Up(d) /\ ~ ContentLoopBusy(d)
    /\ mode[d] = "locked" \/ m.act.hash \in held[d]
    /\ net' = net \ {m}
    /\ UNCHANGED <<clock, mode, reg, os, held, observed, restoring, offer,
                   pulling, tasks, claims, forgotten, ops, faults>>

-----------------------------------------------------------------------------
(* The clipboard writes those frames start *)

(* coordinator.write succeeds: the OS clipboard holds the content. *)
Written(d, t) == t.act.hash

WriteOs(d, t) ==
    /\ Up(d)
    /\ t.stage = "write"
    /\ os' = [os EXCEPT ![d] = Written(d, t)]
    /\ tasks' = [tasks EXCEPT ![d] = (@ \ {t}) \cup
                   IF t.kind = "publish" THEN {}
                   ELSE {[t EXCEPT !.stage = "advance"]}]
    /\ UNCHANGED <<clock, mode, reg, held, observed, restoring, offer,
                   pulling, net, claims, forgotten, ops, faults>>

(***************************************************************************)
(* A failed OS write ends its task: nothing is registered or relayed.      *)
(***************************************************************************)
WriteOsFails(d, t) ==
    /\ Up(d)
    /\ t.stage = "write"
    /\ Fault
    /\ tasks' = [tasks EXCEPT ![d] = @ \ {t}]
    /\ UNCHANGED <<clock, mode, reg, os, held, observed, restoring, offer,
                   pulling, net, claims, forgotten, ops>>

(* Defect: relayed even though the advance lost. *)
RelayedAnyway(d, t) ==
    IF t.kind = "converge" THEN StateFrames(d, Peers(d), t.act) ELSE {}

Relayed(d, t) ==
    IF t.kind = "converge" /\ ShouldAdvance(reg[d], t.act)
    THEN StateFrames(d, Peers(d), t.act)
    ELSE {}

(***************************************************************************)
(* The register is advanced after the write; a state frame is relayed, to  *)
(* everyone but its activator, only if this very step won.                 *)
(***************************************************************************)
AdvanceTask(d, t) ==
    /\ Up(d)
    /\ t.stage = "advance"
    /\ tasks' = [tasks EXCEPT ![d] = @ \ {t}]
    /\ AdvanceRegister(d, t.act)
    /\ net' = net \cup Relayed(d, t)
    /\ UNCHANGED <<clock, mode, os, held, observed, restoring, offer, pulling,
                   claims, forgotten, ops>>

AdvanceTaskFails(d, t) ==
    /\ Up(d)
    /\ t.stage = "advance"
    /\ tasks' = [tasks EXCEPT ![d] = @ \ {t}]
    /\ AdvanceFails(d)
    /\ UNCHANGED <<clock, mode, os, held, observed, restoring, offer, pulling,
                   net, claims, forgotten, ops>>

-----------------------------------------------------------------------------
(* Presence, network, process and session *)

(***************************************************************************)
(* Presence reported p online and the debounce has passed: send it the     *)
(* register as it is now, unless p made that activation or the content     *)
(* cannot be rebuilt to look at its category.                              *)
(***************************************************************************)
Resync(d, p) ==
    /\ p \in Peers(d) /\ Up(p)
    /\ reg[d] # NoActivation
    /\ CanReconstruct(d, reg[d].hash)
    /\ net' = net \cup StateFrames(d, {p}, reg[d])
    /\ UNCHANGED <<clock, mode, reg, os, held, observed, restoring, offer,
                   pulling, tasks, claims, forgotten, ops, faults>>

(* A frame gets lost: a fault, unless its receiver is down. *)
Lose(m) ==
    /\ net' = net \ {m}
    /\ IF Up(m.to) THEN Fault ELSE UNCHANGED faults
    /\ UNCHANGED <<clock, mode, reg, os, held, observed, restoring, offer,
                   pulling, tasks, claims, forgotten, ops>>

Lock(d) ==
    /\ UserOp
    /\ Unlocked(d)
    /\ mode' = [mode EXCEPT ![d] = "locked"]
    /\ UNCHANGED <<clock, reg, os, held, observed, restoring, offer, pulling,
                   tasks, net, claims, forgotten, faults>>

Unlock(d) ==
    /\ mode[d] = "locked"
    /\ mode' = [mode EXCEPT ![d] = "ready"]
    /\ UNCHANGED <<clock, reg, os, held, observed, restoring, offer, pulling,
                   tasks, net, claims, forgotten, ops, faults>>

(* Everything but the database and the OS clipboard is lost. *)
Crash(d) ==
    /\ Up(d)
    /\ Fault
    /\ mode' = [mode EXCEPT ![d] = "down"]
    /\ observed' = [observed EXCEPT ![d] = <<>>]
    /\ restoring' = [restoring EXCEPT ![d] = {}]
    /\ offer' = [offer EXCEPT ![d] = NoActivation]
    /\ pulling' = [pulling EXCEPT ![d] = NoPull]
    /\ tasks' = [tasks EXCEPT ![d] = {}]
    /\ UNCHANGED <<clock, reg, os, held, net, claims, forgotten, ops>>

(***************************************************************************)
(* Reconcile: keep the row if the entry it names can be rebuilt and is     *)
(* what the OS clipboard holds, else clear it.                             *)
(***************************************************************************)
Reconciled(d) ==
    IF /\ reg[d] # NoActivation
       /\ CanReconstruct(d, reg[d].hash)
       /\ os[d] = reg[d].hash
    THEN reg[d]
    ELSE NoActivation

(* The process starts: it reconciles, and only later tries to unlock. *)
Restart(d) ==
    /\ ~ Up(d)
    /\ mode' = [mode EXCEPT ![d] = "locked"]
    /\ \/ reg' = [reg EXCEPT ![d] = Reconciled(d)] /\ UNCHANGED faults
       \/ UNCHANGED reg /\ Fault
    /\ UNCHANGED <<clock, os, held, observed, restoring, offer, pulling,
                   tasks, net, claims, forgotten, ops>>

-----------------------------------------------------------------------------

UserNext(d) ==
    \/ Lock(d)
    \/ \E h \in Hash : UserCopy(d, h) \/ RestoreWrite(d, h) \/ Forget(d, h)

LocalNext(d) ==
    \/ HandleCapture(d)
    \/ DropCapture(d)
    \/ \E h \in Hash : RestoreAdvance(d, h)
    \/ RestoreBroadcast(d)

ReceiveNext(d) ==
    \E m \in net : \/ ReceiveState(d, m)
                   \/ ReceiveNewContent(d, m)
                   \/ ReceiveHeldContent(d, m)
                   \/ IgnoreContent(d, m)

WriteNext(d) == \E t \in tasks[d] : WriteOs(d, t) \/ WriteOsFails(d, t)

AdvanceNext(d) ==
    \E t \in tasks[d] : AdvanceTask(d, t) \/ AdvanceTaskFails(d, t)

ProcessNext(d) == Unlock(d) \/ Crash(d) \/ Restart(d)

DeviceNext(d) ==
    \/ Tick(d)
    \/ UserNext(d)
    \/ LocalNext(d)
    \/ ReceiveNext(d)
    \/ PullSucceeds(d)
    \/ PullFails(d)
    \/ WriteNext(d)
    \/ AdvanceNext(d)
    \/ \E p \in Device : Resync(d, p)
    \/ ProcessNext(d)

Next ==
    \/ \E d \in Device : DeviceNext(d)
    \/ \E m \in net : Lose(m)

Spec == Init /\ [][Next]_vars

(***************************************************************************)
(* Fairness: clocks advance, every loop and task of a running process is   *)
(* scheduled, a process that died is started and unlocked again, and       *)
(* presence keeps reporting online peers (each successful keepalive dial   *)
(* does), so each of them is re-sent the register again and again.         *)
(***************************************************************************)
Fairness ==
    /\ \A d \in Device :
         /\ WF_vars(Tick(d))
         /\ WF_vars(LocalNext(d))
         /\ WF_vars(PullSucceeds(d) \/ PullFails(d))
         /\ WF_vars(WriteNext(d))
         /\ WF_vars(AdvanceNext(d))
         /\ WF_vars(Restart(d))
         /\ WF_vars(Unlock(d))
    /\ \A d, p \in Device :
         /\ WF_vars(Resync(d, p))
         /\ WF_vars(\E m \in net : m.from = p /\
              (ReceiveState(d, m) \/ ReceiveNewContent(d, m)
               \/ ReceiveHeldContent(d, m) \/ IgnoreContent(d, m)))

FairSpec == Spec /\ Fairness

-----------------------------------------------------------------------------
(* Properties *)

(***************************************************************************)
(* Every activation a register, an offer, a pull, a task or a frame        *)
(* carries was made by the device it names, at the time and with the       *)
(* content it names: no hop restamps or re-attributes it.  A content frame *)
(* and an offer speak for their own device only; a state frame never goes  *)
(* to its activator (fan_out_active_state, resync emit).                   *)
(***************************************************************************)
Genuine ==
    /\ \A d \in Device :
         /\ reg[d] \in claims \cup {NoActivation}
         /\ offer[d] # NoActivation => offer[d] \in claims /\ offer[d].by = d
         /\ pulling[d].act \in claims \cup {NoActivation}
         /\ \A t \in tasks[d] : t.act \in claims
         /\ \A i \in DOMAIN observed[d] : observed[d][i] \in claims
    /\ \A m \in net :
         /\ m.act \in claims
         /\ IF m.type = "content" THEN m.act.by = m.from
                                  ELSE m.act.by # m.to

Stored(d) == held[d] \cup forgotten[d]

(***************************************************************************)
(* A register never names content its device never stored, and neither     *)
(* does a state frame about its sender: persistence precedes the register  *)
(* on every path, so the receiver of a frame may pull from its sender      *)
(* unless the user has deleted the entry in between.                       *)
(***************************************************************************)
NamedContentWasStored ==
    /\ \A d \in Device :
         /\ reg[d] # NoActivation => reg[d].hash \in Stored(d)
         /\ \A t \in tasks[d] : t.act.hash \in Stored(d)
         /\ offer[d] # NoActivation => offer[d].hash \in Stored(d)
    /\ \A m \in net : m.type = "state" => m.act.hash \in Stored(m.from)

RegisterMoves ==
    \A d \in Device :
        reg'[d] # reg[d] =>
            IF reg'[d] = NoActivation
            THEN ~ Up(d)
            ELSE reg[d] # NoActivation => Supersedes(reg'[d], reg[d])

(***************************************************************************)
(* Between two restarts a register only moves up in the last-writer-wins   *)
(* order, however inbound tasks, captures and restores interleave between  *)
(* their check and their write; only a starting process empties it.        *)
(***************************************************************************)
RegisterNeverRegresses == [][RegisterMoves]_vars

RelayedStates ==
    \A m \in net' \ net :
        m.type = "state" /\ m.act.by # m.from => reg'[m.from] = m.act

(***************************************************************************)
(* A device sends a state made elsewhere only while that state is its own  *)
(* register, and relays it in the very step that adopted it: an activation *)
(* that lost the race is never propagated, so gossip cannot loop           *)
(* (`advanced == false` ... must NOT re-broadcast, apply_inbound.rs).      *)
(***************************************************************************)
RelaysOnlyItsRegister == [][RelayedStates]_vars

(***************************************************************************)
(* A state frame stamped beyond the tolerance of the D9 guard starts no    *)
(* clipboard write, even when a pull separates the guard from the write.   *)
(***************************************************************************)
FutureStatesWait ==
    \A d \in Device : \A t \in tasks[d] :
        t.kind = "converge" => t.act.at <= clock[d] + FutureTolerance

AtRest(d) == pulling[d] = NoPull /\ tasks[d] = {}

Lww == INSTANCE LwwRegister WITH claims <- claims, reg <- reg

(***************************************************************************)
(* The detailed system - frames, pulls, detached writes, locks and crashes *)
(* - implements the abstract last-writer-wins register.                    *)
(***************************************************************************)
ImplementsLww == Lww!LwwSpec

Kept(h) == \A d \in Device : h \notin forgotten[d]

Converged ==
    \A d, p \in Device :
        reg[p] # NoActivation /\ d # reg[p].by /\ Kept(reg[p].hash) =>
            /\ reg[d] # NoActivation
            /\ ~ Supersedes(reg[p], reg[d])
            /\ reg[d].at = reg[p].at /\ reg[d].by = reg[p].by
                 => reg[d].hash = reg[p].hash

(***************************************************************************)
(* No device is left behind: in the end, whatever activation a register    *)
(* holds, every other device - except its activator, to whom it is never   *)
(* sent - holds that one or a later one; and registers that agree on the   *)
(* key agree on the content.  This is what the resync worker is for.  Not  *)
(* promised of content some user has deleted: a frame that offers it finds *)
(* nothing to pull.                                                        *)
(***************************************************************************)
EventuallyConverged == <>[]Converged

(***************************************************************************)
(* The periodic re-sending never keeps rewriting clipboards: after the     *)
(* last user operation every device comes to rest, no pull and no write    *)
(* pending, for good (loop-stop by is_same_activation and supersedes).     *)
(***************************************************************************)
EventuallyAtRest == <>[](\A d \in Device : AtRest(d))
=============================================================================
