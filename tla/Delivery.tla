------------------------------ MODULE Delivery ------------------------------
(***************************************************************************)
(* How a device sends one history entry to its peers and what it records   *)
(* of it: a fan-out with a task per peer, its drain under a deadline, the  *)
(* drain of the stragglers behind it (dispatch_entry), repeated by resends *)
(* (resend_entry.rs), with the single-flight dial that concurrent fan-outs *)
(* to one peer share (clipboard_dispatch_adapter.rs).                      *)
(*                                                                         *)
(* An outcome is what the delivery row will say of it; every failure but   *)
(* unreachability is one.  A fan-out that finds the space locked, or its   *)
(* targets unreadable, ends before it has done anything and is left out,   *)
(* and so is telemetry.  What the peer does with a frame after its         *)
(* acknowledgement is in ActiveClipboard and HistoryIntake.                *)
(***************************************************************************)
EXTENDS Naturals, FiniteSets

CONSTANTS
    Peer,       \* the trusted peers, all with a stored address
    MaxFanouts, \* bound on the fan-outs ever started
    MaxFaults   \* bound on crashes, cancellations and failed writes

ASSUME DeliveryAssumption == MaxFanouts \in Nat /\ MaxFaults \in Nat

VARIABLES
    fanout,     \* fanout[i]: its kind, whether its frame fits, where its drain is
    task,       \* task[i][p]: where the task for p in the JoinSet of i is
    leader,     \* leader[i][p]: the fan-out whose dial the task waits for
    slot,       \* slot[p]: the fan-out that holds the in-flight dial of p
    offline,    \* peers that presence reports Offline
    buffer,     \* buffer[i][p]: an outcome that awaits the flush of i
    row,        \* row[p]: the entry's delivery row for p
    received,   \* history: <<i, p>>, the peer has read the frame of i
    settled,    \* history: <<i, p>>, the outcome went to the delivery table
    faults      \* faults so far

vars == <<fanout, task, leader, slot, offline, buffer, row, received, settled,
          faults>>

Fanout == 1 .. MaxFanouts
NoFanout == 0

Outcome == {"delivered", "unreachable", "failed"}
NoRow == "none"
Kind == {"none", "capture", "resend", "text"}
Stage == {"idle", "draining", "flushing", "deferred", "done", "dropped"}
Holding == {"dial", "mark", "dead", "connected"}    \* the steps with the slot
TaskStep == {"none", "preflight", "claim", "follow", "announce", "refuse",
             "send", "ack", "joined", "aborted"} \cup Holding \cup Outcome

TypeOK ==
    /\ fanout \in [Fanout -> [kind : Kind, fits : BOOLEAN, at : Stage]]
    /\ task \in [Fanout -> [Peer -> TaskStep]]
    /\ leader \in [Fanout -> [Peer -> Fanout \cup {NoFanout}]]
    /\ slot \in [Peer -> Fanout \cup {NoFanout}]
    /\ offline \subseteq Peer
    /\ buffer \in [Fanout -> [Peer -> Outcome \cup {NoRow}]]
    /\ row \in [Peer -> Outcome \cup {NoRow}]
    /\ received \subseteq Fanout \X Peer
    /\ settled \subseteq Fanout \X Peer
    /\ faults \in Nat

Init ==
    /\ fanout = [i \in Fanout |-> [kind |-> "none", fits |-> FALSE, at |-> "idle"]]
    /\ task = [i \in Fanout |-> [p \in Peer |-> "none"]]
    /\ leader = [i \in Fanout |-> [p \in Peer |-> NoFanout]]
    /\ slot = [p \in Peer |-> NoFanout]
    /\ offline = {}
    /\ buffer = [i \in Fanout |-> [p \in Peer |-> NoRow]]
    /\ row = [p \in Peer |-> NoRow]
    /\ received = {} /\ settled = {}
    /\ faults = 0

(* Something goes wrong; the budget only bounds TLC's instances.           *)
Fault == faults < MaxFaults /\ faults' = faults + 1
NoFault == UNCHANGED faults

-----------------------------------------------------------------------------
(* A fan-out starts. *)

(* DispatchClipboardEntryUseCase::execute up to the drain: one task per    *)
(* target is spawned, all with the same payload.                           *)
Start(i, kind, targets) ==
    /\ fanout[i].at = "idle"
    /\ \A k \in 1 .. i - 1 : fanout[k].at # "idle"
    /\ targets # {}
    /\ \E fits \in BOOLEAN :
          fanout' = [fanout EXCEPT ![i] =
                       [kind |-> kind, fits |-> fits, at |-> "draining"]]
    /\ task' = [task EXCEPT ![i] =
                  [p \in Peer |-> IF p \in targets THEN "preflight" ELSE "none"]]
    /\ NoFault
    /\ UNCHANGED <<leader, slot, offline, buffer, row, received, settled>>

(* TargetSelector::select leaves out any peers that a send gate closes.    *)
Some(peers) == SUBSET peers

(* The watcher's fan-out of a fresh capture, to everybody.                 *)
DispatchCapture(i) ==
    /\ \A k \in Fanout : fanout[k].kind # "capture"
    /\ \E targets \in Some(Peer) : Start(i, "capture", targets)

(* resend_entry: without a filter, to all whose row does not say that they *)
(* have the entry; with one, to those it names.                            *)
Missing == {p \in Peer : row[p] # "delivered"}
Resend(i) ==
    \E named \in {Missing} \cup SUBSET Peer :
        \E targets \in Some(named) : Start(i, "resend", targets)

(* POST /clipboard/dispatch: text that is no entry, hence has no rows.     *)
DispatchText(i) == \E targets \in Some(Peer) : Start(i, "text", targets)

-----------------------------------------------------------------------------
(* The task for one peer.  The connection and the slot are the adapter's.  *)

Step(i, p, from, to) ==
    /\ task[i][p] = from
    /\ task' = [task EXCEPT ![i][p] = to]

(* dispatch_one and the head of dispatch: a peer known to be offline is not*)
(* dialled, nor anybody for a frame above MAX_PAYLOAD_SIZE.                *)
Preflight(i, p) ==
    /\ \/ p \in offline /\ Step(i, p, "preflight", "unreachable")
       \/ p \notin offline /\ fanout[i].fits /\ Step(i, p, "preflight", "claim")
       \/ p \notin offline /\ ~ fanout[i].fits /\ Step(i, p, "preflight", "failed")
    /\ NoFault
    /\ UNCHANGED <<fanout, leader, slot, offline, buffer, row, received, settled>>

\* Defect: the leader does not enter its dial into the map.
LeadUnseen(i, p) ==
    /\ slot[p] = NoFanout
    /\ Step(i, p, "claim", "dial")
    /\ UNCHANGED <<slot, leader>>

(* dial_single_flight: the first dials, later ones wait for its verdict.   *)
Lead(i, p) ==
    /\ slot[p] = NoFanout
    /\ Step(i, p, "claim", "dial")
    /\ slot' = [slot EXCEPT ![p] = i]
    /\ UNCHANGED leader

Follow(i, p) ==
    /\ slot[p] # NoFanout
    /\ Step(i, p, "claim", "follow")
    /\ leader' = [leader EXCEPT ![i][p] = slot[p]]
    /\ UNCHANGED slot

Claim(i, p) ==
    /\ Lead(i, p) \/ Follow(i, p)
    /\ NoFault
    /\ UNCHANGED <<fanout, offline, buffer, row, received, settled>>

(* connect_with_staggered_retry ends, within its time-outs.                *)
DialEnds(i, p) ==
    /\ \E to \in {"connected", "mark"} : Step(i, p, "dial", to)
    /\ NoFault
    /\ UNCHANGED <<fanout, leader, slot, offline, buffer, row, received, settled>>

(* The leader of a failed dial tells presence.                             *)
MarkOffline(i, p) ==
    /\ Step(i, p, "mark", "dead")
    /\ offline' = offline \cup {p}
    /\ NoFault
    /\ UNCHANGED <<fanout, leader, slot, buffer, row, received, settled>>

\* Defect: only a failed dial frees its slot.
ReleaseDead(i, p) ==
    /\ \/ Step(i, p, "connected", "announce") /\ UNCHANGED slot
       \/ /\ Step(i, p, "dead", "refuse")
          /\ slot' = [slot EXCEPT ![p] = NoFanout]
    /\ NoFault
    /\ UNCHANGED <<fanout, leader, offline, buffer, row, received, settled>>

(* The slot is freed before the verdict is broadcast.                      *)
Release(i, p) ==
    /\ \/ Step(i, p, "connected", "announce")
       \/ Step(i, p, "dead", "refuse")
    /\ slot' = [slot EXCEPT ![p] = NoFanout]
    /\ NoFault
    /\ UNCHANGED <<fanout, leader, offline, buffer, row, received, settled>>

(* The verdict reaches the leader and whoever waits for it.  A task that   *)
(* was aborted meanwhile gets no further than this.                        *)
Announce(i, p) ==
    LET next == IF task[i][p] = "announce" THEN "send" ELSE "unreachable"
        told(k) == \/ k = i
                   \/ task[k][p] = "follow" /\ leader[k][p] = i
    IN  /\ task[i][p] \in {"announce", "refuse"}
        /\ task' = [k \in Fanout |->
              IF told(k)
              THEN [task[k] EXCEPT ![p] =
                      IF fanout[k].at = "dropped" THEN "aborted" ELSE next]
              ELSE task[k]]
        /\ leader' = [k \in Fanout |->
              IF told(k) THEN [leader[k] EXCEPT ![p] = NoFanout] ELSE leader[k]]
        /\ NoFault
        /\ UNCHANGED <<fanout, slot, offline, buffer, row, received, settled>>

\* Defect: an open stream counts as an acknowledgement.
SendBlindly(i, p) ==
    /\ \/ /\ Step(i, p, "send", "ack")
          /\ received' = received \cup {<<i, p>>}
       \/ Step(i, p, "send", "delivered") /\ UNCHANGED received
    /\ NoFault
    /\ UNCHANGED <<fanout, leader, slot, offline, buffer, row, settled>>

(* send_and_ack, up to the peer's IrohClipboardReceiverHandler::accept.    *)
Send(i, p) ==
    /\ \/ /\ Step(i, p, "send", "ack")
          /\ received' = received \cup {<<i, p>>}
       \/ Step(i, p, "send", "failed") /\ UNCHANGED received
    /\ NoFault
    /\ UNCHANGED <<fanout, leader, slot, offline, buffer, row, settled>>

(* The acknowledgement arrives, or the stream ends without one.            *)
Answer(i, p) ==
    /\ \E to \in {"delivered", "failed"} : Step(i, p, "ack", to)
    /\ NoFault
    /\ UNCHANGED <<fanout, leader, slot, offline, buffer, row, received, settled>>

-----------------------------------------------------------------------------
(* The drains, and what they record. *)

\* Defect: a task that awaits its acknowledgement counts as settled.
SettledEarly(i, p) == task[i][p] \in Outcome \cup {"ack"}

Settled(i, p) == task[i][p] \in Outcome
Joined(i) == \A p \in Peer : task[i][p] \in {"none", "joined"}
MoveTo(i, stage) == fanout' = [fanout EXCEPT ![i].at = stage]

(* DeliveryRecorder::flush for one row: the last writer wins, and a write  *)
(* that fails is only logged.                                              *)
Record(i, p, outcome) ==
    /\ \/ row' = [row EXCEPT ![p] = outcome] /\ NoFault
       \/ UNCHANGED row /\ Fault
    /\ settled' = settled \cup {<<i, p>>}

(* drain_foreground takes a task that settled; text has no entry to record *)
(* for.                                                                    *)
Join(i, p) ==
    /\ fanout[i].at = "draining" /\ Settled(i, p)
    /\ Step(i, p, task[i][p], "joined")
    /\ buffer' = [buffer EXCEPT ![i][p] =
                    IF fanout[i].kind = "text" THEN NoRow ELSE task[i][p]]
    /\ NoFault
    /\ UNCHANGED <<fanout, leader, slot, offline, row, received, settled>>

(* FAN_OUT_DEADLINE passes, or every task has settled.                     *)
EndForeground(i) ==
    /\ fanout[i].at = "draining"
    /\ MoveTo(i, "flushing")
    /\ NoFault
    /\ UNCHANGED <<task, leader, slot, offline, buffer, row, received, settled>>

Flush(i, p) ==
    /\ fanout[i].at = "flushing" /\ buffer[i][p] # NoRow
    /\ Record(i, p, buffer[i][p])
    /\ buffer' = [buffer EXCEPT ![i][p] = NoRow]
    /\ UNCHANGED <<fanout, task, leader, slot, offline, received>>

(* The caller gets its answer; spawn_deferred_drain takes the stragglers.  *)
EndFlush(i) ==
    /\ fanout[i].at = "flushing" /\ \A p \in Peer : buffer[i][p] = NoRow
    /\ MoveTo(i, IF Joined(i) THEN "done" ELSE "deferred")
    /\ NoFault
    /\ UNCHANGED <<task, leader, slot, offline, buffer, row, received, settled>>

(* The deferred drain records each straggler as it settles.                *)
JoinDeferred(i, p) ==
    /\ fanout[i].at = "deferred" /\ Settled(i, p)
    /\ IF fanout[i].kind = "text"
       THEN UNCHANGED <<row, settled>> /\ NoFault
       ELSE Record(i, p, task[i][p])
    /\ Step(i, p, task[i][p], "joined")
    /\ UNCHANGED <<fanout, leader, slot, offline, buffer, received>>

EndDeferred(i) ==
    /\ fanout[i].at = "deferred" /\ Joined(i)
    /\ MoveTo(i, "done")
    /\ NoFault
    /\ UNCHANGED <<task, leader, slot, offline, buffer, row, received, settled>>

-----------------------------------------------------------------------------
(* What the surroundings do. *)

Abort(steps, spared) ==
    [p \in Peer |-> IF steps[p] \in {"none", "joined"} \cup spared
                    THEN steps[p] ELSE "aborted"]

NoBuffer == [p \in Peer |-> NoRow]

(* The client of a request hangs up: the handler's future is dropped, with *)
(* the JoinSet, which aborts the tasks where they next wait, and with what *)
(* was not flushed.  A dial in flight leaves its slot behind.              *)
HangUp(i) ==
    /\ fanout[i].kind \in {"resend", "text"}
    /\ fanout[i].at \in {"draining", "flushing"}
    /\ MoveTo(i, "dropped")
    /\ task' = [task EXCEPT ![i] = Abort(@, {"announce", "refuse"})]
    /\ buffer' = [buffer EXCEPT ![i] = NoBuffer]
    /\ Fault
    /\ UNCHANGED <<leader, slot, offline, row, received, settled>>

(* The daemon stops; rows are all that survives.                           *)
Crash ==
    /\ \E i \in Fanout : fanout[i].at \notin {"idle", "done"}
    /\ fanout' = [i \in Fanout |->
          IF fanout[i].at \in {"idle", "done"} THEN fanout[i]
          ELSE [fanout[i] EXCEPT !.at = "dropped"]]
    /\ task' = [i \in Fanout |-> Abort(task[i], {})]
    /\ slot' = [p \in Peer |-> NoFanout]
    /\ offline' = {}
    /\ buffer' = [i \in Fanout |-> NoBuffer]
    /\ Fault
    /\ UNCHANGED <<leader, row, received, settled>>

(* Presence learns of a peer by itself (module Presence).                  *)
PresenceChanges(p) ==
    /\ offline' \in {offline \cup {p}, offline \ {p}}
    /\ offline' # offline
    /\ NoFault
    /\ UNCHANGED <<fanout, task, leader, slot, buffer, row, received, settled>>

TaskNext(i, p) ==
    \/ Preflight(i, p) \/ Claim(i, p) \/ DialEnds(i, p) \/ MarkOffline(i, p)
    \/ Release(i, p) \/ Announce(i, p) \/ Send(i, p) \/ Answer(i, p)

DrainNext(i) ==
    \/ EndForeground(i) \/ EndFlush(i) \/ EndDeferred(i)
    \/ \E p \in Peer : Join(i, p) \/ Flush(i, p) \/ JoinDeferred(i, p)

StartNext(i) == DispatchCapture(i) \/ Resend(i) \/ DispatchText(i)

Next ==
    \/ \E i \in Fanout :
          StartNext(i) \/ DrainNext(i) \/ HangUp(i) \/ \E p \in Peer : TaskNext(i, p)
    \/ \E p \in Peer : PresenceChanges(p)
    \/ Crash

Spec == Init /\ [][Next]_vars

(* Tasks are polled, dials and streams end, and the drains are loops of    *)
(* tasks of their own.  The deferred drain takes whichever task settles.   *)
Fairness ==
    \A i \in Fanout : /\ WF_vars(DrainNext(i))
                      /\ \A p \in Peer : WF_vars(TaskNext(i, p))

FairSpec == Spec /\ Fairness

-----------------------------------------------------------------------------
(* Properties. *)

(* At most one dial per peer is under way, however many fan-outs want it,  *)
(* which is what the adapter promises (dial_single_flight).                *)
SingleDial ==
    \A p \in Peer : Cardinality({i \in Fanout : task[i][p] \in Holding}) <= 1

(* A row says delivered only if the peer has read a frame of a fan-out of  *)
(* the entry: the dial's verdict that a follower shares says nothing about *)
(* its own frame, and text for the same peer is not the entry.             *)
DeliveredWasReceived ==
    \A p \in Peer : row[p] = "delivered" =>
        \E i \in Fanout : fanout[i].kind # "text" /\ <<i, p>> \in received

(* The leader of the dial in the slot was aborted and will not free it.    *)
Orphaned(p) == slot[p] # NoFanout /\ task[slot[p]][p] = "aborted"

(* The stragglers of every fan-out are driven to completion, which is what *)
(* drain_foreground hands them back for (fanout.rs:13-17).                 *)
StragglersEnd ==
    \A i \in Fanout : fanout[i].at = "deferred" ~> fanout[i].at # "deferred"

(* Every target of a fan-out of the entry gets its outcome recorded, the   *)
(* deadline and the wait for somebody else's dial notwithstanding, unless  *)
(* the fan-out was dropped or an aborted dial blocks the peer.             *)
OutcomesAreRecorded ==
    \A i \in Fanout, p \in Peer :
        (task[i][p] = "preflight" /\ fanout[i].kind # "text")
            ~> (<<i, p>> \in settled \/ fanout[i].at = "dropped" \/ Orphaned(p))
=============================================================================
