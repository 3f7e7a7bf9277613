# OpenClipboard: a TLA+ verification project

OpenClipboard keeps the clipboards of a user's devices in step. Each device runs
a daemon; daemons talk peer to peer, without a server. The part of the program
that is hardest to get right is the *active clipboard*: which content should be
on everybody's clipboard now, when several devices copy, restore and receive at
the same time, frames get lost, daemons crash, and spaces are locked. This
project models that part first and in depth, then the mechanism it rests on
within one device (telling the program's own clipboard writes from the user's
copies), and then the subsystems around it: how content enters the history and
how its bytes survive, how it is sent and what is recorded of that, whom a device
believes reachable, how a device joins a space and changes spaces, and how a phone
syncs with a desktop. Paths
below are relative to the repository; `uc-application/…` stands for
`src/crates/uc-application/src/…`.

## 1. Inventory

| Component | State it keeps | Operations | Hard behaviour | What makes it correct |
|---|---|---|---|---|
| Active-clipboard register and its convergence (`usecases/clipboard_sync/active_state/*`, `clipboard_write/active_register.rs`, `active_clipboard_register_repo.rs`) | one persisted row `(snapshot_hash, activated_at_ms, activated_by_device_id)`, detached write tasks, a debounced offer, a pull in progress | compare-and-set advance, receive a state frame, pull, write then converge, relay, resync, reconcile, clear | check and write far apart; lost and reordered frames; crash between write and advance; clock skew | the register never regresses; only real activations; no echo loops; convergence |
| Write coordinator, self-write ledger, watcher (`clipboard_write/coordinator.rs`, `uc-infra/clipboard/change_origin.rs`, `uc-platform/clipboard/watcher.rs`) | armed records (by content, by next change), failure counter and breaker deadline, dedup windows | write, unwind, attribute an observed change | the watcher sees the write before or after the record is armed; concurrent writes; eviction at the cap | a write of ours is never re-captured as a copy of the user; a user's copy is never swallowed |
| Inbound content apply (`usecases/clipboard_sync/apply_inbound/usecase.rs`, `ingest_inbound.rs`) | lock per content identity, entries and their payload states | new content, held content, partial content, upgrade in place | two frames for one content, whole or partial, in any order | one entry per content; a partial entry is upgraded, never duplicated |
| Capture and history (`clipboard_capture/usecase.rs`, `clipboard_history/*`, `workers/cleanup.rs`) | entries, events, representations | capture, resurface, delete, retention | deletion under a register that names the entry | an active entry was stored |
| Dispatch, delivery records, resend (`clipboard_sync/dispatch_entry`, `resend_entry.rs`, `clipboard_dispatch_adapter.rs`) | one delivery row per (entry, peer); the dials in flight; a set of tasks per fan-out | dispatch a capture or text, resend, drain before and behind the deadline, record | tasks that outlive their deadline; requests that are cancelled; one dial shared by several fan-outs | a row never claims more than happened; every outcome is recorded; one dial per peer |
| Presence and keepalive (`uc-infra/network/iroh/presence_adapter.rs`, `workers/peer_keepalive.rs`) | per peer: tracked connection, last state, when verified; a watchdog per connection; the worker's back-off | ensure, verify, mark offline, accept, watch, tick, wake | late dial results, watchdogs of replaced connections, lagged subscribers | the belief follows the peer; no reachable peer is parked for ever |
| Switch space (`usecases/setup/switch_space`, `migration_state.rs`, `migration_repo.rs`) | rows and their backups, migration keys, a persisted phase | four phases, resume, roll back | crash or failure between and within phases, torn state file | no row loses the key it needs; a promised migration is finished |
| Pairing (`pairing_invitation`, `pairing_inbound`, `pairing_outbound`, `usecases/pairing`) | invitations, sessions, parked contexts, membership and trust, keys of the joiner | invite, cancel, redeem, handshake, confirm, time out | expiry against redemption; watchdog against confirmation; lost confirmation | an invitation serves at most one session; nobody joins unrecorded |
| Blob worker, spool, payload states (`uc-infra/clipboard/background_blob_worker.rs`, `spool_*.rs`, `staged_reconciler.rs`, `payload_resolver.rs`) | bounded queue, cache, spool files with a ledger, payload state per representation | stage, spool, convert, retry, expire, sweep, demote | queue full; crash between stages; readers and janitor next to the worker | bytes an entry promises exist; nothing is given up that is there |
| File transfer (`file_transfer/timeline.rs`, `workers/file_sync_orchestrator.rs`) | transfer status rows | announce, progress, complete, time out, sweep | late completion against a timeout sweep | a terminal status is final |
| Space access and encryption session | locked or unlocked, key material | unlock, lock, initialise | lock during an operation | - (cryptography is out of scope) |
| Daemon process and host | start-up order, instance lock | start, hand over, stop | reconcile before unlock | one daemon per profile |
| Mobile sync (`uc-mobile/engine.rs`, `uc-mobile-proto/sync_engine.rs`, `apps/mobile/src/services/SyncEngine.ts`) and its LAN endpoint (`mobile_sync/apply_incoming.rs`, `routes/sync_doc.rs`) | watermark (hash and contentId, in memory and stored), last applied, staged entry, loop guard, back-off; the app's activate register, monitor and timer; the desktop's upload buffer | push, pull, apply staged, upload in two requests, write to the pasteboard, pause, acknowledge, change server | calls that overlap and end out of order; lost answers; a crash between two keys; uploads of another process; failing writes | no identity the desktop has not given; nothing the desktop shows is missed |
| Search index, configuration migration, shell, command line, user interface, update server | various | - | - | not planned, see section 8 |

How they interact. The watcher calls the capture handler, which stores an entry,
calls `advance_local` on the register, and dispatches content frames. A peer's
content frame goes to the apply use case, which stores, advances and starts a
detached OS write through the coordinator; the watcher sees that write and asks
the ledger whether it is an echo. Restores write the OS clipboard, advance the
register, and hand the stamp to a debounced broadcaster that sends *state*
frames. A state frame goes to `apply_inbound.rs`, which may pull the content
from its sender, then writes, advances and relays. Presence events make the
resync worker send the register again. At start the daemon reconciles the
register with the OS clipboard, then tries to unlock the space. Every capture and
every frame goes through the identity lock into the entry store, and its large
representations through cache, spool and queue to the blob worker. A dispatch
asks presence before it dials, and tells it when a dial fails. A switch of spaces
runs the joiner's half of pairing as its second phase. A phone polls the desktop
for its latest content and uploads what is copied on it; what a phone uploads enters
the desktop like an inbound frame, and what it shows is the desktop's history.

The hazards of this code, each at its line, are in `PROJECT.json` under
`hazards`, with the properties that would catch them.

## 2. Plan

In order; each component comes with a run and a type invariant, and those that
are hardest to get right with proofs.

1. **`Activation`, `LwwRegister`, `ActiveClipboard`** (done): the register
   protocol, its abstract specification, and the refinement.
2. **`SelfWriteLedger`** (done): coordinator, breaker, ledger, watcher and
   attribution. Left: a proof of `EchoAttributed`.
3. **`Pairing`, `Membership`, `SwitchSpace`** (done): the handshake of both
   sides, composed with the migration of a device that changes spaces; it refines
   the abstract membership.
4. **`Presence`** (done): dials, watchdogs, inbound connections, keepalive.
5. **`PayloadStore`, `HistoryIntake`** (done): captures, frames, upgrades and
   deletions over the store of large representations and its worker.
6. **`Delivery`** (done): fan-outs, the shared dial, drains and delivery rows.
7. **`MobileSync`, `MobileApp`** (done): the phone's engine with the desktop's
   endpoint, and the application around the engine.
8. Left: **`FileTransfer`** (terminal statuses against a timeout sweep), several
   representations per capture, several phones at one desktop, two switches or two
   unlock requests at once.

Theorems still to come, by value: an echo that comes back unchanged is its write's
(`EchoAttributed`), and what the user copies with nothing under way is captured
(`UndisturbedCopyCaptured`).

## 3. The modules

| Module | Models |
|---|---|
| `Activation` | the register value and its order: `ActiveClipboardState` (`uc-core/clipboard/active_state.rs`) and the compare-and-set |
| `LwwRegister` | the abstract specification: devices claim, adopt and reset; no messages |
| `ActiveClipboard` | the system: captures, restores, frames, pulls, detached writes, relay, resync, lock, crash, restart |
| `ActiveClipboard_proofs` | `TypeCorrect` and the lemmas on the helpers |
| `ActiveClipboard_safety` | theorems: origin of activations, monotonicity, refinement, relay, persistence before naming, the future guard |
| `MCActiveClipboard`, `MCConvergence` | instances for TLC: topologies; the two kinds of behaviour the run of two devices combines |
| `SelfWriteLedger` | one device's clipboard writes: coordinator, breaker, ledger, watcher, attribution |
| `SelfWriteLedger_proofs` | theorems: types, caps, single use of records, expiry, the breaker |
| `MCSelfWriteLedger` | its instances for TLC: contents, re-encoding, symmetry of writers |
| `Membership` | the abstract specification of pairing: admit, trust, join |
| `Pairing` | a sponsor and its joiners: invitations, the event loop and watchdogs, the joiner's handshake and what it persists |
| `SwitchSpace` | `Pairing` composed with the migration of one joiner that has a history |
| `SwitchSpace_proofs` | theorems: types, invitations, the refinement of `Membership`, rows and their backups |
| `MCSwitchSpace` | the two kinds of behaviour the run combines, and requests that take turns |
| `Presence` | one device's belief about one peer, and the keepalive worker |
| `Presence_proofs` | theorems: types, sleepers |
| `PayloadStore` | rows, cache, spool, queue; worker, janitor, reader, the sweeps of a start |
| `HistoryIntake` | captures, frames, upgrades and deletions over it |
| `HistoryIntake_proofs` | theorems: one entry per content, upgrades; types, promised bytes, what is given up |
| `MCHistoryIntake` | symmetry and what the two captures of the run may do |
| `Delivery` | fan-outs to peers, the shared dial, drains, delivery rows |
| `Delivery_proofs` | theorems: types, the shared dial, true rows |
| `MCDelivery` | the two kinds of behaviour its run combines |
| `MobileSync` | a phone's sync engine, request by request, and the desktop that answers |
| `MobileApp` | the application that calls it; what is checked |
| `MobileApp_proofs` | theorem: types, and identities are of content the desktop has |
| `MCMobileApp` | how many acts and faults its run combines |

### State of `ActiveClipboard`

| Variable | In the code |
|---|---|
| `clock[d]` | `ClockPort::now_ms` of device d; clocks are independent of each other |
| `mode[d]` | process down; up and locked; up and unlocked |
| `reg[d]` | the register row |
| `os[d]` | the OS clipboard |
| `held[d]` | content with a complete entry in the store |
| `observed[d]` | watcher events waiting for the capture handler |
| `restoring[d]` | restore requests between their OS write and their advance |
| `offer[d]` | the latest value in the broadcaster's `watch` channel |
| `pulling[d]` | the frame `apply_inbound` is awaiting a pull for (the loop is sequential: at most one) |
| `tasks[d]` | detached `spawn_write_then_converge` tasks, and the writes of content frames |
| `net` | frames in flight; a set, so unordered |
| `claims`, `forgotten` | history only: activations made, entries deleted |
| `ops`, `faults` | counters that bound TLC's instances |

### Actions of `ActiveClipboard`

| Action | Code | Step boundary |
|---|---|---|
| `UserCopy` | watcher reads the clipboard | the event sits in a channel |
| `HandleCapture`, `DropCapture` | `on_clipboard_changed` | one handler at a time; its effects on shared state do not await a peer |
| `RestoreWrite`, `RestoreAdvance`, `RestoreBroadcast` | `restore_selection.rs`, `restore_broadcast_worker.rs` | `await` of the OS write; the debounce |
| `ReceiveState` | `handle_one` up to the pull or the spawn | the pull is awaited, the write is detached |
| `PullSucceeds`, `PullFails` | `pull_and_store` with its 10 s deadline | network |
| `ReceiveNewContent` | `execute`, new content: capture, advance, spawn | the write is detached |
| `ReceiveHeldContent` | `resurface_held_entry` up to the write | the loop awaits the write: `ContentLoopBusy` |
| `IgnoreContent` | locked session, or the 200 ms repeat window | |
| `WriteOs`, `WriteOsFails` | `coordinator.write` | |
| `AdvanceTask`, `AdvanceTaskFails` | the compare-and-set after the write, and the relay | the database write is atomic |
| `Resync` | `peer_online_resync_worker.rs` | |
| `Forget` | `delete_entry.rs` | |
| `Lock`, `Unlock`, `Crash`, `Restart`, `Lose`, `Tick` | environment and start-up | |

Actions named after a handler do everything it does; where the code awaits
something other actors can interleave with, the handler is split there.
Operators marked `Defect:` are mutated forms of the definition that follows
them. The specification does not use them; each stands for a bug one could make
there and must be caught by the property `PROJECT.json` pairs it with.

### `SelfWriteLedger`

| Variable | In the code |
|---|---|
| `content_records`, `next_changes` | the two lists of `InMemorySelfWriteLedger`; as sets of records that carry the number of their arrival, so the front of a queue is the least number |
| `failures`, `open_until` | `consecutive_failures`, `circuit_open_until`: two cells, written in separate steps |
| `writer[w]` | how far the write that task w is in has come |
| `os`, `changed` | the OS clipboard; a change notified and not read. Notifications coalesce: reading sees the latest content only |
| `last_meaningful`, `observed` | the watcher's deduplication; its channel to the handler |
| `verdict` | whose the last change handled was found to be |
| `armed`, `last_armed`, `begun`, `claims`, `copied`, `taken`, `clean`, `repeated` | history that the properties read; `begun` and `copied` also bound TLC's instances |

| Action | Code | Step boundary |
|---|---|---|
| `BeginWrite` | `circuit_check` | a mutex of its own |
| `ArmContent`, `ArmFallback` | `record_self_write`, with the pruning in it | the ledger's lock |
| `OsWrite`, `OsWriteFails` | `write_snapshot` | the operating system |
| `Unwind` | `attribute_observed_change` of the own key | the ledger's lock |
| `CountFailure`, `TripCircuit`, `ResetFailures`, `CountSuccess`, `CloseCircuit` | `record_failure`, `record_success` | one atomic operation or lock each |
| `PassOn`, `DropRepeated`, `MissChange` | `notify_change`, `emit_with_dedup_at` | the watcher is one thread |
| `HandleChange` | `on_clipboard_changed` up to the attribution | the ledger's lock |
| `UserCopy`, `Renotify`, `Tick` | the user, the OS, the clock | |

A rejected write (circuit open) changes nothing and is no step. Content is its
guard key (`origin_guard_key`); `Recoded` says what the OS may make of it (a PNG
comes back as a DIB), and `Fingerprint` by what the watcher compares it (one for
both). The storm, burst and file guards of the watcher, a full channel and a
failed read are one step, `MissChange`, which may happen at any time. A local
restore's capture is skipped further down in the capture use case; here both
kinds of echo end at the verdict.

### Abstractions of `ActiveClipboard`

* Content is its `snapshot_hash`. Categories and per-category gates collapse
  into `Link`: d has p's address, and neither d's send gate nor p's receive
  gate stands between them. Gates are constant. A peer found offline at fan-out
  time and a frame lost on the wire are the same step, `Lose`.
* `entry_id` is a per-device handle that no comparison uses, and is left out.
* A partial entry (a representation still staged or lost) counts as not held.
* The watcher reads the clipboard in the instant of the copy, and an echo is
  always attributed correctly. `SelfWriteLedger` says when that is so.
* A database error while the register is *read*, or while an entry is looked
  up, drops the frame: `Lose`. Errors of *advance* are modelled (`AdvanceFails`).
* Two identical detached tasks merge; the second would repeat an OS write that
  has just been made, and lose its compare-and-set.
* Restore as plain text, the mobile announce channel and the mobile shadow
  column of the register row are left out: no property here depends on them.

### `Pairing` and `SwitchSpace`

| Variable | In the code |
|---|---|
| `invitation[c]` | what `PairingInvitationHolder` keeps under code c; "stale" is past its deadline and not yet swept |
| `dialled`, `inbox`, `outbox`, `live` | sessions and their frames; the sponsor's session registry |
| `parked` | sessions with a `SessionCtx`, hence with a watchdog running |
| `handler` | the sponsor's *one* event loop, which awaits between admitting, trusting and confirming |
| `members`, `trusted` | the sponsor's two repositories |
| `joiner[j]` | where `JoinerHandshake::drive` and `persist` are |
| `kek[j]`, `keyslot[j]`, `master[j]`, `setup[j]` | keyring entry, keyslot file, key in memory, setup status, each as the space whose key it is |
| `main[r]`, `backup[r]`, `keyring` | which key the row needs; the migration whose key its backup needs; the migration keys kept |
| `phase` | the state file; truncated and not yet written, it reads as no migration |
| `job["switch"]`, `job["resume"]` | the switch request, and the unlock request that resumes a migration |
| `offered`, `promised`, `dialled` | history that the properties read |

| Action | Code | Step boundary |
|---|---|---|
| `AcceptRequest`, `OfferFails`, `RefuseRequest` | `on_incoming`, `SponsorHandshake::begin` | one event of the loop |
| `VerifyResponse`, `VerifyFails`, `AdmitMember`, `TrustPeer`, `RecordFails`, `SendConfirm` | `on_message_received`, `finalise_verified`, `confirm` | an `await` of a repository or the wire; the watchdog may fire between any two |
| `FireTimeout`, `HandleSessionClosed` | the watchdog; a closed session | |
| `Dial`, `TakeOffer`, `StoreKek`, `StoreKeyslot`, `TakeConfirm`, `PersistSponsor`, `CompleteSetup`, `AbandonHandshake` | the joiner | every persisted write is a step of its own |
| `ListRows`, `BackUp`, `UndoRows` | phase 1 and its clean-up | row by row |
| `CreateFile`, `SetPrepared`, `SetHandshakeDone`, `SetSwapped`, `SetNone`, `WriteFails` | `set_current` | truncating and writing are two steps |
| `JoinSpace`, `HandshakeOver`, `DialFails` | phase 2 | the steps of `Pairing` lie between |
| `ListBackup`, `Swap`, `SkipRows`, `StopSwap`, `AllSwapped` | phase 3 | row by row |
| `Commit`, `DropRows`, `DropKey` | phase 4 | |
| `ResumePending` | `try_resume_session`, `resume_pending` | goes on with `Migrate("resume")` |
| `Unlock`, `Lock`, `MoverCrash`, `CaptureRow`, `DeleteRow`, `SponsorCrash`, `BreakLink` | the surroundings | |

A frame is its kind, a ciphertext is the key it needs, and a passphrase that does
not open the offered keyslot is a derivation that fails. Locks and crashes cost a
fault. `Pairing` has no specification of its own: the mover is one of its joiners.

### `Presence`

One peer stands for each, because every map of the adapter is keyed by peer. The
state: `tracked` and `fresh` (the `peers` entry and whether it was verified within
the fast-path window), `watchdog[c]`, `lastState`, `call[t]` (where a call of
`ensure_reachable`, `verify_reachable` or `mark_offline` is), `inbound` (the
handler of the peer's own connection), `events` (the bounded broadcast channel),
`backoff` and `waiting` (the keepalive worker), `up`, `open`, `dying` (the peer and
the connections). The adapter never holds two locks but once
(`Insert`/`AnnounceOnline` under `peers`, `PeersUnlocked`): each action is what is
done under one lock. Durations are abstracted: a verification ages (`Age`), a tick
comes, an idle connection times out, at any moment but eventually.

### `PayloadStore` and `HistoryIntake`

| Variable | In the code |
|---|---|
| `row[r]` | payload state, label (MIME type) and blob of the representation |
| `cache`, `spool`, `ledger`, `queue` | the in-memory cache; the spool directory; what `SpoolManager` believes it holds; the worker's channel |
| `worker`, `janitor`, `reader`, `life`, `todo` | where each of these tasks is; the two sweeps of a start |
| `entry[e]` | the event behind entry e; the capture that made it is its name |
| `job[c]` | where capture c (a local copy or a peer's frame) is, and the entry it upgrades |
| `deletion` | a deletion between its transactions |
| `old`, `evicted`, `misled`, `swept` | history: files that outlived their time-to-live, files removed for room, contents whose look-up missed their entry, captures that a sweep of a start took the row or the file from (`Takes`) |

An `UPDATE … WHERE payload_state IN (…)` is one step (`Swap`), a database
transaction is one step, and between two awaits anything may happen; the sweeps of
a start run next to the captures, as `host.rs:155-163` spawns them. One large
representation per capture, with the size of one slot. What follows the commit -
register, search, OS write - is `ActiveClipboard`'s.

### `Delivery`

`fanout[i]` is the kind of the fan-out (capture, resend, text), whether its frame is
within `MAX_PAYLOAD_SIZE`, and where its drain is; `task[i][p]` its task for peer p,
`slot[p]` the entry in `in_flight_dials`, `leader[i][p]` whose verdict a follower
waits for, `buffer` the outcomes the foreground has joined, `row[p]` the delivery
row, `offline` what presence says.

| Action | Code |
|---|---|
| `DispatchCapture`, `Resend`, `DispatchText` | `execute`, entered from the watcher and from two HTTP handlers, up to the spawned tasks |
| `Preflight` (peer offline, frame too large, or on to the dial), `Claim`, `DialEnds`, `MarkOffline`, `Release`, `Announce` | `dispatch_one`, `dial_single_flight`; a step per lock |
| `Send`, `Answer` | `send_and_ack`; whether the peer read the frame and whether its byte came back are two things |
| `Join`, `EndForeground`, `Flush`, `EndFlush`, `JoinDeferred`, `EndDeferred` | the drain, its deadline, the flush, the deferred drain |
| `HangUp` | axum drops the handler's future with the JoinSet in it |
| `PresenceChanges`, `Crash` | the surroundings |

### `MobileSync` and `MobileApp`

| Variable | In the code |
|---|---|
| `current`, `held`, `buffer`, `rotated` | the desktop: what it serves, its history, the uploaded file that awaits its document, a password changed |
| `rt`, `autoApply` | `SyncRuntimeState`, `SyncSettings` |
| `op` | the call that holds the engine's mutex, and the request it is at |
| `flight[c]` | the app's push, pull, refresh and apply: waiting for the mutex, in it, ended, or being written to the pasteboard |
| `stored` | the two keys of the watermark |
| `sys`, `seen`, `emitted`, `paused` | the pasteboard; `lastContent`, the debounced change and the pause of the monitor |
| `register`, `wanted` | `activate_clipboard`; a push that is pending |
| `shown`, `ticking` | the coordinator's state as far as it stops something; its timer |
| `got`, `cut`, `torn`, `unwritten` | history: the last exchange the phone knows of; a hand-over cut short; a watermark whose two keys were written by two processes; what could not be written |

| Action | Code | Step boundary |
|---|---|---|
| `StartPush`, `StartTick`, `StartPull`, `StartRefresh`, `StartApply` | `pushLocal`, `pullServer` by way of `runPull` (one at a time) and of `explicitRefresh` (past it), `applyStagedEntry`: the register is read here | then the mutex |
| `EnterTick`, `EnterApply` | fold the stored watermark, pause, back-off | up to the first request |
| `Get`, `Fetch`, `PutFile`, `PutDoc` | `run_route` and what follows each answer; with `PutDoc`, what the desktop makes of the document | one request each |
| `Save` | the second key of `persist_watermark` | another process may write between the two |
| `Settle`, `Write`, `WriteFails`, `Note`, `Clear` | `applyOutcome`, `applyToDevice` | every `await` |
| `Observe`, `Emit`, `UseItem`, `PhoneCopy` | the monitor, its debounce and callbacks; taking an item of the history; a copy | |
| `SetServer`/`ServerChanged`, `Acknowledge`/`AcknowledgeLoop`, `SetSettings`, `BackoffEnds`, `Reopen`, `NetworkChanged`, `Crash` | the app's other calls | |
| `DesktopCopy`, `DesktopEmpties`, `BufferLost`, `RotatePassword`, `ShareExtension` | the surroundings | |

A content is one value for its bytes, hash and contentId: an image that the desktop
encodes anew has another hash and the same contentId, and is left out. Requests are
atomic at the desktop; an answer may be lost. Other phones, and what the app uploads
past its engine (`pushRecordExplicit`), are changes of what the desktop shows. A
server-sent event is a pull that may start at any time. The loop guard's time window
is a choice of how many past events still count.

## 4. Runs

All bounds are constants named `Max…`: they stop clocks, users and the
environment, never the protocol. A system whose user has stopped may stop too, so
the runs do not check for deadlock, except `presence`, whose keepalive never ends.

| Run | Instance | Shows |
|---|---|---|
| `convergence` | 2 devices, 2 contents of which one may be deleted; 2 operations without a fault, or 1 operation with skewed clocks and up to 3 faults (crashes, losses, failed writes and advances, timed-out pulls) | types; the safety properties that two devices can break; refinement of `LwwRegister`; eventual agreement and rest |
| `relay` | 3 devices in a chain | the ends converge through the middle; only the own register is relayed (two devices never relay: a state is not sent to its activator) |
| `ledger` | 2 writers, 2 writes of a text or an image, 1 copy (a text) of the user; 1 watcher event waiting; caps 2 and 1, echo budgets 0 and 1, window 1, threshold 2 | types; the caps; single use of records; the breaker; attribution of echoes and copies |
| `switch` | the mover and another joiner, 1 code, 2 rows, 2 sessions, 2 migrations, 2 faults; unlock requests also beside the switch | types; an invitation serves one session; rows keep the keys they need; refinement of `Membership`; handshakes end, migrations finish |
| `stranded` | the mover alone, 1 row, 1 fault, one request at a time | **violated**, finding 1 |
| `presence` | 2 connections, the worker's dials and one other task, channel of 2, sleep after 2 failures, 2 changes of the peer, 1 fault | types; sleepers; the belief follows the peer; no deadlock |
| `intake` | 2 captures, 2 contents, 1 slot each in cache, spool and queue, 2 attempts, 2 faults; captures beside the sweeps of a start | types; one entry per content; no phantom entry; nothing given up that is there; upgrades; the queue is worked off |
| `startrace` | the same without a fault | **violated**, finding 2 |
| `delivery` | 2 peers, 2 fan-outs whose frames fit or do not, 2 faults | types; one dial; rows; every outcome recorded |
| `blocked` | 1 peer, 2 fan-outs, 1 fault | **violated**, finding 3 |
| `mobile` | 2 contents of which one travels as a file, loop threshold 1, 2 acts of users with 1 fault, 1 act with 2, or 4 acts on top of a watermark with two writers | types; no identity the desktop has not given; nothing is missed |
| `unwritten` | 1 act, 1 fault | **violated**, finding 4 |

Why these bounds suffice for what they are used for. Two devices, two contents and
two operations give every pair of concurrent activations (copy/copy, copy/restore,
same or different content, equal times on two devices); where they meet
no fault, one operation meets up to three, placed between any two steps. Equal
readings of one clock (`CoarseClock`), and two operations with faults, are covered by
the theorems only. Three devices are the least with a relay, and a chain is the
topology in which nothing but the relay can bring an activation across. `MaxTime = 1`
with tolerance 0 makes the future guard reject a frame and later, when the clock has
caught up, accept its resend. In `ledger`, two writes are the least in which one can
take the other's record, push it out, or fail beside it; a cap of 1 for fallbacks
makes the second push out the first; budgets 0 and 1 make a record that arrived later
expire earlier; two failures reach the threshold, in every order of their five steps.
The user copies a text, which may be what was written or spend the fallback of an
image; a copied image is left out for the size of the run. Writers differ in nothing
but their names, and no property names one, so permuting them is a sound symmetry.

In `switch`, two rows let a crash fall between them; two sessions for one code let a
second one meet an invitation that is held, stale or spent; a second migration meets
what a first one left behind; two faults are a failure and the failure of its
clean-up. `MCSwitchSpace` combines two kinds of behaviour, since their product is too
large: the mover has the sponsor for itself, or it has no rows and shares the
sponsor (`Alone`, `Shared`). An unlock request is at work beside the switch
(`Overlapping`) where the mover is alone, has one row and meets no fault, and with
two migrations where it works on the one the switch is not at (`TwoRuns`); the rest
of that case is in the theorems. In `presence`, two connections are the least in which
one replaces the other while its watchdog runs; a channel of 2 (64 in the code)
overflows; 2 failures (3 in the code) put a peer to sleep. In `intake`, one slot
each makes the second capture evict the first; 2 attempts (5 in the code) are a
failure and a retry; a failing attempt of the worker costs one fault per message.
`MCHistoryIntake` orders the captures (`FirstIsX`: they are alike), lets writers of
different contents be local only (they meet nowhere but in the store), and lets
several faults meet one capture (`FewAtOnce`). Two contents do without a fault:
their captures meet over a slot only, which those of one content do too, after a
look-up that failed, and the safety properties are theorems for any number of
faults. In `delivery`, two fan-outs to one peer share a dial, and one to two peers
has a task on each side of the deadline; `MCDelivery` combines the two (`Apart`). In
`mobile`, two acts are two copies on one side, or one on each, or a copy and an
upload past the engine; two faults are a lost answer and the failure of its retry,
or two crashes; `MCMobileApp` leaves out two of each at once (`FewAtOnce`). A watermark
with two writers takes one act to arise and up to three more to matter
(`MoreWhenTorn`). A loop
threshold of 1 (the code has a larger one) lets the guard trip on content that is
pushed and comes back.

The theorems of section 6 do not depend on any of these bounds.

### Properties

* `Genuine`: no hop re-stamps or re-attributes an activation; frames and offers
  speak for whom they may.
* `NamedContentWasStored`: persistence precedes the register on every path.
* `FutureStatesWait`: on the state path, and with clocks that are never set back, the
  guard holds at the write although a pull may lie between. The content path has no
  guard (section 7).
* `RegisterNeverRegresses`: between restarts the register moves up only, although
  every path checks early and writes late.
* `RelaysOnlyItsRegister`: an activation that lost the race is not propagated.
* `ImplementsLww`: all of it implements the abstract register.
* `EventuallyConverged`, `EventuallyAtRest`: nobody is left behind, but the activator
  of an activation and those it finds after its content was deleted (`Kept`); no
  endless rewriting.
* `LedgerBounded`: the caps hold, and arming a write again never doubles its record.
* `EachRecordAnswersOnce`: no armed record silences two copies.
* `BreakerSettles`: concurrent failures leave a count below the threshold.
* `EchoAttributed`: a write that comes back unchanged and in time is found to be
  that write's, in every order of arming, writing, failing and observing.
* `OnlyLiveRecordsAnswer`: a short-lived record does not outlive its time behind
  a long-lived one.
* `UndisturbedCopyCaptured`: writes that each ran their course leave nothing
  behind that swallows the user's next copy.
* `ImplementsMembership`: a device makes a space its own only after the sponsor
  recorded it as a member and then as trusted, whatever is lost or times out.
* `InvitationServesOne`: around expiry, cancellation and failed offers, at most one
  session of a code is sent the keyslot.
* `PromisedRowsRecoverable`, `CommittedRowsMoved`: every row `HandshakeDone` was
  written for opens with the keyslot or has a backup whose key a restart finds;
  the setup names the new space only when none is left under the old key. Unlock
  requests swap, commit and drop beside the switch meanwhile. Nothing is promised
  when such a request was at work as `HandshakeDone` was written, or had given the
  migration up before (section 7, "Switch").
* `HandshakeEnds`, `MigrationFinishes`: no side waits for ever; an interrupted
  migration is finished by some later unlock.
* `AbandonLosesNothing`: what a resume gives up was not needed (`stranded`).
* `SleepersAreOffline`: no peer reported online is parked by the keepalive worker.
* `EventuallyOnline`, `EventuallyOffline`: however late watchdogs and dials write,
  a peer that stays up or down is reported so in the end.
* `OneEntryPerContent`, `UpgradesOnlyTheMissing`: the identity lock and what it
  guards, next to deletions that do not take it.
* `NoPhantomEntry`, `LostIsGone`: bytes an entry promises are on disk; nothing is
  given up whose bytes are there. Excepted is what a start's sweep takes from a
  capture under way (`swept`); `GivenUpIsGone` has no such exception (`startrace`).
* `QueuedIsSettled`: what the worker was told of gets done or takes its attempts.
* `SingleDial`: concurrent fan-outs to one peer dial once.
* `DeliveredWasReceived`: a row says delivered only if the peer read a frame.
* `OutcomesAreRecorded`: the deadline loses no outcome; `StragglersEnd`: and every
  deferred drain ends (`blocked`).
* `SyncInv`: besides the types, `IdentityIsHeld`: the phone dedups by contentId alone,
  so neither a buffer miss nor a lost answer nor a torn watermark may leave it one of
  content the desktop does not have.
* `NothingIsMissed`: through lost answers, failing downloads, re-copies, uploads past
  the engine and calls that end out of order, the phone ends up with what the desktop
  shows, or is offered it, or has exchanged it last. Excepted are a paused app,
  hand-overs that the loop guard, a crash or a failing write cut short, and the one
  outcome of a watermark with two writers that section 7 describes (`torn`, "Mobile").
* `FailedWriteIsRetried`: what a comment says of a failing write (`unwritten`).

Every property of every passing run has a mutant in `PROJECT.json`: an edit to
one mapped definition, of the kind a programmer might make, with which TLC finds
the property violated under the same configuration.

## 5. Fairness

`FairSpec` assumes weak fairness of

* each device's `LocalNext`, `WriteNext`, `AdvanceNext`, pulls and receives: they
  are tokio tasks and channel loops of a running process. Receiving is fair per
  sender, since each peer has a connection and stream tasks of its own;
* `Restart` and `Unlock`: the service manager or the user starts the daemon
  again, and `startup_recovery.rs` unlocks it (or the user does);
* `Resync(d, p)`: `peer_keepalive.rs` dials every peer every 25 s and
  `presence_adapter.rs:533-536` broadcasts `Online` on each successful dial, also
  when the peer was online already, so the worker is triggered again and again;
* `Tick`: time passes.

Nothing is assumed of user operations or faults; their number is finite in an
instance, which is what "after the last operation" in a liveness property means.

`SwitchSpace` assumes that the sponsor's event loop turns, that both handshake
time-outs fire, that the joiner's steps and the two migration tasks run, and that
the daemon is started, unlocked and asked to resume again (`Unlock`,
`ResumePending`: every start and every unlock request tries). Invitations,
dials, captures, locks and crashes are not fair.

`Presence` assumes that each task's steps are taken, that watchdogs and idle
time-outs notice, that a connection once accepted is handled to its end, that
ticks, the fallback tick, the worker's reading of events and the ageing of a
verification come. It does not assume that the peer calls, that anybody else
asks, or that a dial fails without a verdict.

`HistoryIntake` assumes that captures, the worker and the sweeps of a start run.
The janitor, readers and deletions need not. `Delivery` assumes that each task's
next step is taken (tasks are polled, a dial ends within 4.5 s, a stream within
QUIC's idle time-out) and that each fan-out's drain goes on. A follower has no
step of its own: it waits for its leader.

`MobileApp` assumes that requests end (the client has time-outs), that back-off
windows pass, that the thread takes every step that is due, that a push, pull or
apply waiting for the mutex gets it although others do too (it is a queue: strong
fairness), and that the routine timer goes off while it is set, whatever else pulls
(strong fairness). It does not assume that the monitor notices a copy, that a push
starts, that a server-sent event comes, or that the user does anything.

## 6. Proofs

`TypeCorrect` (`ActiveClipboard_proofs`): `Spec => []TypeOK`, for any sets of
devices, contents and links, any bounds and any skew, from the named
assumptions in `Activation` and `ActiveClipboard` (devices are naturals standing
for their ids' order; the two markers differ from real values). `TypeOK` is
inductive as it stands. The proof has one step per action; helpers that build
frames and tasks have their own typing lemmas.

`ActiveClipboard_safety`:

* `ActivationsAreGenuine`: `Spec => []Genuine`. `Genuine` alone is not inductive:
  a content frame names its sender only because the watcher's reading it is made
  of does. The invariant is `GenuineInv == TypeOK /\ Genuine /\ Carried`, with
  `Carried` the conjunction of `OfferGenuine`, `PullGenuine`, `TasksGenuine`,
  `ObservedGenuine` (the addition) and `FramesGenuine`.
* `RegisterStep` is the lemma the rest stands on: under that invariant every
  action of a device does one of four things to registers and claims
  (`LwwStep`): nothing; claim an own activation and try it or not; try a claimed
  activation; or, when the process starts, clear the row.
* `RegistersOnlyMoveUp` (`Spec => RegisterNeverRegresses`) and `RefinesLww`
  (`Spec => ImplementsLww`) follow from `LwwStep` and the compare-and-set.
* `OnlyRegistersAreRelayed` (`Spec => RelaysOnlyItsRegister`): a restore offers the
  device's own activation (from `GenuineInv`), a resync sends the row, a relay
  follows a winning advance in the same step; no other action sends a state.
* `NamedWasStored` (`Spec => []NamedContentWasStored`): inductive given `TypeOK`,
  because what a device ever stored (`Stored`: held or since deleted) only grows.
* `FutureStatesStartNoWrite` (`Spec => []FutureStatesWait`): the invariant adds
  `PullsWait` (what is being pulled passed the guard too), and the argument needs
  that clocks do not run backwards. That is an assumption of the model about the
  wall clock: an operating system that sets it back breaks the property, and
  nothing else proved here.

Every safety property the runs check of `ActiveClipboard` is thereby proved for
all devices, contents, links and bounds.

`SelfWriteLedger_proofs`: `LedgerTyped`, `CapsHold`, `RecordsAnswerOnce`,
`BreakerComesToRest` and `AnswersAreLive`, from `ContentAssumption` and
`LimitAssumption`, for any number of writers. The invariant `IInv` has three parts:

* `LedgerInv`: each list is a finite set of records, within its cap, one per
  write (`List`); every record expires no later than the last arming of its
  attribution plus the budget (`Timely`), which is what `AnswersAreLive` needs;
  and the counting of `EachRecordAnswersOnce`. What arming and consuming do to a
  list is stated once (`RememberIsList` and the lemmas after it) and cited for
  each action. That a list which is not empty has an oldest record is proved
  from the well-foundedness of inclusion on finite sets (`OldestExists`).
* `SurroundingsInv`: the types of the rest.
* `Tripping`: the failures are below the threshold, or some writer is on its way
  to reset them. `BreakerSettles` alone is not inductive: it says nothing while
  writes are under way, and a writer that counts a failure needs to know what
  the others will do.

`SwitchSpace_proofs`: `TypeCorrect`, `InvitationsServeOne` and
`MembershipImplemented`, for any joiners, codes, rows and bounds, and for unlock
requests at any moment of a switch. Types are not inductive alone: the loop's and the
joiner's steps append to the queues of sessions they hold, so the invariant is
`TypeOK /\ SessionInv /\ RunInv` (sessions in use were dialled, a joiner's by itself;
a migration that starts has a number). `InvitationInv` adds that a code that was
offered is gone, and that a gone code stays gone. `MemberInv` carries "recorded as
member and as trusted" from the sponsor's loop to the joiner's setup: `HandlerInv`
(what is being confirmed), `ConfirmInv` (a confirmation on the wire), `JoinerInv` (a
joiner that persists) and `MigrationInv` (a migration past its handshake, in memory
or in the state file). The refinement maps "joined" to the joiners whose setup status
names the sponsor's space.

`PromisedRowsStay` and `CommitLeavesNone` (`PromisedRowsRecoverable`,
`CommittedRowsMoved`) hold however a switch and an unlock request interleave. Their
invariant `RowsInv` adds to the two properties

* `SlotInv`: the key in memory is the one on disk, and once the joiner persists the
  old key never comes back;
* `TurnInv`: the handshake is the switch's, and ends every earlier promise;
* `PhaseInv`: no other request writes HandshakeDone before the switch does;
* `BackupInv`: backups are of runs that were, and once an earlier migration has
  replaced the keys, a row still under the old one is in no backup that a later
  switch makes (it could not be read);
* `MoveInv`: a request that finishes has no promised row left to move, and one that
  still swaps works from the backups the state file names, with every row that is
  left on its list.

The argument is about two requests at once: while a promised row is not moved, no
request is past its swap, so neither the phase nor a backup changes and the keyring
only grows (`Loose`, `LooseStays`). Whichever request finishes first has moved every
row, and what the other then writes or drops is no longer needed.

`Presence_proofs`: `TypeCorrect` and `SleepersOffline`
(`Spec => []SleepersAreOffline`), for any number of connections and tasks and any
channel. The worker parks a peer when it collects the result of its dial, on the
ground of what that dial wrote earlier: `SleepInv` adds `OwnDial` (the worker has
one dial at a time) and `FailuresAreOffline` (between the dial's failure and its
collection the peer is offline, or an event that says otherwise is coming).

`HistoryIntake_proofs`: `OneEntry` (`Spec => []OneEntryPerContent`) and
`UpgradesReplaceTheMissing` (`Spec => UpgradesOnlyTheMissing`), for any number of
writers, contents, slots and faults, next to the sweeps of a start. `IInv` is the
conjunction of `TypeInv`, `EntryInv` (an entry has an event of its own, of its
content), `DeletionInv` (the event a deletion will remove has no other entry),
`LockInv` (two writers past the lock have different contents), `WriterInv` (what the
look-up found still holds: no entry, or the target, which is missing if it is to be
replaced) and `OneEntryPerContent`. Of a row it knows only whether it exists and
whether what it has is missing: the store's steps keep the first and never undo the
second, which is the lemma on the store (`RowsKept`).

The second half of the module is about the bytes:

* `TypeCorrect` (`Spec => []TypeOK`). Every sequence of the store keeps its elements
  under `Append`, `Tail`, `Newest` and `Without`; `Without` keeps what is kept by its
  rank, so that this can be proved by counting, where a filter would need induction.
* `PromisesAreKept` (`NoPhantomEntry`) and `LostAreGone` (`LostIsGone`), with captures
  at any moment of a start. `HeldInv` adds what makes them inductive: whatever the
  spool, the queue, the worker, the janitor, a reader or a scan names is of a capture
  that got as far as its spool write (`ToldInv`), so nobody else touches the row of an
  earlier one (`FreshInv`); what is about to be saved has its file (`SaveInv`); the
  worker removes the file of nothing that is pending or will be (`UnspoolInv`). Each
  of them but the first and the last excepts what a sweep took from the capture
  (`swept`), and the proofs show that a sweep takes nothing else. A step of the store
  satisfies `RowsHeld`, a step of a writer `WriterStep` (which sweeps nothing,
  `WriterSweeps`), and two lemmas (`StillHeld`, `WriterHolds`) carry `HeldInv` over
  any such step.

`Delivery_proofs`, for any peers, entries, number of fan-outs, and for hang-ups and
failing writes anywhere:

* `TypeCorrect` (`TypeOK`, inductive as it stands).
* `DialsAreSingle` (`SingleDial`): the count is bounded because whoever dials owns
  the peer's slot (`SlotInv`), and a slot has one owner. A leader that was aborted
  keeps its slot, which is finding 3 and does not hurt this property.
* `RowsAreTrue` (`DeliveredWasReceived`): `RecordInv` follows an outcome backwards
  from the row to the frame. `BufferInv`: an outcome waiting to be recorded is of a
  frame that was read; `AckInv`: so is a task that awaits or has its
  acknowledgement; `IdleInv`: a fan-out that has not started has no tasks and no
  outcomes of an earlier one. What every step keeps (`Lasting`) is one lemma.

`MobileApp_proofs`: `SyncIsSound` (`Spec => []SyncInv`: the types, and
`IdentityIsHeld`), for any contents, loop threshold, acts and faults. The invariant
`IInv` says in addition what a content staged by a pull and the identity in the
watermark on disk name (`EngineInv`: both contents of the desktop, since the staged
one becomes the identity later, the stored one after a crash), who holds the
engine's mutex and with which entry (`CallInv`), and that what the desktop shows is
what it has (`DesktopInv`).

Only model-checked: `EchoAttributed` and `UndisturbedCopyCaptured` (their proofs
need an invariant that follows each write from its arming to its echo), and every
liveness property, which is out of the prover's reach.

## 7. Findings

1. **`stranded`**. `switch_space/mod.rs:15-17` promises that a crash at any step
   is taken up at the next start. The handshake replaces the keys on disk before
   HandshakeDone is written. A crash in between leaves the phase at Prepared, which
   the resume gives up: it drops the backups and the migration key, while the rows
   need a key that is gone.
2. **`startrace`**. `staged_reconciler.rs:6-7` demotes what is gone "from both cache and
   spool", and `:24-25` takes the cache for empty at a start. `host.rs:155-163` spawns
   the sweeps next to everything else, and no capture waits for them. The first capture
   after a start inserts its row and puts the bytes into the cache; the reconciler
   lists the row, finds no file yet, and marks it Lost. The bytes are spooled a moment
   later, the entry is created, the worker refuses a Lost row, and the content stays
   unavailable. TLC needs eight states and no fault.
3. **`blocked`**. `fanout.rs:14-15`: tasks in flight at the deadline are handed
   back "so the caller can *finish and record* them". The leader of a shared dial
   frees its slot after the dial has returned, and no guard does it if the task is
   dropped. The handlers of `/clipboard/resend` and `/clipboard/dispatch` await
   their fan-out; when the client hangs up, axum drops the handler, the JoinSet
   aborts the leader, and its sender stays in `in_flight_dials`. Whoever sends to
   that peer afterwards follows a leader that is gone, and its deferred drain
    never ends, until the daemon restarts.
4. **`unwritten`**. The comment in `applyAppliedOutcome` (`SyncEngine.ts:809`) says
   that after a failing write "下次 pull 会重试应用": the next pull applies again. The
   engine has saved its watermark before it answered, so the next pull finds the
   entry already synced, and the content is never written while the desktop shows it.
   `onSyncSuccess` then replaces the error that `handleFailed` has shown.

What follows was met while modelling and is no run: most of it contradicts no
text, and where it does, what it affects is small.

*Active clipboard.* `reconcile.rs:18-19` keeps a row whose entry still matches the
OS clipboard; at a start with a locked space the entry cannot be decrypted, and the
row is cleared. A peer's resync brings it back, unless this device was the
activator. `apply_inbound.rs:13-15` promises that a fast-clocked peer cannot pin the
register; the guard is on the state path, and a content frame carries the same
time into the register. `reconcile.rs:8-9` calls `register == current OS clipboard`
the register's core invariant; the content path advances the register and then
starts a detached OS write whatever the register said (`usecase.rs:761-787`), and the
state path writes before its compare-and-set: when two activations overlap, a device
rests with a clipboard its register does not name, and no resync repairs it.

*Ledger.* A re-encoded echo that is handled between the OS write and the arming of
the fallback (`coordinator.rs:297-347`) finds no record, is captured as a copy, and
leaves the fallback behind. Two overlapping writes may arm their fallbacks in the
other order than the OS reports the writes, so that each change spends the other's.
`coordinator.rs:344-346` says that a duplicated push coalesces "instead of leaking a
fallback that would swallow a later copy". It does while the first fallback is armed;
once the first echo was attributed, a second write of the content arms both records
anew, the watcher drops its echo as a repetition, and the user's next copy is taken
for an echo, for up to 60 s.

*Start.* The other sweep, the scanner, deletes the file of a Replace that is spooled
and not yet committed: its row does not exist yet, so the file counts as an orphan.
The entry is then replaced by content whose bytes are in the cache alone.

*History.* A local copy of content whose entry is partial or lost only touches that
entry; the bytes it brings are dropped (`capture usecase.rs:351-353`), and so are a
frame's when the held entry cannot be rebuilt. Between two transactions of a
deletion an event survives its entry; `find_entry_id_by_snapshot_hash` (one row, no
order, no uniqueness) may pick that event, and a second entry is created (`misled`).
A failing `mark_failed` leaves a row pending until the next start.
`update_mime_type` relabels a TIFF before the compare-and-set to BlobReady, so a
failure in between leaves a row whose label is not its bytes'. More than 100 spooled
representations at a start leave the rest unqueued until they are read. A Replace
notifies the worker before its row exists. A Failed row is queued again by a
reader, though the worker's compare-and-set excludes Failed.

*Pairing.* "fires exactly one PairingOutcome per matched invitation"
(`orchestrator.rs:79-80`) does not hold when `begin` fails, a context times out or
its session closes. The watchdog may reject a joiner that has been admitted and
trusted, and the confirmation then finds no context. A failed confirmation leaves the
session open. A redemption has no guard on a completed setup: a device that has
joined may join again, which is modelled, and one that has a history of its own may
join instead of switching, which leaves its rows under a key it no longer has.

*Switch.* Rows captured during phases 1 and 2 are not in the backup (against
`mod.rs:60-65`). A failing phase 1 may leave its migration key (23-24). Backups that
could not be discarded make phase 3 of the next switch stop at each of them. A
failing `set_current(Prepared)` leaves backups and key. A state file torn between
truncation and writing loses the phase. An unlock request during a running switch
takes its phase for a stranded one (`facade.rs:409-413`). If it reads Prepared, it
drops the backups and the migration key although the switch is before or in its
handshake, or writes HandshakeDone meanwhile; the rows are then left under a key that
is gone, without any crash. Finding 1 is the same loss after a crash. Where the request
starts after HandshakeDone, the rows are safe, which the theorems show.

*Presence.* A watchdog removes whatever entry the peer has. A dial that errs before
a verdict may put a peer to sleep while it is online; inbound connections then send
no event and only the half-hourly tick finds it. The comment of `current_state`
("strictly consistent … both under lock") does not describe the locks taken.

*Delivery.* The row takes whatever is recorded last (`uc-core/clipboard/delivery.rs:57-59`):
a straggler of an earlier fan-out that fails late overwrites the success of a later
resend. The receiver acknowledges before its gates, decryption and application, so
a frame it drops counts as delivered and is left out of the next resend. A crash or
a hang-up before the flush leaves no row although the peer has the content.

*Mobile.* `engine.rs:9-13` says that a change on the server wins. What a push uploads
is read before it waits for the mutex: while a pull applies newer content, the push
then uploads the older over it, and phone and desktop are left with each other's. An
empty desktop answers 200 with an empty profile where `engine.rs:566` documents 404; a
phone with a watermark stages it, and its pushes upload nothing. A download that
fails once parks its entry until the user applies it, also with automatic apply. The
upload buffer is keyed by file name, images share one, and two phones' files mix; a
document whose file is gone is answered 200 (`apply_incoming.rs:224` says 400), and
the phone takes it for uploaded. Of long text the desktop takes the preview only. An
`apply_staged` ends a pause. A 401 pauses the engine until the server settings change.
The watermark is saved before the pasteboard is written: a crash or a tripped guard in
between loses the content. The Share Extension writes the same two keys as the engine,
without its lock. If its x falls between the two keys of a pull of y, the engine's
contentId is y's and the stored hash x's: when the desktop then goes back to y, and the
user takes x from the history again, the pull finds y synced and the push finds x
synced, and neither moves. `clearActivate` after an apply also wipes what the user
activated meanwhile. The monitor's callback in `clipboardStore.ts` activates each
change as the user's own, so that the anti-echo of `writeActivate` never counts.
Writes of a push's and a pull's answer may run out of order, and `pausePolling` does
not count. A success that settles after a pause hides the pause from the user while
timer and event stream stay stopped.

## 8. Limits

* `EventuallyConverged` leaves the activator of an activation out, because the
  code never sends it back: an activator that lost its register stays without
  until something newer happens. For the same reason the chain is checked
  without faults: a middle device that is the activator, and lost its register,
  has nothing to relay.
* `EventuallyConverged` leaves out content that somebody has deleted (`Kept`): when all
  holders delete the content of a register, a late device cannot get it. The chain
  has no deletions.
* With clocks that read the same millisecond twice, one device can make two
  activations with equal keys. The safety theorems cover this; the runs assume
  distinct readings (`CoarseClock = FALSE`).
* `EchoAttributed` does not speak of content that is written or copied more than
  once, of readings repeated after the watcher's window, or of more writes than
  the content cap; `UndisturbedCopyCaptured` speaks of writes one after the other.
* `SwitchSpace` has one switch and one unlock request, which may overlap; two of one
  kind at once are not modelled, nor is a device with a history that redeems an
  invitation instead of switching. `PromisedRowsRecoverable` and `MigrationFinishes`
  speak of what the state file records; the first promises nothing of a migration
  that an unlock request had taken for a stranded one.
* `Presence` leaves the sticky offline window (`last_offline_at`) out and abstracts
  durations; `SleepersAreOffline` exempts lost events (`blind`).
* `HistoryIntake` has one large representation per capture, no inline
  representations, file sets, thumbnails, selection rows or duplicate window by
  visible key. `NoPhantomEntry` and `LostIsGone` except what a sweep of a start takes
  from a capture under way (`swept`).
  `OneEntryPerContent` exempts contents whose look-up met a stray event (`misled`).
* `Delivery` exempts fan-outs that were dropped and peers behind an orphaned slot
  from `OutcomesAreRecorded`; `blocked` is about those.
* `MobileApp` has one phone in the foreground with one address and automatic upload;
  what is attached is an image. Of the LAN server it has the exchange of one
  document, not its start, its devices and its passwords, nor history sync. Answers of
  different calls may settle in either order, except before the server is changed or
  a loop acknowledged. Two pulls overlap when one of them is a refresh; two refreshes at
  once are not modelled. `NothingIsMissed` counts content the phone exchanged last as
  not missed even where the pasteboard shows something newer.
* Not modelled, and why: cryptography and wire formats (pure functions), search
  (a derived index), configuration migration (sequential), shell, command line,
  user interface and update server (no replicated state), the file transfer's status
  rows (planned).
