------------------------------ MODULE Presence ------------------------------
(***************************************************************************)
(* What one device believes about the reachability of one peer: the maps   *)
(* of the presence adapter (presence_adapter.rs), the tasks that read and  *)
(* write them a lock at a time, and the keepalive worker that follows its  *)
(* events (peer_keepalive.rs).  All of this state is kept per peer, so one *)
(* peer stands for each.                                                   *)
(*                                                                         *)
(* Durations are abstracted: a verification ages, a tick comes, an idle    *)
(* connection times out, at any moment but eventually.                     *)
(***************************************************************************)
EXTENDS Naturals, Sequences, FiniteSets

CONSTANTS
    Conn,           \* connections that may exist at one time
    NoConn,         \* none of them
    Worker,         \* the task of the keepalive worker's own dials
    Other,          \* other tasks: the dials it spawns, and other callers
    EventCapacity,  \* capacity of the event channel
    SleepAfter,     \* SLEEP_AFTER_FAILURES
    MaxFlips,       \* bound: how often the peer goes down or comes back
    MaxFaults       \* bound: failures while it is up, connections of its
                    \* own, and requests of other callers

ASSUME PresenceAssumption ==
    /\ NoConn \notin Conn
    /\ Worker \notin Other
    /\ EventCapacity \in Nat \ {0}
    /\ SleepAfter \in Nat \ {0}
    /\ MaxFlips \in Nat
    /\ MaxFaults \in Nat

VARIABLES
    up,         \* whether the peer answers
    open,       \* connections without a close reason
    dying,      \* those of them that will time out
    tracked,    \* the connection in the peers map
    fresh,      \* whether it was verified within FAST_PATH_TTL
    watchdog,   \* watchdog[c]: the task that waits for c to close
    lastState,  \* last_state
    call,       \* call[t]: the operation the task t runs
    inbound,    \* where the handler of the peer's connection is
    events,     \* the events the keepalive worker has not read
    backoff,    \* consecutive failures; SleepAfter is Sleeping
    waiting,    \* whether the worker waits for its dial
    flips,      \* bound
    faults,     \* bound
    blind       \* history: an event was lost, or a dial failed in silence

adapterVars == <<tracked, fresh, watchdog, lastState, call, inbound>>
peerVars == <<up, open, dying>>
workerVars == <<backoff, waiting>>
countVars == <<flips, faults>>
vars == <<adapterVars, peerVars, workerVars, events, countVars, blind>>

Task == {Worker} \cup Other
State == {"online", "offline"}
CallStep == {"idle", "look up", "dial", "insert", "set online",
             "announce online", "announce kept", "announce offline", "close",
             "set offline", "done"}
Operation == {"ensure", "verify", "mark"}
NoCall == [op |-> "ensure", at |-> "idle", conn |-> NoConn, result |-> "offline"]

TypeOK ==
    /\ up \in BOOLEAN /\ fresh \in BOOLEAN
    /\ inbound \in {"idle", "resolve", "announce"} /\ waiting \in BOOLEAN /\ blind \in BOOLEAN
    /\ dying \subseteq open /\ open \subseteq Conn
    /\ tracked \in Conn \cup {NoConn}
    /\ watchdog \in [Conn -> {"none", "waits", "offline", "announce"}]
    /\ lastState \in State \cup {"unknown"}
    /\ call \in [Task -> [op : Operation, at : CallStep,
                          conn : Conn \cup {NoConn}, result : State]]
    /\ events \in Seq(State) /\ Len(events) <= EventCapacity
    /\ backoff \in 0 .. SleepAfter
    /\ flips \in 0 .. MaxFlips /\ faults \in 0 .. MaxFaults

Init ==
    /\ up \in BOOLEAN
    /\ open = {} /\ dying = {}
    /\ tracked = NoConn /\ fresh = FALSE
    /\ watchdog = [c \in Conn |-> "none"]
    /\ lastState = "unknown"
    /\ call = [t \in Task |-> NoCall]
    /\ inbound = "idle"
    /\ events = <<>>
    /\ backoff = 0 /\ waiting = FALSE
    /\ flips = 0 /\ faults = 0
    /\ blind = FALSE

Fault == faults < MaxFaults /\ faults' = faults + 1 /\ UNCHANGED flips
NoFault == UNCHANGED countVars

-----------------------------------------------------------------------------
(* Helpers. *)

(* event_tx.send; a receiver that lags behind loses the oldest event.      *)
Send(state) ==
    IF Len(events) < EventCapacity
    THEN events' = Append(events, state) /\ UNCHANGED blind
    ELSE events' = Append(Tail(events), state) /\ blind' = TRUE

Quiet == UNCHANGED <<events, blind>>

CallAt(t, step) == call[t].at = step
GoTo(t, step) == call' = [call EXCEPT ![t].at = step]
Return(t, state) ==
    call' = [call EXCEPT ![t] = [NoCall EXCEPT !.at = "done", !.result = state]]

(* The handles of these connections are dropped, which closes them.        *)
Close(conns) == open' = open \ conns /\ dying' = dying \ conns

(* A watchdog that waits is cancelled where it waits; one whose connection  *)
(* has closed may run already, and is cancelled only if it waits again.     *)
Cancelled(conns) ==
    {some \in SUBSET {c \in conns : watchdog[c] # "announce"} :
        conns \cap open \subseteq some}

Abort(conns) ==
    \E some \in Cancelled(conns) :
        watchdog' = [c \in Conn |-> IF c \in some THEN "none" ELSE watchdog[c]]

Tracked == {tracked} \ {NoConn}

Unused ==
    {c \in Conn \ (open \cup Tracked) :
        watchdog[c] = "none" /\ \A t \in Task : call[t].conn # c}

(* The peers map is locked while the connection it held is announced.      *)
PeersUnlocked == \A t \in Task : ~ CallAt(t, "announce kept")

-----------------------------------------------------------------------------
(* ensure_reachable, verify_reachable and mark_offline, a lock at a time.  *)

Start(t, op) ==
    call' = [call EXCEPT ![t] =
        [NoCall EXCEPT !.op = op,
                       !.at = CASE op = "ensure" -> "look up"
                                [] op = "verify" -> "dial"
                                [] op = "mark" -> "close"]]

Alive == tracked \in open

(* Defect: a connection is trusted for as long as it looks open.           *)
FastPathUnverified == Alive

FastPath == Alive /\ fresh

LookUp(t) ==
    /\ CallAt(t, "look up")
    /\ PeersUnlocked
    /\ IF FastPath
       THEN /\ Return(t, "online")
            /\ UNCHANGED <<tracked, fresh, watchdog, open, dying>>
       ELSE /\ tracked' = NoConn
            /\ fresh' = FALSE
            /\ Abort(Tracked)
            /\ Close(Tracked)
            /\ GoTo(t, "dial")
    /\ Quiet /\ NoFault
    /\ UNCHANGED <<up, lastState, inbound, workerVars>>

DialSucceeds(t) ==
    /\ CallAt(t, "dial")
    /\ up
    /\ Unused # {}
    /\ LET c == CHOOSE c \in Unused : TRUE IN
         /\ open' = open \cup {c}
         /\ watchdog' = [watchdog EXCEPT ![c] = "waits"]
         /\ call' = [call EXCEPT ![t].at = "insert", ![t].conn = c]
    /\ Quiet /\ NoFault
    /\ UNCHANGED <<up, dying, tracked, fresh, lastState, inbound, workerVars>>

(* A live entry that is there already is kept, and the new connection is   *)
(* dropped; otherwise whatever was there is replaced.                      *)
Insert(t) ==
    /\ CallAt(t, "insert")
    /\ PeersUnlocked
    /\ fresh' = TRUE
    /\ IF Alive
       THEN /\ Abort({call[t].conn})
            /\ Close({call[t].conn})
            /\ lastState' = "online"
            /\ call' = [call EXCEPT ![t].at = "announce kept",
                                    ![t].conn = NoConn]
            /\ UNCHANGED tracked
       ELSE /\ tracked' = call[t].conn
            /\ Abort(Tracked)
            /\ call' = [call EXCEPT ![t].at = "set online", ![t].conn = NoConn]
            /\ UNCHANGED <<open, dying, lastState>>
    /\ Quiet /\ NoFault
    /\ UNCHANGED <<up, inbound, workerVars>>

SetOnline(t) ==
    /\ CallAt(t, "set online")
    /\ lastState' = "online"
    /\ GoTo(t, "announce online")
    /\ Quiet /\ NoFault
    /\ UNCHANGED <<peerVars, tracked, fresh, watchdog, inbound, workerVars>>

AnnounceOnline(t) ==
    /\ CallAt(t, "announce online") \/ CallAt(t, "announce kept")
    /\ Send("online")
    /\ Return(t, "online")
    /\ NoFault
    /\ UNCHANGED <<peerVars, tracked, fresh, watchdog, lastState, inbound,
                   workerVars>>

(* Defect: a failed dial leaves last_state to the watchdogs.               *)
AfterFailedDialUnchanged == lastState

AfterFailedDial == "offline"

DialFails(t) ==
    /\ CallAt(t, "dial")
    /\ IF up THEN Fault ELSE NoFault
    /\ lastState' = AfterFailedDial
    /\ GoTo(t, "announce offline")
    /\ Quiet
    /\ UNCHANGED <<peerVars, tracked, fresh, watchdog, inbound, workerVars>>

(* No address record, or the repository fails: an error, and no verdict.   *)
DialErrs(t) ==
    /\ CallAt(t, "dial")
    /\ Fault
    /\ Return(t, "offline")
    /\ blind' = TRUE
    /\ UNCHANGED <<peerVars, tracked, fresh, watchdog, lastState, inbound,
                   workerVars, events>>

AnnounceOffline(t) ==
    /\ CallAt(t, "announce offline")
    /\ Send("offline")
    /\ IF call[t].op = "verify" THEN GoTo(t, "close") ELSE Return(t, "offline")
    /\ NoFault
    /\ UNCHANGED <<peerVars, tracked, fresh, watchdog, lastState, inbound,
                   workerVars>>

(* The stale entry is closed and then dropped: its watchdog may have seen  *)
(* the closing before the drop aborts it.                                  *)
CloseStale(t) ==
    /\ CallAt(t, "close")
    /\ PeersUnlocked
    /\ tracked' = NoConn
    /\ fresh' = FALSE
    /\ Close(Tracked)
    /\ Abort(Tracked) \/ UNCHANGED watchdog
    /\ IF call[t].op = "mark" THEN GoTo(t, "set offline")
                              ELSE Return(t, "offline")
    /\ Quiet /\ NoFault
    /\ UNCHANGED <<up, lastState, inbound, workerVars>>

SetOffline(t) ==
    /\ CallAt(t, "set offline")
    /\ lastState' = "offline"
    /\ IF lastState = "offline" THEN Return(t, "offline")
                                ELSE GoTo(t, "announce offline")
    /\ Quiet /\ NoFault
    /\ UNCHANGED <<peerVars, tracked, fresh, watchdog, inbound, workerVars>>

(* The facade and the other adapters may ask at any time.                  *)
Ask(t, op) ==
    /\ t # Worker
    /\ CallAt(t, "idle")
    /\ Fault
    /\ Start(t, op)
    /\ Quiet
    /\ UNCHANGED <<peerVars, tracked, fresh, watchdog, lastState, inbound,
                   workerVars>>

(* Nobody is told the answer but the worker.                               *)
Forget(t) ==
    /\ t # Worker
    /\ CallAt(t, "done")
    /\ call' = [call EXCEPT ![t] = NoCall]
    /\ Quiet /\ NoFault
    /\ UNCHANGED <<peerVars, tracked, fresh, watchdog, lastState, inbound,
                   workerVars>>

-----------------------------------------------------------------------------
(* The peer's own presence connection; nobody watches it close, and the    *)
(* peer may be gone again before its device is resolved.                   *)

Accept ==
    /\ up
    /\ inbound = "idle"
    /\ inbound' = "resolve"
    /\ Fault
    /\ Quiet
    /\ UNCHANGED <<peerVars, tracked, fresh, watchdog, lastState, call,
                   workerVars>>

SetInboundOnline ==
    /\ inbound = "resolve"
    /\ lastState' = "online"
    /\ inbound' = IF lastState = "online" THEN "idle" ELSE "announce"
    /\ Quiet /\ NoFault
    /\ UNCHANGED <<peerVars, tracked, fresh, watchdog, call, workerVars>>

AnnounceInbound ==
    /\ inbound = "announce"
    /\ inbound' = "idle"
    /\ Send("online")
    /\ NoFault
    /\ UNCHANGED <<peerVars, tracked, fresh, watchdog, lastState, call,
                   workerVars>>

-----------------------------------------------------------------------------
(* The watchdog of a connection removes the entry of its peer, whichever   *)
(* connection it holds.  Dropping its own entry aborts the watchdog, which *)
(* takes effect if it then has to wait for a lock.                         *)

WatchdogRemoves(c) ==
    /\ watchdog[c] = "waits"
    /\ c \notin open
    /\ PeersUnlocked
    /\ tracked' = NoConn
    /\ fresh' = FALSE
    /\ Close(Tracked)
    /\ \E some \in Cancelled(Tracked) :
         watchdog' = [d \in Conn |-> IF d \in some THEN "none"
                                     ELSE IF d = c THEN "offline"
                                     ELSE watchdog[d]]
    /\ Quiet /\ NoFault
    /\ UNCHANGED <<up, lastState, call, inbound, workerVars>>

WatchdogSetsOffline(c) ==
    /\ watchdog[c] = "offline"
    /\ watchdog' = [watchdog EXCEPT ![c] = "announce"]
    /\ lastState' = "offline"
    /\ Quiet /\ NoFault
    /\ UNCHANGED <<peerVars, tracked, fresh, call, inbound, workerVars>>

WatchdogAnnounces(c) ==
    /\ watchdog[c] = "announce"
    /\ watchdog' = [watchdog EXCEPT ![c] = "none"]
    /\ Send("offline")
    /\ NoFault
    /\ UNCHANGED <<peerVars, tracked, fresh, lastState, call, inbound,
                   workerVars>>

-----------------------------------------------------------------------------
(* The keepalive worker.  Events come first in its select, and it reads    *)
(* none while it waits for its own dial.                                   *)

Sleeping == backoff = SleepAfter

Dials ==
    /\ ~ waiting
    /\ events = <<>>
    /\ CallAt(Worker, "idle")
    /\ Start(Worker, "ensure")
    /\ waiting' = TRUE
    /\ Quiet /\ NoFault
    /\ UNCHANGED <<peerVars, tracked, fresh, watchdog, lastState, inbound,
                   backoff>>

Tick == ~ Sleeping /\ Dials

FallbackTick == Sleeping /\ Dials

(* Defect: a peer that sleeps fails on.                                     *)
AfterFailureUncapped == backoff + 1

AfterFailure == IF Sleeping THEN backoff ELSE backoff + 1

Join ==
    /\ waiting
    /\ CallAt(Worker, "done")
    /\ backoff' = IF call[Worker].result = "online" THEN 0 ELSE AfterFailure
    /\ waiting' = FALSE
    /\ call' = [call EXCEPT ![Worker] = NoCall]
    /\ Quiet /\ NoFault
    /\ UNCHANGED <<peerVars, tracked, fresh, watchdog, lastState, inbound>>

(* Defect: an event cannot wake a peer that sleeps.                        *)
ResetUnlessSleeping == IF Sleeping THEN backoff ELSE 0

ResetBackoff == 0

(* The worker does not wait for the dial it spawns; that a task is free    *)
(* for it is a bound.                                                      *)
OnEvent ==
    /\ ~ waiting
    /\ events # <<>>
    /\ events' = Tail(events)
    /\ IF Head(events) = "online"
       THEN /\ backoff' = ResetBackoff
            /\ \E t \in Other : CallAt(t, "idle") /\ Start(t, "ensure")
       ELSE UNCHANGED <<backoff, call>>
    /\ NoFault
    /\ UNCHANGED <<peerVars, tracked, fresh, watchdog, lastState, inbound,
                   waiting, blind>>

-----------------------------------------------------------------------------
(* The network and the clock. *)

(* A peer that is gone says nothing; its connections time out.             *)
Flips ==
    /\ flips < MaxFlips
    /\ flips' = flips + 1
    /\ up' = ~ up
    /\ dying' = IF up THEN open ELSE dying
    /\ UNCHANGED <<open, adapterVars, workerVars, events, faults, blind>>

IdleTimeout(c) ==
    /\ c \in dying
    /\ Close({c})
    /\ Quiet /\ NoFault
    /\ UNCHANGED <<up, adapterVars, workerVars>>

(* A connection is lost while the peer is up.                              *)
Lost(c) ==
    /\ c \in open \ dying
    /\ Fault
    /\ Close({c})
    /\ Quiet
    /\ UNCHANGED <<up, adapterVars, workerVars>>

(* FAST_PATH_TTL passes.                                                   *)
Age ==
    /\ fresh
    /\ fresh' = FALSE
    /\ Quiet /\ NoFault
    /\ UNCHANGED <<peerVars, tracked, watchdog, lastState, call, inbound,
                   workerVars>>

-----------------------------------------------------------------------------
Dial(t) == DialSucceeds(t) \/ DialFails(t)

Step(t) ==
    \/ LookUp(t) \/ Dial(t) \/ Insert(t) \/ SetOnline(t) \/ AnnounceOnline(t)
    \/ AnnounceOffline(t) \/ CloseStale(t) \/ SetOffline(t) \/ Forget(t)

Watchdog(c) ==
    WatchdogRemoves(c) \/ WatchdogSetsOffline(c) \/ WatchdogAnnounces(c)

Next ==
    \/ \E t \in Task : Step(t) \/ DialErrs(t) \/ \E op \in Operation : Ask(t, op)
    \/ \E c \in Conn : Watchdog(c) \/ IdleTimeout(c) \/ Lost(c)
    \/ Accept \/ SetInboundOnline \/ AnnounceInbound
    \/ Tick \/ FallbackTick \/ Join \/ OnEvent
    \/ Flips \/ Age

Spec == Init /\ [][Next]_vars

(* A spawned task runs, a dial ends, a closed or silent connection is      *)
(* noticed, and the worker's loop turns.  Nobody has to ask, and the peer  *)
(* need not call.                                                          *)
Fairness ==
    /\ \A t \in Task : WF_vars(Step(t))
    /\ \A c \in Conn : WF_vars(Watchdog(c)) /\ WF_vars(IdleTimeout(c))
    /\ WF_vars(SetInboundOnline) /\ WF_vars(AnnounceInbound)
    /\ WF_vars(Tick) /\ WF_vars(FallbackTick) /\ WF_vars(Join)
    /\ WF_vars(OnEvent) /\ WF_vars(Age)

FairSpec == Spec /\ Fairness

-----------------------------------------------------------------------------
(* Properties. *)

(* A peer that stays up is in the end reported online for good, however    *)
(* late the watchdogs of its earlier connections, failed dials and         *)
(* accepted connections write last_state (presence_adapter.rs 523-583,     *)
(* 816-833).                                                               *)
EventuallyOnline == <>[] up => <>[] (lastState = "online")

(* A peer that stays down is in the end not reported online, even if the   *)
(* watchdog that should say so was aborted by removing its own entry       *)
(* (presence_adapter.rs 812-818).                                          *)
EventuallyOffline == <>[] ~ up => <>[] (lastState # "online")

OnlineIsComing ==
    \/ "online" \in {events[i] : i \in 1 .. Len(events)}
    \/ inbound = "announce"
    \/ \E t \in Task : call[t].at \in {"announce online", "announce kept"}

(* The worker parks no peer that is reported online: whatever put it back  *)
(* online has told the worker or is about to, unless an event was lost or  *)
(* a dial failed without a verdict (peer_keepalive.rs 31-39, 406-423).     *)
SleepersAreOffline ==
    Sleeping /\ lastState = "online" => OnlineIsComing \/ blind
=============================================================================
