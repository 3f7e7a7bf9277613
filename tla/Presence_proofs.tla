--------------------------- MODULE Presence_proofs ---------------------------
(***************************************************************************)
(* Type correctness of the presence maps, and the keepalive worker's       *)
(* promise that no peer it has put to sleep is reported online: for any    *)
(* number of connections, tasks, failures and any capacity of the channel. *)
(***************************************************************************)
EXTENDS Presence, SequenceTheorems, TLAPS

-----------------------------------------------------------------------------
(* The types the steps build. *)

Call == [op : Operation, at : CallStep, conn : Conn \cup {NoConn},
         result : State]

LEMMA CallMoves ==
    ASSUME call \in [Task -> Call], NEW t \in Task, NEW step \in CallStep,
           NEW state \in State, NEW o \in Operation, NEW c \in Conn \cup {NoConn}
    PROVE  /\ [call EXCEPT ![t].at = step] \in [Task -> Call]
           /\ [call EXCEPT ![t].at = step, ![t].conn = c] \in [Task -> Call]
           /\ [call EXCEPT ![t] = [NoCall EXCEPT !.at = "done",
                                                 !.result = state]]
                \in [Task -> Call]
           /\ [call EXCEPT ![t] = [NoCall EXCEPT !.op = o, !.at = step]]
                \in [Task -> Call]
           /\ [call EXCEPT ![t] = NoCall] \in [Task -> Call]
<1>1. NoCall \in Call
  BY DEF NoCall, Call, Operation, CallStep, State
<1>2. /\ [NoCall EXCEPT !.at = "done", !.result = state] \in Call
      /\ [NoCall EXCEPT !.op = o, !.at = step] \in Call
  BY DEF NoCall, Call, Operation, CallStep, State
<1>3. /\ [call[t] EXCEPT !.at = step] \in Call
      /\ [call[t] EXCEPT !.at = step, !.conn = c] \in Call
  BY DEF Call
<1>4. /\ [call EXCEPT ![t].at = step] = [call EXCEPT ![t] = [@ EXCEPT !.at = step]]
      /\ [call EXCEPT ![t].at = step, ![t].conn = c]
            = [call EXCEPT ![t] = [@ EXCEPT !.at = step, !.conn = c]]
  OBVIOUS
<1> QED BY <1>1, <1>2, <1>3, <1>4

(* What an event subscriber has yet to read. *)
Unread == {events[i] : i \in 1 .. Len(events)}

LEMMA SendKeeps ==
    ASSUME TypeOK, NEW state \in State, Send(state)
    PROVE  /\ events' \in Seq(State) /\ Len(events') <= EventCapacity
           /\ blind' \in BOOLEAN
           /\ state \in Unread'
           /\ blind => blind'
           /\ "online" \in Unread => "online" \in Unread' \/ blind'
<1>1. /\ events \in Seq(State) /\ Len(events) <= EventCapacity
      /\ blind \in BOOLEAN /\ EventCapacity \in Nat \ {0}
  BY PresenceAssumption DEF TypeOK
<1>2. CASE Len(events) < EventCapacity
  <2>1. events' = Append(events, state) /\ blind' = blind
    BY <1>2 DEF Send
  <2>2. /\ events' \in Seq(State) /\ Len(events') = Len(events) + 1
        /\ events'[Len(events) + 1] = state
        /\ \A i \in 1 .. Len(events) : events'[i] = events[i]
    BY <1>1, <2>1, AppendProperties
  <2>3. Len(events) \in Nat
    BY <1>1, LenProperties
  <2> QED BY <1>1, <1>2, <2>1, <2>2, <2>3 DEF Unread
<1>3. CASE ~ (Len(events) < EventCapacity)
  <2>1. events' = Append(Tail(events), state) /\ blind' = TRUE
    BY <1>3 DEF Send
  <2>2. Len(events) \in Nat /\ events # <<>>
    BY <1>1, <1>3, LenProperties, EmptySeq
  <2>3. Tail(events) \in Seq(State) /\ Len(Tail(events)) = Len(events) - 1
    BY <1>1, <2>2, HeadTailProperties
  <2>4. /\ events' \in Seq(State) /\ Len(events') = Len(events)
        /\ events'[Len(events)] = state
    BY <2>1, <2>2, <2>3, AppendProperties
  <2>5. Len(events) \in 1 .. Len(events') /\ Len(events') <= EventCapacity
    BY <1>1, <2>2, <2>4, LenProperties, EmptySeq
  <2>6. state \in Unread'
    BY <2>4, <2>5 DEF Unread
  <2> QED BY <1>1, <2>1, <2>4, <2>5, <2>6
<1> QED BY <1>2, <1>3

LEMMA ReadKeeps ==
    ASSUME TypeOK, events # <<>>, events' = Tail(events)
    PROVE  /\ events' \in Seq(State) /\ Len(events') <= EventCapacity
           /\ Head(events) # "online" /\ "online" \in Unread => "online" \in Unread'
<1>1. events \in Seq(State) /\ Len(events) <= EventCapacity /\ EventCapacity \in Nat
  BY PresenceAssumption DEF TypeOK
<1>2. Len(events) \in Nat /\ Len(events) # 0
  BY <1>1, LenProperties, EmptySeq
<1>3. /\ Tail(events) \in Seq(State) /\ Len(Tail(events)) = Len(events) - 1
      /\ \A i \in 1 .. Len(Tail(events)) : Tail(events)[i] = events[i + 1]
      /\ Head(events) = events[1]
  BY <1>1, HeadTailProperties
<1>4. ASSUME Head(events) # "online", "online" \in Unread
      PROVE  "online" \in Unread'
  <2>1. PICK i \in 1 .. Len(events) : events[i] = "online"
    BY <1>4 DEF Unread
  <2>2. i - 1 \in 1 .. Len(Tail(events)) /\ Tail(events)[i - 1] = "online"
    BY <1>2, <1>3, <1>4, <2>1
  <2> QED BY <2>2 DEF Unread
<1> QED BY <1>1, <1>2, <1>3, <1>4

-----------------------------------------------------------------------------
(* Type correctness, one step per action. *)

MapType ==
    /\ fresh \in BOOLEAN
    /\ inbound \in {"idle", "resolve", "announce"}
    /\ tracked \in Conn \cup {NoConn}
    /\ watchdog \in [Conn -> {"none", "waits", "offline", "announce"}]
    /\ lastState \in State \cup {"unknown"}
    /\ call \in [Task -> Call]

PeerType == up \in BOOLEAN /\ dying \subseteq open /\ open \subseteq Conn

EventType ==
    /\ blind \in BOOLEAN
    /\ events \in Seq(State) /\ Len(events) <= EventCapacity

WorkerType == waiting \in BOOLEAN /\ backoff \in 0 .. SleepAfter

CountType == flips \in 0 .. MaxFlips /\ faults \in 0 .. MaxFaults

LEMMA TypeParts ==
    /\ TypeOK => MapType /\ PeerType /\ EventType /\ WorkerType /\ CountType
    /\ MapType' /\ PeerType' /\ EventType' /\ WorkerType' /\ CountType' => TypeOK'
BY Zenon DEF TypeOK, MapType, PeerType, EventType, WorkerType, CountType, Call

LEMMA AbortType ==
    ASSUME MapType, NEW conns, Abort(conns)
    PROVE  watchdog' \in [Conn -> {"none", "waits", "offline", "announce"}]
BY DEF MapType, Abort

LEMMA TrackedType ==
    ASSUME MapType PROVE Tracked \subseteq Conn
BY DEF MapType, Tracked

LEMMA CloseType ==
    ASSUME PeerType, NEW conns, Close(conns), UNCHANGED up PROVE PeerType'
BY DEF PeerType, Close

LEMMA CountKeeps ==
    ASSUME CountType, Fault \/ NoFault PROVE CountType'
BY PresenceAssumption DEF CountType, Fault, NoFault, countVars

LEMMA EventKeeps ==
    ASSUME TypeOK, Quiet \/ Send("online") \/ Send("offline") PROVE EventType'
<1>1. "online" \in State /\ "offline" \in State
  BY DEF State
<1>2. CASE Quiet
  BY <1>2, TypeParts DEF Quiet, EventType
<1>3. CASE Send("online") \/ Send("offline")
  BY <1>1, <1>3, SendKeeps DEF EventType
<1> QED BY <1>2, <1>3

LEMMA CallKeeps ==
    ASSUME MapType, NEW t \in Task,
           \/ \E step \in CallStep : GoTo(t, step)
           \/ \E state \in State : Return(t, state)
           \/ \E o \in Operation : Start(t, o)
           \/ call' = [call EXCEPT ![t] = NoCall]
    PROVE  call' \in [Task -> Call]
<1>1. call \in [Task -> Call]
  BY DEF MapType
<1>2. /\ "idle" \in CallStep /\ "offline" \in State /\ "ensure" \in Operation
      /\ NoConn \in Conn \cup {NoConn}
  BY DEF CallStep, State, Operation
<1>3. ASSUME NEW step \in CallStep, GoTo(t, step) PROVE call' \in [Task -> Call]
  <2>1. [call EXCEPT ![t].at = step] \in [Task -> Call]
    BY <1>1, <1>2, CallMoves
  <2> QED BY <1>3, <2>1, Zenon DEF GoTo
<1>4. ASSUME NEW state \in State, Return(t, state) PROVE call' \in [Task -> Call]
  <2>1. [call EXCEPT ![t] = [NoCall EXCEPT !.at = "done", !.result = state]]
            \in [Task -> Call]
    BY <1>1, <1>2, CallMoves
  <2> QED BY <1>4, <2>1, Zenon DEF Return
<1>5. ASSUME NEW o \in Operation, Start(t, o) PROVE call' \in [Task -> Call]
  <2> DEFINE step == CASE o = "ensure" -> "look up"
                       [] o = "verify" -> "dial"
                       [] o = "mark" -> "close"
  <2>1. step \in CallStep
    BY DEF CallStep, Operation
  <2>2. [call EXCEPT ![t] = [NoCall EXCEPT !.op = o, !.at = step]]
            \in [Task -> Call]
    <3> HIDE DEF step
    <3> QED BY <1>1, <1>2, <2>1, CallMoves
  <2> QED BY <1>5, <2>2, Zenon DEF Start
<1>6. [call EXCEPT ![t] = NoCall] \in [Task -> Call]
  BY <1>1, <1>2, CallMoves
<1> QED BY <1>3, <1>4, <1>5, <1>6

(* The steps of a call leave the peer, the worker and the inbound handler  *)
(* alone, but for the connections they open and close.                     *)
LEMMA StepType ==
    ASSUME TypeOK, NEW t \in Task, Step(t) \/ DialErrs(t)
    PROVE  TypeOK'
<1>1. MapType /\ PeerType /\ EventType /\ WorkerType /\ CountType
  BY TypeParts
<1>2. /\ "online" \in State /\ "offline" \in State /\ "ensure" \in Operation
      /\ NoConn \in Conn \cup {NoConn}
      /\ {"idle", "dial", "insert", "set online", "announce online",
          "announce kept", "announce offline", "close", "set offline", "done"}
            \subseteq CallStep
  BY DEF State, Operation, CallStep
<1>3. CASE LookUp(t)
  <2>1. call' \in [Task -> Call]
    BY <1>1, <1>2, <1>3, CallKeeps DEF LookUp
  <2>2. MapType'
    BY <1>1, <1>2, <2>1, <1>3, AbortType DEF LookUp, MapType
  <2>3. PeerType' /\ WorkerType' /\ CountType' /\ EventType'
    BY <1>1, <1>3, CloseType, CountKeeps, EventKeeps
    DEF LookUp, workerVars, PeerType, WorkerType
  <2> QED BY <2>2, <2>3, TypeParts
<1>4. CASE DialSucceeds(t)
  <2>1. PICK c \in Unused : /\ open' = open \cup {c}
                            /\ watchdog' = [watchdog EXCEPT ![c] = "waits"]
                            /\ call' = [call EXCEPT ![t].at = "insert", ![t].conn = c]
    BY <1>4 DEF DialSucceeds
  <2>2. c \in Conn
    BY DEF Unused
  <2>3. [call EXCEPT ![t].at = "insert", ![t].conn = c] \in [Task -> Call]
    BY <1>1, <1>2, <2>2, CallMoves DEF MapType
  <2>4. MapType'
    BY <1>1, <1>4, <2>3, <2>1, <2>2, Zenon DEF DialSucceeds, MapType
  <2>5. PeerType' /\ WorkerType' /\ CountType' /\ EventType'
    BY <1>1, <1>4, <2>1, <2>2, CountKeeps, EventKeeps
    DEF DialSucceeds, workerVars, PeerType, WorkerType
  <2> QED BY <2>4, <2>5, TypeParts
<1>5. CASE Insert(t)
  <2>1. call[t].conn \in Conn \cup {NoConn}
    BY <1>1 DEF MapType, Call
  <2>2. /\ [call EXCEPT ![t].at = "announce kept", ![t].conn = NoConn]
              \in [Task -> Call]
        /\ [call EXCEPT ![t].at = "set online", ![t].conn = NoConn]
              \in [Task -> Call]
    BY <1>1, <1>2, CallMoves DEF MapType
  <2>3. MapType'
    BY <1>1, <1>2, <1>5, <2>2, <2>1, AbortType, Zenon DEF Insert, MapType
  <2>4. PeerType'
    BY <1>1, <1>5, CloseType DEF Insert, PeerType
  <2>5. WorkerType' /\ CountType' /\ EventType'
    BY <1>1, <1>5, CountKeeps, EventKeeps DEF Insert, workerVars, WorkerType
  <2> QED BY <2>3, <2>4, <2>5, TypeParts
<1>6. CASE SetOnline(t)
  <2>1. call' \in [Task -> Call]
    BY <1>1, <1>2, <1>6, CallKeeps DEF SetOnline
  <2>2. MapType'
    BY <1>1, <1>2, <2>1, <1>6 DEF SetOnline, MapType
  <2>3. PeerType' /\ WorkerType' /\ CountType' /\ EventType'
    BY <1>1, <1>6, CountKeeps, EventKeeps
    DEF SetOnline, peerVars, workerVars, PeerType, WorkerType
  <2> QED BY <2>2, <2>3, TypeParts
<1>7. CASE AnnounceOnline(t)
  <2>1. call' \in [Task -> Call]
    BY <1>1, <1>2, <1>7, CallKeeps DEF AnnounceOnline
  <2>2. MapType'
    BY <1>1, <1>2, <2>1, <1>7 DEF AnnounceOnline, MapType
  <2>3. PeerType' /\ WorkerType' /\ CountType' /\ EventType'
    BY <1>1, <1>7, CountKeeps, EventKeeps
    DEF AnnounceOnline, peerVars, workerVars, PeerType, WorkerType
  <2> QED BY <2>2, <2>3, TypeParts
<1>8. CASE DialFails(t)
  <2>1. call' \in [Task -> Call]
    BY <1>1, <1>2, <1>8, CallKeeps DEF DialFails
  <2>2. MapType'
    BY <1>1, <1>2, <2>1, <1>8 DEF DialFails, MapType, AfterFailedDial
  <2>3. PeerType' /\ WorkerType' /\ CountType' /\ EventType'
    BY <1>1, <1>8, CountKeeps, EventKeeps
    DEF DialFails, peerVars, workerVars, PeerType, WorkerType
  <2> QED BY <2>2, <2>3, TypeParts
<1>9. CASE AnnounceOffline(t)
  <2>1. call' \in [Task -> Call]
    BY <1>1, <1>2, <1>9, CallKeeps DEF AnnounceOffline
  <2>2. MapType'
    BY <1>1, <1>2, <2>1, <1>9 DEF AnnounceOffline, MapType
  <2>3. PeerType' /\ WorkerType' /\ CountType' /\ EventType'
    BY <1>1, <1>9, CountKeeps, EventKeeps
    DEF AnnounceOffline, peerVars, workerVars, PeerType, WorkerType
  <2> QED BY <2>2, <2>3, TypeParts
<1>10. CASE CloseStale(t)
  <2>1. call' \in [Task -> Call]
    BY <1>1, <1>2, <1>10, CallKeeps DEF CloseStale
  <2>2. MapType'
    BY <1>1, <1>2, <2>1, <1>10, AbortType DEF CloseStale, MapType
  <2>3. PeerType'
    BY <1>1, <1>10, CloseType DEF CloseStale
  <2>4. WorkerType' /\ CountType' /\ EventType'
    BY <1>1, <1>10, CountKeeps, EventKeeps DEF CloseStale, workerVars, WorkerType
  <2> QED BY <2>2, <2>3, <2>4, TypeParts
<1>11. CASE SetOffline(t)
  <2>1. call' \in [Task -> Call]
    BY <1>1, <1>2, <1>11, CallKeeps DEF SetOffline
  <2>2. MapType'
    BY <1>1, <1>2, <2>1, <1>11 DEF SetOffline, MapType
  <2>3. PeerType' /\ WorkerType' /\ CountType' /\ EventType'
    BY <1>1, <1>11, CountKeeps, EventKeeps
    DEF SetOffline, peerVars, workerVars, PeerType, WorkerType
  <2> QED BY <2>2, <2>3, TypeParts
<1>12. CASE Forget(t)
  <2>1. call' \in [Task -> Call]
    BY <1>1, <1>2, <1>12, CallKeeps DEF Forget
  <2>2. MapType'
    BY <1>1, <1>2, <2>1, <1>12 DEF Forget, MapType
  <2>3. PeerType' /\ WorkerType' /\ CountType' /\ EventType'
    BY <1>1, <1>12, CountKeeps, EventKeeps
    DEF Forget, peerVars, workerVars, PeerType, WorkerType
  <2> QED BY <2>2, <2>3, TypeParts
<1>13. CASE DialErrs(t)
  <2>1. call' \in [Task -> Call]
    BY <1>1, <1>2, <1>13, CallKeeps DEF DialErrs
  <2>2. MapType'
    BY <1>1, <1>2, <2>1, <1>13 DEF DialErrs, MapType
  <2>3. PeerType' /\ WorkerType' /\ CountType' /\ EventType'
    BY <1>1, <1>13, CountKeeps
    DEF DialErrs, peerVars, workerVars, PeerType, WorkerType, EventType
  <2> QED BY <2>2, <2>3, TypeParts
<1> QED BY <1>3, <1>4, <1>5, <1>6, <1>7, <1>8, <1>9, <1>10, <1>11, <1>12,
           <1>13 DEF Step, Dial

LEMMA NextType ==
    ASSUME TypeOK, [Next]_vars PROVE TypeOK'
<1>1. MapType /\ PeerType /\ EventType /\ WorkerType /\ CountType
  BY TypeParts
<1>2. Worker \in Task /\ \A t \in Other : t \in Task
  BY DEF Task
<1>3. ASSUME NEW t \in Task, Step(t) \/ DialErrs(t) PROVE TypeOK'
  BY <1>3, StepType
<1>4. ASSUME NEW t \in Task, NEW op \in Operation, Ask(t, op) PROVE TypeOK'
  <2>1. MapType'
    BY <1>1, <1>4, CallKeeps DEF Ask, MapType
  <2>2. PeerType' /\ WorkerType' /\ CountType' /\ EventType'
    BY <1>1, <1>4, CountKeeps, EventKeeps
    DEF Ask, peerVars, workerVars, PeerType, WorkerType
  <2> QED BY <2>1, <2>2, TypeParts
<1>5. ASSUME NEW c \in Conn, WatchdogRemoves(c) PROVE TypeOK'
  <2>1. MapType'
    BY <1>1, <1>5 DEF WatchdogRemoves, MapType
  <2>2. PeerType' /\ WorkerType' /\ CountType' /\ EventType'
    BY <1>1, <1>5, CloseType, CountKeeps, EventKeeps
    DEF WatchdogRemoves, workerVars, WorkerType
  <2> QED BY <2>1, <2>2, TypeParts
<1>6. ASSUME NEW c \in Conn, WatchdogSetsOffline(c) \/ WatchdogAnnounces(c)
      PROVE  TypeOK'
  <2>1. MapType'
    BY <1>1, <1>6 DEF WatchdogSetsOffline, WatchdogAnnounces, MapType, State
  <2>2. PeerType' /\ WorkerType' /\ CountType' /\ EventType'
    BY <1>1, <1>6, CountKeeps, EventKeeps
    DEF WatchdogSetsOffline, WatchdogAnnounces, peerVars, workerVars, PeerType,
        WorkerType
  <2> QED BY <2>1, <2>2, TypeParts
<1>7. ASSUME NEW c \in Conn, IdleTimeout(c) \/ Lost(c) PROVE TypeOK'
  <2>1. MapType'
    BY <1>1, <1>7 DEF IdleTimeout, Lost, adapterVars, MapType
  <2>2. PeerType' /\ WorkerType' /\ CountType' /\ EventType'
    BY <1>1, <1>7, CloseType, CountKeeps, EventKeeps
    DEF IdleTimeout, Lost, workerVars, WorkerType
  <2> QED BY <2>1, <2>2, TypeParts
<1>8. ASSUME Accept \/ SetInboundOnline \/ AnnounceInbound PROVE TypeOK'
  <2>1. MapType'
    BY <1>1, <1>8 DEF Accept, SetInboundOnline, AnnounceInbound, MapType, State
  <2>2. PeerType' /\ WorkerType' /\ CountType' /\ EventType'
    BY <1>1, <1>8, CountKeeps, EventKeeps
    DEF Accept, SetInboundOnline, AnnounceInbound, peerVars, workerVars,
        PeerType, WorkerType
  <2> QED BY <2>1, <2>2, TypeParts
<1>9. ASSUME Dials PROVE TypeOK'
  <2>1. MapType'
    BY <1>1, <1>2, <1>9, CallKeeps DEF Dials, MapType, Operation
  <2>2. PeerType' /\ WorkerType' /\ CountType' /\ EventType'
    BY <1>1, <1>9, CountKeeps, EventKeeps
    DEF Dials, peerVars, PeerType, WorkerType
  <2> QED BY <2>1, <2>2, TypeParts
<1>10. ASSUME Join PROVE TypeOK'
  <2>1. MapType'
    BY <1>1, <1>2, <1>10, CallKeeps DEF Join, MapType
  <2>2. WorkerType'
    <3>1. backoff \in 0 .. SleepAfter /\ SleepAfter \in Nat
      BY <1>1, PresenceAssumption DEF WorkerType
    <3>2. AfterFailure \in 0 .. SleepAfter /\ 0 \in 0 .. SleepAfter
      BY <3>1 DEF AfterFailure, Sleeping
    <3>3. backoff' \in {0, AfterFailure} /\ waiting' = FALSE
      BY <1>10 DEF Join
    <3> QED BY <3>2, <3>3 DEF WorkerType
  <2>3. PeerType' /\ CountType' /\ EventType'
    BY <1>1, <1>10, CountKeeps, EventKeeps DEF Join, peerVars, PeerType
  <2> QED BY <2>1, <2>2, <2>3, TypeParts
<1>11. ASSUME OnEvent PROVE TypeOK'
  <2>1. call' \in [Task -> Call]
    <3>1. CASE Head(events) = "online"
      BY <1>1, <1>2, <1>11, <3>1, CallKeeps DEF OnEvent, Operation
    <3> QED BY <1>1, <1>11, <3>1 DEF OnEvent, MapType
  <2>2. MapType'
    BY <1>1, <1>11, <2>1 DEF OnEvent, MapType
  <2>3. WorkerType'
    BY <1>1, <1>11, PresenceAssumption DEF OnEvent, WorkerType, ResetBackoff
  <2>4. EventType'
    BY <1>1, <1>11, ReadKeeps DEF OnEvent, EventType
  <2>5. PeerType' /\ CountType'
    BY <1>1, <1>11, CountKeeps DEF OnEvent, peerVars, PeerType
  <2> QED BY <2>2, <2>3, <2>4, <2>5, TypeParts
<1>12. ASSUME Flips \/ Age PROVE TypeOK'
  <2>1. MapType' /\ PeerType' /\ WorkerType'
    BY <1>1, <1>12
    DEF Flips, Age, adapterVars, peerVars, workerVars, MapType, PeerType, WorkerType
  <2>2. CountType' /\ EventType'
    BY <1>1, <1>12, EventKeeps, CountKeeps, PresenceAssumption
    DEF Flips, Age, CountType, EventType
  <2> QED BY <2>1, <2>2, TypeParts
<1>13. ASSUME UNCHANGED vars PROVE TypeOK'
  BY <1>1, <1>13, TypeParts
  DEF vars, adapterVars, peerVars, workerVars, countVars, MapType, PeerType,
      EventType, WorkerType, CountType
<1> QED BY <1>3, <1>4, <1>5, <1>6, <1>7, <1>8, <1>9, <1>10, <1>11, <1>12, <1>13
       DEF Next, Watchdog, Tick, FallbackTick

(***************************************************************************)
(* Every reachable state of the presence maps and of the worker is well    *)
(* typed: a connection is tracked or closed, the event channel is within   *)
(* its capacity, and the failures are counted no further than Sleeping.    *)
(***************************************************************************)
THEOREM TypeCorrect == Spec => []TypeOK
<1>1. Init => TypeOK
  <2> SUFFICES ASSUME Init PROVE TypeOK
    OBVIOUS
  <2>1. call \in [Task -> Call]
    BY DEF Init, NoCall, Call, Operation, CallStep, State
  <2>2. events \in Seq(State) /\ Len(events) <= EventCapacity
    BY EmptySeq, PresenceAssumption DEF Init
  <2>3. MapType
    BY <2>1 DEF Init, MapType
  <2>4. PeerType /\ EventType
    BY <2>2 DEF Init, PeerType, EventType
  <2>5. WorkerType /\ CountType
    <3>1. 0 \in 0 .. SleepAfter /\ 0 \in 0 .. MaxFlips /\ 0 \in 0 .. MaxFaults
      BY PresenceAssumption
    <3>2. backoff = 0 /\ waiting = FALSE /\ flips = 0 /\ faults = 0
      BY DEF Init
    <3> QED BY <3>1, <3>2 DEF WorkerType, CountType
  <2> QED BY <2>3, <2>4, <2>5
       DEF TypeOK, MapType, PeerType, EventType, WorkerType, CountType, Call
<1>2. TypeOK /\ [Next]_vars => TypeOK'
  BY NextType
<1> QED BY <1>1, <1>2, PTL DEF Spec

-----------------------------------------------------------------------------
(* The sleeping peer.  The worker decides to sleep when it collects the     *)
(* result of its dial; what makes the decision sound was decided earlier,   *)
(* when the dial wrote last_state and announced its failure.                *)

OwnDial ==
    /\ ~ waiting => CallAt(Worker, "idle")
    /\ call[Worker].op = "ensure"
    /\ call[Worker].at \notin {"close", "set offline"}

(* The worker's dial has failed, and it will count that failure. *)
Failing ==
    \/ CallAt(Worker, "announce offline")
    \/ CallAt(Worker, "done") /\ call[Worker].result = "offline"

FailuresAreOffline ==
    Failing /\ lastState = "online" => OnlineIsComing \/ blind

SleepInv == OwnDial /\ FailuresAreOffline /\ SleepersAreOffline

Announcing(t) == call[t].at \in {"announce online", "announce kept"}

LEMMA Coming ==
    OnlineIsComing <=>
        \/ "online" \in Unread
        \/ inbound = "announce"
        \/ \E t \in Task : Announcing(t)
BY DEF OnlineIsComing, Unread, Announcing

(* What is on its way stays on its way. *)
EventsStay ==
    /\ blind => blind'
    /\ "online" \in Unread => "online" \in Unread' \/ blind'

LEMMA EventsKeep ==
    ASSUME TypeOK, Quiet \/ Send("online") \/ Send("offline")
    PROVE  EventsStay /\ (Send("online") => "online" \in Unread')
<1>1. "online" \in State /\ "offline" \in State
  BY DEF State
<1>2. CASE Quiet
  BY <1>1, <1>2, SendKeeps DEF Quiet, EventsStay, Unread
<1>3. CASE Send("online") \/ Send("offline")
  BY <1>1, <1>3, SendKeeps DEF EventsStay
<1> QED BY <1>1, <1>2, <1>3, SendKeeps

(* What one step of the task t may do to the promise. *)
Sound(t) ==
    /\ EventsStay
    /\ \A u \in Task \ {t} : call'[u] = call[u]
    /\ Announcing(t) => Announcing(t)' \/ "online" \in Unread'
    /\ lastState' = "online" => lastState = "online" \/ Announcing(t)'
    /\ t = Worker /\ Failing' => Failing \/ lastState' # "online" \/ blind'
    /\ t = Worker => OwnDial'
    /\ UNCHANGED <<inbound, workerVars>>

LEMMA SoundKeeps ==
    ASSUME SleepInv, NEW t \in Task, Sound(t)
    PROVE  SleepInv'
<1>1. OnlineIsComing \/ blind => OnlineIsComing' \/ blind'
  BY Coming DEF Sound, EventsStay, OnlineIsComing, Unread, Announcing
<1>2. lastState' = "online" => lastState = "online" \/ OnlineIsComing'
  BY DEF Sound, OnlineIsComing, Announcing
<1>3. Worker \in Task
  BY DEF Task
<1>4. t # Worker => call'[Worker] = call[Worker]
  BY <1>3 DEF Sound
<1>5. UNCHANGED <<waiting, backoff>>
  BY DEF Sound, workerVars
<1>6. OwnDial'
  BY <1>4, <1>5 DEF Sound, SleepInv, OwnDial, CallAt
<1>7. FailuresAreOffline'
  BY <1>1, <1>2, <1>4 DEF Sound, SleepInv, FailuresAreOffline, Failing, CallAt
<1>8. SleepersAreOffline'
  BY <1>1, <1>2, <1>5 DEF SleepInv, SleepersAreOffline, Sleeping
<1> QED BY <1>6, <1>7, <1>8 DEF SleepInv

LEMMA CallEffect ==
    ASSUME MapType, NEW t \in Task
    PROVE  /\ \A step \in CallStep : GoTo(t, step) =>
                 /\ call'[t].at = step /\ call'[t].op = call[t].op
                 /\ \A u \in Task \ {t} : call'[u] = call[u]
           /\ \A state \in State : Return(t, state) =>
                 /\ call'[t].at = "done" /\ call'[t].op = "ensure"
                 /\ call'[t].result = state
                 /\ \A u \in Task \ {t} : call'[u] = call[u]
           /\ \A o \in Operation : Start(t, o) =>
                 /\ call'[t].at \in {"look up", "dial", "close"}
                 /\ o = "ensure" => call'[t].at = "look up"
                 /\ call'[t].op = o
                 /\ \A u \in Task \ {t} : call'[u] = call[u]
<1>1. call \in [Task -> Call]
  BY DEF MapType
<1>2. ASSUME NEW step \in CallStep, GoTo(t, step)
      PROVE  /\ call'[t].at = step /\ call'[t].op = call[t].op
             /\ \A u \in Task \ {t} : call'[u] = call[u]
  BY <1>1, <1>2 DEF GoTo, Call
<1>3. ASSUME NEW state \in State, Return(t, state)
      PROVE  /\ call'[t].at = "done" /\ call'[t].op = "ensure"
             /\ call'[t].result = state
             /\ \A u \in Task \ {t} : call'[u] = call[u]
  BY <1>1, <1>3 DEF Return, NoCall
<1>4. ASSUME NEW o \in Operation, Start(t, o)
      PROVE  /\ call'[t].at \in {"look up", "dial", "close"}
             /\ o = "ensure" => call'[t].at = "look up"
             /\ call'[t].op = o
             /\ \A u \in Task \ {t} : call'[u] = call[u]
  BY <1>1, <1>4 DEF Start, NoCall, Operation
<1> QED BY <1>2, <1>3, <1>4

LEMMA StepSound ==
    ASSUME TypeOK, OwnDial, NEW t \in Task, Step(t) \/ DialErrs(t)
    PROVE  Sound(t)
<1>1. MapType /\ PeerType
  BY TypeParts
<1>2. /\ "online" \in State /\ "offline" \in State
      /\ {"idle", "dial", "insert", "set online", "announce online",
          "announce kept", "announce offline", "close", "set offline", "done"}
            \subseteq CallStep
  BY DEF State, CallStep
<1>3. CASE LookUp(t)
  <2>1. /\ \/ call'[t].at = "dial" /\ call'[t].op = call[t].op
           \/ /\ call'[t].at = "done" /\ call'[t].op = "ensure"
              /\ call'[t].result = "online"
        /\ \A u \in Task \ {t} : call'[u] = call[u]
    BY <1>1, <1>2, <1>3, CallEffect DEF LookUp
  <2>2. EventsStay
    BY <1>3, EventsKeep DEF LookUp
  <2>3. /\ call[t].at = "look up"
        /\ lastState' = lastState
        /\ UNCHANGED <<inbound, workerVars>>
    BY <1>3 DEF LookUp, CallAt
  <2> QED BY <2>1, <2>2, <2>3
          DEF Sound, OwnDial, workerVars, Failing, CallAt, Announcing
<1>4. CASE DialSucceeds(t)
  <2>1. /\ call'[t].at = "insert" /\ call'[t].op = call[t].op
        /\ \A u \in Task \ {t} : call'[u] = call[u]
    BY <1>1, <1>2, <1>4 DEF DialSucceeds, MapType, Call
  <2>2. EventsStay
    BY <1>4, EventsKeep DEF DialSucceeds
  <2>3. /\ call[t].at = "dial"
        /\ lastState' = lastState
        /\ UNCHANGED <<inbound, workerVars>>
    BY <1>4 DEF DialSucceeds, CallAt
  <2> QED BY <2>1, <2>2, <2>3
          DEF Sound, OwnDial, workerVars, Failing, CallAt, Announcing
<1>5. CASE Insert(t)
  <2>1. /\ call'[t].at = IF Alive THEN "announce kept" ELSE "set online"
        /\ call'[t].op = call[t].op
        /\ \A u \in Task \ {t} : call'[u] = call[u]
    BY ZenonT(40), <1>1, <1>2, <1>5 DEF Insert, MapType, Call
  <2>2. EventsStay
    BY <1>5, EventsKeep DEF Insert
  <2>3. /\ call[t].at = "insert"
        /\ lastState' = IF Alive THEN "online" ELSE lastState
        /\ UNCHANGED <<inbound, workerVars>>
    BY <1>5 DEF Insert, CallAt
  <2> QED BY <2>1, <2>2, <2>3
          DEF Sound, OwnDial, workerVars, Failing, CallAt, Announcing
<1>6. CASE SetOnline(t)
  <2>1. /\ call'[t].at = "announce online" /\ call'[t].op = call[t].op
        /\ \A u \in Task \ {t} : call'[u] = call[u]
    BY <1>1, <1>2, <1>6, CallEffect DEF SetOnline
  <2>2. EventsStay
    BY <1>6, EventsKeep DEF SetOnline
  <2>3. /\ call[t].at = "set online"
        /\ lastState' = "online"
        /\ UNCHANGED <<inbound, workerVars>>
    BY <1>6 DEF SetOnline, CallAt
  <2> QED BY <2>1, <2>2, <2>3
          DEF Sound, OwnDial, workerVars, Failing, CallAt, Announcing
<1>7. CASE AnnounceOnline(t)
  <2>1. /\ call'[t].at = "done" /\ call'[t].op = "ensure"
        /\ call'[t].result = "online"
        /\ \A u \in Task \ {t} : call'[u] = call[u]
    BY <1>1, <1>2, <1>7, CallEffect DEF AnnounceOnline
  <2>2. EventsStay /\ "online" \in Unread'
    BY <1>7, EventsKeep DEF AnnounceOnline
  <2>3. /\ call[t].at \in {"announce online", "announce kept"}
        /\ lastState' = lastState
        /\ UNCHANGED <<inbound, workerVars>>
    BY <1>7 DEF AnnounceOnline, CallAt
  <2> QED BY <2>1, <2>2, <2>3
          DEF Sound, OwnDial, workerVars, Failing, CallAt, Announcing
<1>8. CASE DialFails(t)
  <2>1. /\ call'[t].at = "announce offline" /\ call'[t].op = call[t].op
        /\ \A u \in Task \ {t} : call'[u] = call[u]
    BY <1>1, <1>2, <1>8, CallEffect DEF DialFails
  <2>2. EventsStay
    BY <1>8, EventsKeep DEF DialFails
  <2>3. /\ call[t].at = "dial"
        /\ lastState' = "offline"
        /\ UNCHANGED <<inbound, workerVars>>
    BY <1>8 DEF DialFails, CallAt, AfterFailedDial
  <2> QED BY <2>1, <2>2, <2>3
          DEF Sound, OwnDial, workerVars, Failing, CallAt, Announcing
<1>9. CASE AnnounceOffline(t)
  <2>1. /\ \/ /\ call[t].op = "verify"
              /\ call'[t].at = "close" /\ call'[t].op = call[t].op
           \/ call'[t].at = "done" /\ call'[t].op = "ensure"
        /\ \A u \in Task \ {t} : call'[u] = call[u]
    BY <1>1, <1>2, <1>9, CallEffect DEF AnnounceOffline
  <2>2. EventsStay
    BY <1>9, EventsKeep DEF AnnounceOffline
  <2>3. /\ call[t].at = "announce offline"
        /\ lastState' = lastState
        /\ UNCHANGED <<inbound, workerVars>>
    BY <1>9 DEF AnnounceOffline, CallAt
  <2> QED BY <2>1, <2>2, <2>3
          DEF Sound, OwnDial, workerVars, Failing, CallAt, Announcing
<1>10. CASE CloseStale(t)
  <2>1. /\ call'[t].at \in {"set offline", "done"}
        /\ \A u \in Task \ {t} : call'[u] = call[u]
    BY <1>1, <1>2, <1>10, CallEffect DEF CloseStale
  <2>2. EventsStay
    BY <1>10, EventsKeep DEF CloseStale
  <2>3. /\ call[t].at = "close"
        /\ lastState' = lastState
        /\ UNCHANGED <<inbound, workerVars>>
    BY <1>10 DEF CloseStale, CallAt
  <2> QED BY <2>1, <2>2, <2>3
          DEF Sound, OwnDial, workerVars, Failing, CallAt, Announcing
<1>11. CASE SetOffline(t)
  <2>1. /\ call'[t].at \in {"announce offline", "done"}
        /\ \A u \in Task \ {t} : call'[u] = call[u]
    BY <1>1, <1>2, <1>11, CallEffect DEF SetOffline
  <2>2. EventsStay
    BY <1>11, EventsKeep DEF SetOffline
  <2>3. /\ call[t].at = "set offline"
        /\ lastState' = "offline"
        /\ UNCHANGED <<inbound, workerVars>>
    BY <1>11 DEF SetOffline, CallAt
  <2> QED BY <2>1, <2>2, <2>3
          DEF Sound, OwnDial, workerVars, Failing, CallAt, Announcing
<1>12. CASE Forget(t)
  <2>1. /\ call'[t] = NoCall
        /\ \A u \in Task \ {t} : call'[u] = call[u]
    BY <1>1, <1>2, <1>12 DEF Forget, MapType
  <2>2. EventsStay
    BY <1>12, EventsKeep DEF Forget
  <2>3. /\ t # Worker /\ call[t].at = "done"
        /\ lastState' = lastState
        /\ UNCHANGED <<inbound, workerVars>>
    BY <1>12 DEF Forget, CallAt
  <2> QED BY <2>1, <2>2, <2>3
          DEF Sound, OwnDial, workerVars, Failing, CallAt, Announcing
<1>13. CASE DialErrs(t)
  <2>1. /\ call'[t].at = "done" /\ call'[t].op = "ensure"
        /\ \A u \in Task \ {t} : call'[u] = call[u]
    BY <1>1, <1>2, <1>13, CallEffect DEF DialErrs
  <2>2. EventsStay /\ blind'
    BY <1>13 DEF DialErrs, EventsStay, Unread
  <2>3. /\ call[t].at = "dial"
        /\ lastState' = lastState
        /\ UNCHANGED <<inbound, workerVars>>
    BY <1>13 DEF DialErrs, CallAt
  <2> QED BY <2>1, <2>2, <2>3
          DEF Sound, OwnDial, workerVars, Failing, CallAt, Announcing
<1> QED BY <1>3, <1>4, <1>5, <1>6, <1>7, <1>8, <1>9, <1>10, <1>11, <1>12, <1>13
       DEF Step, Dial

(* The other steps touch no call of the worker, and keep what is coming.   *)
LEMMA AsideKeeps ==
    ASSUME SleepInv, UNCHANGED workerVars, EventsStay,
           call'[Worker] = call[Worker],
           \A t \in Task : Announcing(t) => Announcing(t)',
           inbound = "announce" => inbound' = "announce" \/ "online" \in Unread',
           lastState' = "online" => lastState = "online" \/ inbound' = "announce"
    PROVE  SleepInv'
<1>1. OnlineIsComing \/ blind => OnlineIsComing' \/ blind'
  BY Coming DEF EventsStay, OnlineIsComing, Unread, Announcing
<1>2. lastState' = "online" => lastState = "online" \/ OnlineIsComing'
  BY DEF OnlineIsComing
<1>3. UNCHANGED <<waiting, backoff>>
  BY DEF workerVars
<1>4. OwnDial'
  BY <1>3 DEF SleepInv, OwnDial, CallAt
<1>5. FailuresAreOffline'
  BY <1>1, <1>2 DEF SleepInv, FailuresAreOffline, Failing, CallAt
<1>6. SleepersAreOffline'
  BY <1>1, <1>2, <1>3 DEF SleepInv, SleepersAreOffline, Sleeping
<1> QED BY <1>4, <1>5, <1>6 DEF SleepInv

LEMMA NextKeepsSleepInv ==
    ASSUME TypeOK, SleepInv, [Next]_vars PROVE SleepInv'
<1>1. MapType /\ WorkerType /\ PeerType
  BY TypeParts
<1>2. Worker \in Task /\ Worker \notin Other /\ \A t \in Other : t \in Task
  BY PresenceAssumption DEF Task
<1>3. "ensure" \in Operation
  BY DEF Operation
<1>4. ASSUME NEW t \in Task, Step(t) \/ DialErrs(t) PROVE SleepInv'
  BY <1>4, StepSound, SoundKeeps DEF SleepInv
<1>5. ASSUME NEW t \in Task, NEW op \in Operation, Ask(t, op) PROVE SleepInv'
  <2>1. \A u \in Task \ {t} : call'[u] = call[u]
    BY <1>1, <1>5, CallEffect DEF Ask
  <2>2. t # Worker /\ call[t].at = "idle"
    BY <1>5 DEF Ask, CallAt
  <2>3. EventsStay /\ UNCHANGED <<inbound, lastState, workerVars>>
    BY <1>5, EventsKeep DEF Ask
  <2> QED BY <1>2, <2>1, <2>2, <2>3, AsideKeeps DEF Announcing
<1>6. ASSUME NEW c \in Conn, Watchdog(c) \/ IdleTimeout(c) \/ Lost(c)
      PROVE  SleepInv'
  <2>1. /\ UNCHANGED <<call, inbound, workerVars>>
        /\ lastState' \in {lastState, "offline"}
    BY <1>6 DEF Watchdog, WatchdogRemoves, WatchdogSetsOffline,
       WatchdogAnnounces, IdleTimeout, Lost, adapterVars
  <2>2. EventsStay
    BY <1>6, EventsKeep DEF Watchdog, WatchdogRemoves, WatchdogSetsOffline,
       WatchdogAnnounces, IdleTimeout, Lost
  <2> QED BY <2>1, <2>2, AsideKeeps DEF Announcing
<1>7. CASE Accept \/ SetInboundOnline \/ AnnounceInbound
  <2>1. UNCHANGED <<call, workerVars>>
    BY <1>7 DEF Accept, SetInboundOnline, AnnounceInbound
  <2>2. EventsStay
    BY <1>7, EventsKeep DEF Accept, SetInboundOnline, AnnounceInbound
  <2>3. inbound = "announce" => "online" \in Unread'
    BY <1>7, EventsKeep DEF Accept, SetInboundOnline, AnnounceInbound
  <2>4. lastState' = "online" => lastState = "online" \/ inbound' = "announce"
    BY <1>7 DEF Accept, SetInboundOnline, AnnounceInbound
  <2> QED BY <2>1, <2>2, <2>3, <2>4, AsideKeeps DEF Announcing
<1>8. CASE Dials
  <2>1. /\ call'[Worker].at = "look up" /\ call'[Worker].op = "ensure"
        /\ \A u \in Task \ {Worker} : call'[u] = call[u]
    BY <1>1, <1>2, <1>3, <1>8, CallEffect DEF Dials
  <2>2. call[Worker].at = "idle" /\ waiting'
    BY <1>8 DEF Dials, CallAt
  <2>3. EventsStay /\ UNCHANGED <<inbound, lastState, backoff>>
    BY <1>8, EventsKeep DEF Dials
  <2>4. OnlineIsComing \/ blind => OnlineIsComing' \/ blind'
    BY <2>1, <2>2, <2>3, Coming
    DEF EventsStay, OnlineIsComing, Unread, Announcing
  <2>5. OwnDial' /\ ~ Failing'
    BY <2>1, <2>2 DEF OwnDial, Failing, CallAt
  <2> QED BY <2>3, <2>4, <2>5
          DEF SleepInv, FailuresAreOffline, SleepersAreOffline, Sleeping
<1>9. CASE Join
  <2>1. /\ call[Worker].at = "done" /\ call'[Worker] = NoCall
        /\ \A u \in Task \ {Worker} : call'[u] = call[u]
    BY <1>1, <1>2, <1>9 DEF Join, CallAt, MapType
  <2>2. EventsStay /\ UNCHANGED <<inbound, lastState>>
    BY <1>9, EventsKeep DEF Join
  <2>3. OnlineIsComing \/ blind => OnlineIsComing' \/ blind'
    BY <2>1, <2>2, Coming DEF EventsStay, OnlineIsComing, Unread, Announcing
  <2>4. OwnDial' /\ ~ Failing'
    BY <2>1 DEF OwnDial, Failing, CallAt, NoCall
  <2>5. Sleeping' => Failing
    <3>1. call[Worker].result \in State
      BY <1>1, <1>2 DEF MapType, Call
    <3>2. call[Worker].result = "online" => backoff' = 0
      BY <1>9 DEF Join
    <3> QED BY <2>1, <3>1, <3>2, PresenceAssumption
            DEF Sleeping, Failing, CallAt, State
  <2> QED BY <2>2, <2>3, <2>4, <2>5
          DEF SleepInv, FailuresAreOffline, SleepersAreOffline
<1>10. CASE OnEvent
  <2>1. ~ waiting /\ events # <<>> /\ events' = Tail(events)
        /\ UNCHANGED <<inbound, lastState, waiting, blind>>
    BY <1>10 DEF OnEvent
  <2>2. CASE Head(events) = "online"
    <3>1. PICK t \in Other : CallAt(t, "idle") /\ Start(t, "ensure")
      BY <1>10, <2>2 DEF OnEvent
    <3>2. call'[Worker] = call[Worker]
      BY <1>1, <1>2, <1>3, <3>1, CallEffect
    <3>3. OwnDial' /\ ~ Failing'
      BY <2>1, <3>2 DEF SleepInv, OwnDial, Failing, CallAt
    <3>4. ~ Sleeping'
      BY <1>10, <2>2, PresenceAssumption DEF OnEvent, Sleeping, ResetBackoff
    <3> QED BY <3>3, <3>4 DEF SleepInv, FailuresAreOffline, SleepersAreOffline
  <2>3. CASE Head(events) # "online"
    <3>1. UNCHANGED <<call, workerVars>>
      BY <1>10, <2>3 DEF OnEvent, workerVars
    <3>2. EventsStay
      BY <2>1, <2>3, ReadKeeps DEF EventsStay
    <3> QED BY <2>1, <3>1, <3>2, AsideKeeps DEF Announcing
  <2> QED BY <2>2, <2>3
<1>11. CASE Flips \/ Age \/ UNCHANGED vars
  <2>1. UNCHANGED <<call, inbound, lastState, workerVars, events, blind>>
    BY <1>11 DEF Flips, Age, Quiet, adapterVars, vars
  <2> QED BY <2>1, AsideKeeps DEF Announcing, EventsStay, Unread
<1> QED BY <1>4, <1>5, <1>6, <1>7, <1>8, <1>9, <1>10, <1>11
       DEF Next, Tick, FallbackTick

(***************************************************************************)
(* The worker parks no peer that is reported online: whatever has put it   *)
(* back online has told the worker, or is about to, unless an event was    *)
(* lost or a dial failed without a verdict (peer_keepalive.rs 31-39,       *)
(* 406-423).                                                               *)
(***************************************************************************)
THEOREM SleepersOffline == Spec => []SleepersAreOffline
<1>1. Init => SleepInv
  <2> SUFFICES ASSUME Init PROVE SleepInv
    OBVIOUS
  <2>1. call[Worker] = NoCall /\ lastState = "unknown"
    BY DEF Init, Task
  <2> QED BY <2>1 DEF SleepInv, OwnDial, FailuresAreOffline,
             SleepersAreOffline, NoCall, CallAt
<1>2. TypeOK /\ SleepInv /\ [Next]_vars => SleepInv'
  BY NextKeepsSleepInv
<1>3. SleepInv => SleepersAreOffline
  BY DEF SleepInv
<1> QED BY <1>1, <1>2, <1>3, TypeCorrect, PTL DEF Spec
=============================================================================
