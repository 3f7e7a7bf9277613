-------------------------- MODULE MobileApp_proofs --------------------------
(***************************************************************************)
(* Of a phone, its application and the desktop it syncs with, for any      *)
(* contents, any loop threshold and any bounds: the types of all           *)
(* variables, and that the phone knows only contentIds of contents that    *)
(* the desktop has.                                                        *)
(***************************************************************************)
EXTENDS MobileApp, SequenceTheorems, TLAPS

-----------------------------------------------------------------------------
(* The invariant *)

DesktopInv ==
    /\ current \in Answer /\ held \subseteq Content
    /\ buffer \in Optional /\ rotated \in BOOLEAN
    /\ current \in Content => current \in held

(* What a state of the engine and a watermark may name.  A staged content  *)
(* was on the desktop when it was staged, which an apply relies on later.  *)
Known(r, contents) ==
    /\ r \in Runtime
    /\ r.staged \in Content => r.staged \in contents
    /\ r.synced.id # NoContent => r.synced.id \in contents

Noted(watermark, contents) ==
    /\ watermark \in Watermark
    /\ watermark.id # NoContent => watermark.id \in contents

EngineInv == Known(rt, held) /\ Noted(stored, held) /\ autoApply \in BOOLEAN

(* Whoever holds the mutex is a call of the app, and none but a push, which *)
(* was started with a content, gets as far as an upload.                   *)
CallInv ==
    /\ op \in Mutex /\ flight \in [Call -> Flight]
    /\ op.at # "idle" => op.call \in Call /\ flight[op.call].at = "inside"
    /\ op.at \in {"putFile", "putDoc"} => op.call = "push"
    /\ op.at = "fetch" => op.entry \in Content /\ op.entry \in held
    /\ flight["push"].at # "none" => flight["push"].device \in Content

HistoryInv ==
    /\ got \in Optional /\ cut \in BOOLEAN /\ torn \in BOOLEAN
    /\ acts \in Nat /\ faults \in Nat

AppInv ==
    /\ sys \in Optional /\ seen \in Optional /\ emitted \in Optional
    /\ paused \in BOOLEAN /\ register \in Optional /\ wanted \in BOOLEAN
    /\ shown \in {"running", "authFailed", "loopDetected"}
    /\ ticking \in BOOLEAN /\ unwritten \in Optional

IInv == DesktopInv /\ EngineInv /\ CallInv /\ HistoryInv /\ AppInv

LEMMA InvImplies == IInv => SyncInv
BY DEF IInv, DesktopInv, EngineInv, Known, Noted, CallInv, HistoryInv, AppInv,
       SyncInv, TypeOK, SyncTypeOK, IdentityIsHeld

LEMMA Markers ==
    /\ NoContent \notin Content /\ Empty \notin Content /\ NoContent # Empty
    /\ Attached \subseteq Content
BY MobileSyncAssumption

-----------------------------------------------------------------------------
(* What the engine makes of its state *)

LEMMA FreshKnown == \A contents : Known(Fresh, contents) /\ Noted(NoWatermark, contents)
<1>1. <<>> \in Seq(Event)
  BY EmptySeq
<1> QED BY <1>1, Markers
        DEF Known, Noted, Fresh, NoWatermark, Runtime, Watermark, Optional, Answer

LEMMA KnownGrows ==
    ASSUME NEW r, NEW contents, NEW more, contents \subseteq more
    PROVE  /\ Known(r, contents) => Known(r, more)
           /\ Noted(r, contents) => Noted(r, more)
BY DEF Known, Noted

LEMMA ReachedKnown ==
    ASSUME NEW r, NEW contents, Known(r, contents), NEW c \in Content, c \in contents
    PROVE  /\ Known(Reached(r, c), contents)
           /\ Reached(r, c).events = r.events
BY Markers DEF Known, Reached, AdvanceSynced, Runtime, Watermark, Optional

LEMMA TicksKnown ==
    ASSUME NEW r, NEW contents, Known(r, contents)
    PROVE  /\ Known(TickSuccess(r), contents)
           /\ Known(TickFailure(r), contents)
           /\ Known(AuthFailure(r), contents)
           /\ TickSuccess(r).synced = r.synced
BY DEF Known, TickSuccess, TickFailure, AuthFailure, Runtime

LEMMA StageKnown ==
    ASSUME NEW r, NEW contents, Known(r, contents),
           NEW entry \in Answer, entry \in Content => entry \in contents
    PROVE  Known(Stage(r, entry), contents)
BY DEF Known, Stage, Runtime

(* The window of the loop guard keeps a suffix of the events.              *)
LEMMA RecordedKnown ==
    ASSUME NEW r, NEW contents, Known(r, contents), NEW c \in Content,
           NEW dir \in {"pulled", "pushed"}, NEW n \in 0 .. Len(r.events)
    PROVE  Known(Recorded(r, dir, c, n), contents)
<1> DEFINE old == r.events
           kept == SubSeq(old, Len(old) - n + 1, Len(old))
           events == Append(kept, [dir |-> dir, hash |-> c])
<1>1. old \in Seq(Event) /\ Len(old) \in Nat
  BY DEF Known, Runtime
<1>2. kept \in Seq(Event)
  <2>1. \A i \in Len(old) - n + 1 .. Len(old) : old[i] \in Event
    BY <1>1, ElementOfSeq
  <2>2. Len(old) - n + 1 \in Int /\ Len(old) \in Int
    BY <1>1
  <2> HIDE DEF old
  <2> QED BY <2>1, <2>2, SubSeqProperties
<1>3. [dir |-> dir, hash |-> c] \in Event
  BY DEF Event
<1>4. events \in Seq(Event)
  BY <1>2, <1>3, AppendProperties
<1> HIDE DEF events
<1>5. Recorded(r, dir, c, n) =
         [r EXCEPT !.events = events,
                   !.state = IF Tripped(events) THEN "loopDetected" ELSE @]
  BY DEF Recorded, events
<1> QED BY <1>4, <1>5 DEF Known, Runtime

LEMMA PushKnown ==
    ASSUME NEW r, NEW contents, Known(r, contents), NEW c \in Content,
           NEW id \in Optional, id # NoContent => id \in contents
    PROVE  LET pushed == [AdvanceSynced(r, c, id) EXCEPT !.state = "running"]
           IN  Known(pushed, contents) /\ pushed.events = r.events
BY DEF Known, AdvanceSynced, Runtime, Watermark, Optional

LEMMA FoldedKnown ==
    ASSUME EngineInv
    PROVE  Known(Folded, held)
BY DEF EngineInv, Known, Noted, Folded, Runtime

-----------------------------------------------------------------------------
(* What becomes of the calls *)

Ended == {"none", "ok", "cancelled", "backoff", "auth", "loop"}

LEMMA IdleTyped == Idle \in Mutex /\ Idle.at = "idle" /\ NoCall \in Flight
BY DEF Idle, NoCall, Mutex, Flight, Call, Answer, Optional

LEMMA EndsCall ==
    ASSUME CallInv, op.at # "idle", NEW end \in Ended, NEW give \in Optional,
           Ends(end, give)
    PROVE  CallInv'
<1>1. op' = Idle /\ op.call \in Call /\ flight[op.call].at = "inside"
  BY DEF CallInv, Ends
<1>2. flight' \in [Call -> Flight]
  BY DEF CallInv, Ends, Flight, Ended
<1>3. /\ flight'["push"].device = flight["push"].device
      /\ flight'["push"].at # "none" => flight["push"].at # "none"
  BY <1>1 DEF CallInv, Ends, Flight, Call
<1> QED BY <1>1, <1>2, <1>3, IdleTyped DEF CallInv

LEMMA RejectedCall ==
    ASSUME CallInv, NEW c \in Call, flight[c].at = "called", NEW end \in Ended,
           Rejected(c, end)
    PROVE  CallInv'
<1>1. op' = Idle
  BY DEF Rejected
<1>2. flight' \in [Call -> Flight]
  BY ZenonT(40) DEF CallInv, Rejected, Flight, Ended
<1>3. /\ flight'["push"].device = flight["push"].device
      /\ flight'["push"].at # "none" => flight["push"].at # "none"
  BY DEF CallInv, Rejected, Flight, Call
<1> QED BY <1>1, <1>2, <1>3, IdleTyped DEF CallInv

LEMMA StartsCall ==
    ASSUME CallInv, UNCHANGED held, NEW c \in Call, flight[c].at = "called",
           NEW at, NEW entry, Starts(c, at, entry),
           \/ at = "get" /\ entry = NoContent
           \/ at = "fetch" /\ entry \in Content /\ entry \in held
    PROVE  CallInv'
<1>1. /\ op' \in Mutex /\ op'.at = at /\ op'.call = c /\ op'.entry = entry
  BY DEF Starts, Idle, Mutex, Answer, Optional
<1>2. flight' \in [Call -> Flight] /\ flight'[c].at = "inside"
  BY DEF CallInv, Starts, Flight
<1>3. /\ flight'["push"].device = flight["push"].device
      /\ flight'["push"].at # "none" => flight["push"].at # "none"
  BY DEF CallInv, Starts, Flight, Call
<1> QED BY <1>1, <1>2, <1>3 DEF CallInv

(* The holder of the mutex goes on, without a word to the app.             *)
LEMMA GoesOn ==
    ASSUME CallInv, UNCHANGED flight, op.at # "idle", op' \in Mutex,
           op'.call = op.call, op'.at # "idle",
           op'.at \in {"putFile", "putDoc"} => op.call = "push",
           op'.at = "fetch" => op'.entry \in Content /\ op'.entry \in held'
    PROVE  CallInv'
BY DEF CallInv

LEMMA KeptCalls ==
    ASSUME CallInv, UNCHANGED <<op, flight>>, held \subseteq held'
    PROVE  CallInv'
BY DEF CallInv

LEMMA CommitKeeps ==
    ASSUME CallInv, op.at # "idle", NEW contents, NEW r, Known(r, contents),
           Noted(stored, contents), NEW give \in Optional, Commit(r, give)
    PROVE  CallInv' /\ Known(rt', contents) /\ Noted(stored', contents)
<1>1. Known(rt', contents)
  BY TicksKnown DEF Commit
<1>2. Noted(stored', contents)
  BY DEF Commit, Noted, Known, Runtime, Watermark
<1>3. op' \in Mutex /\ op'.call = op.call /\ op'.at = "save"
  BY DEF Commit, CallInv, Mutex
<1>4. CallInv'
  BY <1>3, GoesOn DEF Commit
<1> QED BY <1>1, <1>2, <1>4

(* A request that fails ends its call.                                     *)
LEMMA FailsKeeps ==
    ASSUME CallInv, HistoryInv, op.at # "idle", NEW contents, NEW r,
           Known(r, contents), Fails(r)
    PROVE  /\ CallInv' /\ Known(rt', contents)
           /\ acts' \in Nat /\ faults' \in Nat
<1>1. NoContent \in Optional /\ {"auth", "ok", "cancelled"} \subseteq Ended
  BY DEF Optional, Ended
<1>2. \E end \in Ended : Ends(end, NoContent)
  BY <1>1 DEF Fails
<1>3. CallInv'
  BY <1>1, <1>2, EndsCall
<1>4. Known(rt', contents)
  BY TicksKnown DEF Fails
<1>5. acts' \in Nat /\ faults' \in Nat
  BY DEF Fails, Fault, bounds, HistoryInv
<1> QED BY <1>3, <1>4, <1>5

-----------------------------------------------------------------------------
(* The requests of a call.  The app has no part in them. *)

EngineSide == DesktopInv' /\ EngineInv' /\ CallInv' /\ HistoryInv'

LEMMA EnterTickKeeps ==
    ASSUME IInv, NEW c \in Call, EnterTick(c)
    PROVE  EngineSide
<1>1. Known(rt', held)
  BY FoldedKnown DEF EnterTick, IInv
<1>2. flight[c].at = "called" /\ UNCHANGED <<desktop, autoApply, stored, history, bounds>>
  BY DEF EnterTick
<1>3. CallInv'
  <2>1. {"loop", "auth", "backoff"} \subseteq Ended
    BY DEF Ended
  <2>2. CASE Starts(c, "get", NoContent)
    BY <1>2, <2>2, StartsCall DEF IInv, desktop
  <2>3. CASE \E end \in Ended : Rejected(c, end)
    BY <1>2, <2>3, RejectedCall DEF IInv
  <2> QED BY <2>1, <2>2, <2>3 DEF EnterTick
<1> QED BY <1>1, <1>2, <1>3
        DEF EngineSide, IInv, DesktopInv, EngineInv, HistoryInv, desktop, history, bounds

LEMMA EnterApplyKeeps ==
    ASSUME IInv, EnterApply
    PROVE  EngineSide
<1>1. flight["apply"].at = "called" /\ "apply" \in Call /\ "ok" \in Ended
      /\ UNCHANGED <<desktop, rt, autoApply, stored, history, bounds>>
  BY DEF EnterApply, Call, Ended
<1>2. CallInv'
  <2>1. CASE rt.staged \in Content
    <3>1. rt.staged \in held /\ Starts("apply", "fetch", rt.staged)
      BY <2>1 DEF EnterApply, IInv, EngineInv, Known
    <3> QED BY <1>1, <2>1, <3>1, StartsCall DEF IInv, desktop
  <2>2. CASE rt.staged \notin Content
    BY <1>1, <2>2, RejectedCall DEF EnterApply, IInv
  <2> QED BY <2>1, <2>2
<1> QED BY <1>1, <1>2
        DEF EngineSide, IInv, DesktopInv, EngineInv, HistoryInv, desktop, history, bounds

(* What a call does that neither learns nor commits anything.              *)
LEMMA SkipKeeps ==
    ASSUME IInv, op.at # "idle", NEW r, Known(r, held), Skip(r)
    PROVE  CallInv' /\ Known(rt', held) /\ UNCHANGED <<stored, history>>
<1>1. "ok" \in Ended /\ NoContent \in Optional
  BY DEF Ended, Optional
<1>2. CallInv'
  BY <1>1, EndsCall DEF Skip, IInv
<1> QED BY <1>2, TicksKnown DEF Skip

LEMMA RouteKeeps ==
    ASSUME IInv, op.at = "get", UNCHANGED desktop, Route(current, Device)
    PROVE  /\ CallInv' /\ Known(rt', held) /\ Noted(stored', held)
           /\ got' \in Optional /\ cut' \in BOOLEAN /\ torn' \in BOOLEAN
<1>1. /\ current \in Answer
      /\ current \in Content => current \in held
      /\ Known(rt, held) /\ Noted(stored, held) /\ NoContent \in Optional
      /\ got \in Optional /\ cut \in BOOLEAN /\ torn \in BOOLEAN /\ UNCHANGED held
  BY DEF IInv, DesktopInv, EngineInv, HistoryInv, Optional, desktop
<1>2. CASE IsConverged(current, Device)
  <2>1. current \in Content /\ Commit(Reached(rt, current), NoContent)
        /\ got' = current /\ UNCHANGED <<cut, torn>>
    BY <1>2 DEF Route, IsConverged
  <2>2. Known(Reached(rt, current), held)
    BY <1>1, <2>1, ReachedKnown
  <2> HIDE DEF Commit
  <2>3. CallInv' /\ Known(rt', held) /\ Noted(stored', held)
    BY <1>1, <2>1, <2>2, CommitKeeps DEF IInv
  <2> QED BY <1>1, <2>1, <2>3 DEF Optional
<1>3. ASSUME NEW r, Known(r, held), Skip(r)
      PROVE  CallInv' /\ Known(rt', held) /\ Noted(stored', held)
             /\ got' \in Optional /\ cut' \in BOOLEAN /\ torn' \in BOOLEAN
  BY <1>1, <1>3, SkipKeeps DEF history
<1>4. ASSUME NEW at \in {"fetch", "putFile", "putDoc"}, GoOn(at),
             at = "fetch" => current \in Content,
             at # "fetch" => op.call = "push"
      PROVE  CallInv' /\ Known(rt', held) /\ Noted(stored', held)
             /\ got' \in Optional /\ cut' \in BOOLEAN /\ torn' \in BOOLEAN
  <2>1. op' \in Mutex /\ op'.at = at /\ op'.call = op.call /\ op'.entry = current
    BY <1>1, <1>4 DEF GoOn, IInv, CallInv, Mutex
  <2>2. CallInv'
    BY <1>1, <1>4, <2>1, GoesOn DEF GoOn, IInv
  <2> QED BY <1>1, <1>4, <2>2 DEF GoOn, history
<1>5. CASE ~ IsConverged(current, Device) /\ ServerNew(current)
  <2>1. Known(Stage(rt, current), held)
    BY <1>1, StageKnown
  <2>2. WillApply(current) => current \in Content
    BY <1>1 DEF WillApply, HashOf, Answer
  <2> QED BY <1>1, <1>3, <1>4, <1>5, <2>1, <2>2 DEF ServerNew
<1>6. CASE ~ IsConverged(current, Device) /\ IsAlreadySynced(current)
  <2>1. CASE WillPush(Device)
    <3>1. op.call = "push"
      BY <2>1 DEF WillPush
    <3> QED BY <1>4, <1>6, <2>1, <3>1 DEF Route
  <2>2. CASE ~ WillPush(Device)
    BY <1>1, <1>3, <1>6, <2>2 DEF Route
  <2> QED BY <2>1, <2>2
<1> QED BY <1>2, <1>5, <1>6 DEF Route

LEMMA GetKeeps ==
    ASSUME IInv, Get
    PROVE  EngineSide
<1>1. op.at = "get" /\ UNCHANGED <<desktop, autoApply>>
  BY DEF Get
<1>2. DesktopInv'
  BY <1>1 DEF IInv, DesktopInv, desktop
<1>3. CASE Answered /\ Route(current, Device)
  BY <1>1, <1>2, <1>3, RouteKeeps
     DEF EngineSide, IInv, EngineInv, HistoryInv, Answered, bounds, desktop
<1>4. CASE Fails(rt) /\ UNCHANGED <<stored, history>>
  <2>1. CallInv' /\ Known(rt', held) /\ acts' \in Nat /\ faults' \in Nat
    BY <1>1, <1>4, FailsKeeps DEF IInv, EngineInv
  <2> QED BY <1>1, <1>2, <1>4, <2>1
          DEF EngineSide, IInv, EngineInv, HistoryInv, desktop, history
<1> QED BY <1>3, <1>4 DEF Get

LEMMA AppliedKeeps ==
    ASSUME IInv, op.at = "fetch", Applied
    PROVE  /\ CallInv' /\ Known(rt', held) /\ Noted(stored', held)
           /\ got' \in Optional /\ cut' \in BOOLEAN /\ torn' \in BOOLEAN
<1>1. /\ op.entry \in Content /\ op.entry \in held /\ op.entry \in Optional
      /\ Known(rt, held) /\ Noted(stored, held) /\ NoContent \in Optional
      /\ CallInv /\ cut \in BOOLEAN /\ torn \in BOOLEAN
  BY DEF IInv, CallInv, EngineInv, HistoryInv, Optional
<1>2. got' \in Optional
  BY <1>1 DEF Applied
<1>3. /\ Known(Reached(rt, op.entry), held)
      /\ Reached(rt, op.entry).events = rt.events
  BY <1>1, ReachedKnown
<1>4. CASE op.call = "apply"
  <2>1. Commit(Reached(rt, op.entry), op.entry) /\ UNCHANGED <<cut, torn>>
    BY <1>4 DEF Applied
  <2>2. CallInv' /\ Known(rt', held) /\ Noted(stored', held)
    BY <1>1, <1>3, <2>1, CommitKeeps
  <2> QED BY <1>1, <1>2, <2>1, <2>2
<1>5. CASE op.call # "apply"
  <2>1. PICK n \in 0 .. Len(rt.events) :
           LET r == Recorded(Reached(rt, op.entry), "pulled", op.entry, n)
               tripped == r.state = "loopDetected"
           IN  /\ Commit(r, IF tripped THEN NoContent ELSE op.entry)
               /\ cut' = (cut \/ tripped)
    BY <1>5 DEF Applied
  <2> DEFINE r == Recorded(Reached(rt, op.entry), "pulled", op.entry, n)
  <2>2. Known(r, held)
    BY <1>1, <1>3, RecordedKnown
  <2>3. cut' \in BOOLEAN /\ torn' \in BOOLEAN
    BY <1>1, <2>1 DEF Applied
  <2>4. \E give \in Optional : Commit(r, give)
    BY <1>1, <2>1
  <2> HIDE DEF r
  <2>5. CallInv' /\ Known(rt', held) /\ Noted(stored', held)
    BY <1>1, <2>2, <2>4, CommitKeeps
  <2> QED BY <1>2, <2>3, <2>5
<1> QED BY <1>4, <1>5

LEMMA FetchKeeps ==
    ASSUME IInv, Fetch
    PROVE  EngineSide
<1> DEFINE parked == IF op.call = "apply" THEN rt ELSE Stage(rt, op.entry)
<1>1. op.at = "fetch" /\ UNCHANGED <<desktop, autoApply>>
  BY DEF Fetch
<1>2. DesktopInv'
  BY <1>1 DEF IInv, DesktopInv, desktop
<1>3. Known(parked, held)
  <2>1. op.entry \in Answer /\ op.entry \in held /\ Known(rt, held)
    BY <1>1 DEF IInv, CallInv, EngineInv, Answer
  <2> QED BY <2>1, StageKnown
<1>4. CASE Applied /\ UNCHANGED bounds
  BY <1>1, <1>2, <1>4, AppliedKeeps
     DEF EngineSide, IInv, EngineInv, HistoryInv, bounds, desktop
<1>5. CASE /\ UNCHANGED bounds /\ rt' = TickFailure(parked)
           /\ Ends("ok", NoContent) /\ UNCHANGED <<stored, history>>
  <2>1. "ok" \in Ended /\ NoContent \in Optional
    BY DEF Ended, Optional
  <2>2. CallInv'
    BY <1>1, <1>5, <2>1, EndsCall DEF IInv
  <2>3. Known(rt', held)
    BY <1>3, <1>5, TicksKnown
  <2> QED BY <1>1, <1>2, <1>5, <2>2, <2>3
          DEF EngineSide, IInv, EngineInv, HistoryInv, desktop, history, bounds
<1>6. CASE Fails(parked) /\ UNCHANGED <<stored, history>>
  <2>1. CallInv' /\ Known(rt', held) /\ acts' \in Nat /\ faults' \in Nat
    BY <1>1, <1>3, <1>6, FailsKeeps DEF IInv
  <2> QED BY <1>1, <1>2, <1>6, <2>1
          DEF EngineSide, IInv, EngineInv, HistoryInv, desktop, history
<1> QED BY <1>4, <1>5, <1>6 DEF Fetch, Answered

(* An upload is of what the push was started with.                         *)
LEMMA UploadsContent ==
    ASSUME CallInv, op.at \in {"putFile", "putDoc"}
    PROVE  Device \in Content
BY DEF CallInv, Device

LEMMA RetriesKeeps ==
    ASSUME CallInv, op.at \in {"putFile", "putDoc"}, NEW contents,
           Known(rt, contents), held \subseteq held', Retries
    PROVE  CallInv' /\ Known(rt', contents)
<1>1. CASE op.retried
  <2>1. "ok" \in Ended /\ NoContent \in Optional
    BY DEF Ended, Optional
  <2>2. Ends("ok", NoContent) /\ rt' = TickFailure(rt)
    BY <1>1 DEF Retries
  <2> QED BY <2>1, <2>2, EndsCall, TicksKnown
<1>2. CASE ~ op.retried
  <2>1. op' = [op EXCEPT !.retried = TRUE] /\ UNCHANGED <<rt, flight>>
    BY <1>2 DEF Retries
  <2>2. op' \in Mutex /\ op'.at = op.at /\ op'.call = op.call
    BY <2>1 DEF CallInv, Mutex
  <2>3. CallInv'
    BY <2>1, <2>2, GoesOn DEF CallInv
  <2> QED BY <2>1, <2>3
<1> QED BY <1>1, <1>2

LEMMA PutFileKeeps ==
    ASSUME IInv, PutFile
    PROVE  EngineSide
<1>1. /\ op.at = "putFile" /\ UNCHANGED <<current, held, rotated, autoApply, stored, history>>
      /\ Device \in Content
  BY UploadsContent DEF PutFile, IInv
<1>2. buffer' \in Optional
  BY <1>1 DEF PutFile, IInv, DesktopInv, Optional
<1>3. CallInv' /\ Known(rt', held) /\ acts' \in Nat /\ faults' \in Nat
  <2>1. CASE /\ Answered /\ op' = [op EXCEPT !.at = "putDoc", !.retried = FALSE]
             /\ UNCHANGED <<rt, flight>>
    <3>1. op' \in Mutex /\ op'.at = "putDoc" /\ op'.call = op.call
      BY <2>1 DEF IInv, CallInv, Mutex
    <3>2. op.call = "push"
      BY <1>1 DEF IInv, CallInv
    <3>3. CallInv'
      BY <1>1, <2>1, <3>1, <3>2, GoesOn DEF IInv
    <3> QED BY <2>1, <3>3 DEF IInv, EngineInv, HistoryInv, Answered, bounds
  <2>2. CASE Fails(rt)
    BY <1>1, <2>2, FailsKeeps DEF IInv, EngineInv
  <2>3. CASE Fault /\ Retries
    <3>1. acts' \in Nat /\ faults' \in Nat
      BY <2>3 DEF Fault, IInv, HistoryInv
    <3> QED BY <1>1, <2>3, <3>1, RetriesKeeps DEF IInv, EngineInv
  <2> QED BY <2>1, <2>2, <2>3 DEF PutFile
<1> QED BY <1>1, <1>2, <1>3
        DEF EngineSide, IInv, DesktopInv, EngineInv, HistoryInv, history

(* What the desktop makes of a document it has afterwards, and only that   *)
(* is what it answers a contentId for.                                     *)
LEMMA HandledIsHeld ==
    ASSUME DesktopInv, NEW c \in Content, HandleDoc(c), UNCHANGED rotated
    PROVE  /\ DesktopInv'
           /\ held \subseteq held'
           /\ AckId(c) \in Optional
           /\ AckId(c) # NoContent => AckId(c) \in held'
<1>1. Taken(c) \in Optional
  BY DEF Taken, DesktopInv, Optional
<1>2. CASE Taken(c) = NoContent
  <2>1. UNCHANGED <<current, held>>
    BY <1>2 DEF HandleDoc
  <2>2. buffer' \in Optional
    BY DEF HandleDoc, DesktopInv, Optional
  <2> QED BY <1>1, <1>2, <2>1, <2>2 DEF AckId, DesktopInv
<1>3. CASE Taken(c) # NoContent
  <2>1. /\ Taken(c) \in Content /\ held' = held \cup {Taken(c)}
        /\ current' = Taken(c) \/ UNCHANGED current
    BY <1>1, <1>3 DEF HandleDoc, Optional
  <2>2. buffer' \in Optional
    BY DEF HandleDoc, DesktopInv, Optional
  <2> QED BY <1>1, <2>1, <2>2 DEF AckId, DesktopInv, Answer
<1> QED BY <1>2, <1>3

LEMMA PushedKeeps ==
    ASSUME CallInv, op.at = "putDoc", NEW contents, Known(rt, contents),
           Noted(stored, contents), NEW c \in Content,
           NEW id \in Optional, id # NoContent => id \in contents, Pushed(c, id)
    PROVE  CallInv' /\ Known(rt', contents) /\ Noted(stored', contents)
<1> DEFINE pushed == [AdvanceSynced(rt, c, id) EXCEPT !.state = "running"]
<1>1. PICK n \in 0 .. Len(rt.events) :
         Commit(Recorded(pushed, "pushed", c, n), NoContent)
  BY DEF Pushed
<1>2. Known(pushed, contents) /\ pushed.events = rt.events
  BY PushKnown
<1> HIDE DEF pushed
<1>3. Known(Recorded(pushed, "pushed", c, n), contents)
  BY <1>2, RecordedKnown
<1>4. NoContent \in Optional
  BY DEF Optional
<1> QED BY <1>1, <1>3, <1>4, CommitKeeps

LEMMA PutDocKeeps ==
    ASSUME IInv, PutDoc
    PROVE  EngineSide
<1>1. /\ op.at = "putDoc" /\ UNCHANGED <<rotated, autoApply, cut, torn>>
      /\ Device \in Content /\ Device \in Optional
  BY UploadsContent DEF PutDoc, IInv, Optional
<1>2. CASE Answered /\ HandleDoc(Device) /\ Pushed(Device, AckId(Device)) /\ got' = Device
  <2>1. /\ DesktopInv' /\ held \subseteq held' /\ AckId(Device) \in Optional
        /\ AckId(Device) # NoContent => AckId(Device) \in held'
    BY <1>1, <1>2, HandledIsHeld DEF IInv
  <2>2. Known(rt, held') /\ Noted(stored, held')
    BY <2>1, KnownGrows DEF IInv, EngineInv
  <2>3. CallInv' /\ Known(rt', held') /\ Noted(stored', held')
    BY <1>1, <1>2, <2>1, <2>2, PushedKeeps DEF IInv
  <2> QED BY <1>1, <1>2, <2>1, <2>3
          DEF EngineSide, IInv, EngineInv, HistoryInv, Answered, bounds
<1>3. CASE Fails(rt) /\ UNCHANGED <<current, held, buffer, got, stored>>
  <2>1. CallInv' /\ Known(rt', held) /\ acts' \in Nat /\ faults' \in Nat
    BY <1>1, <1>3, FailsKeeps DEF IInv, EngineInv
  <2> QED BY <1>1, <1>3, <2>1
          DEF EngineSide, IInv, DesktopInv, EngineInv, HistoryInv
<1>4. CASE Fault /\ HandleDoc(Device) /\ Retries /\ UNCHANGED <<stored, got>>
  <2>1. DesktopInv' /\ held \subseteq held'
    BY <1>1, <1>4, HandledIsHeld DEF IInv
  <2>2. Known(rt, held') /\ Noted(stored, held')
    BY <2>1, KnownGrows DEF IInv, EngineInv
  <2>3. CallInv' /\ Known(rt', held')
    BY <1>1, <1>4, <2>1, <2>2, RetriesKeeps DEF IInv
  <2> QED BY <1>1, <1>4, <2>1, <2>2, <2>3
          DEF EngineSide, IInv, EngineInv, HistoryInv, Fault
<1> QED BY <1>2, <1>3, <1>4 DEF PutDoc

(* The second key is written last, of the same watermark.                  *)
LEMMA SaveKeeps ==
    ASSUME IInv, Save
    PROVE  EngineSide
<1>1. op.at = "save" /\ UNCHANGED <<desktop, rt, autoApply, got, bounds>>
  BY DEF Save
<1>2. op.give \in Optional /\ {"loop", "ok"} \subseteq Ended
  BY DEF IInv, CallInv, Mutex, Ended
<1>3. CallInv'
  BY <1>1, <1>2, EndsCall DEF Save, IInv
<1>4. Noted(stored', held)
  BY DEF Save, IInv, EngineInv, Known, Noted, Runtime, Watermark
<1>5. cut' \in BOOLEAN /\ torn' \in BOOLEAN
  BY DEF Save, IInv, HistoryInv
<1> QED BY <1>1, <1>3, <1>4, <1>5
        DEF EngineSide, IInv, DesktopInv, EngineInv, HistoryInv, desktop, bounds

-----------------------------------------------------------------------------
(* The engine's other calls, and the desktop *)

LEMMA SetServerKeeps ==
    ASSUME IInv, SetServer
    PROVE  EngineSide
<1>1. Known(rt', held) /\ Noted(stored', held)
  BY FreshKnown DEF SetServer
<1>2. CallInv'
  BY KeptCalls DEF SetServer, IInv
<1> QED BY <1>1, <1>2
        DEF EngineSide, SetServer, IInv, DesktopInv, EngineInv, HistoryInv, history, bounds

LEMMA AcknowledgeKeeps ==
    ASSUME IInv, Acknowledge
    PROVE  EngineSide
<1>1. Known(rt', held)
  <2>1. <<>> \in Seq(Event)
    BY EmptySeq
  <2> QED BY <2>1 DEF Acknowledge, IInv, EngineInv, Known, Runtime
<1>2. CallInv'
  BY KeptCalls DEF Acknowledge, IInv, desktop
<1> QED BY <1>1, <1>2 DEF EngineSide, Acknowledge, IInv, DesktopInv, EngineInv,
        HistoryInv, desktop, history, bounds

(* Whatever becomes the desktop's clipboard is in its history.             *)
LEMMA ElsewhereKeeps ==
    ASSUME IInv, Elsewhere
    PROVE  EngineSide
<1>1. CASE SetSettings
  <2>1. CallInv'
    BY <1>1, KeptCalls DEF SetSettings, IInv, desktop
  <2> QED BY <1>1, <2>1 DEF SetSettings, Act, EngineSide, IInv, DesktopInv, EngineInv,
          HistoryInv, desktop, history
<1>2. CASE BackoffEnds
  <2>1. CallInv'
    BY <1>2, KeptCalls DEF BackoffEnds, IInv, desktop
  <2>2. Known(rt', held)
    BY <1>2, TicksKnown DEF BackoffEnds, IInv, EngineInv
  <2> QED BY <1>2, <2>1, <2>2 DEF BackoffEnds, EngineSide, IInv, DesktopInv, EngineInv,
          HistoryInv, desktop, history, bounds
<1>3. ASSUME held \subseteq held', DesktopInv', UNCHANGED <<rt, autoApply, op, flight>>,
             Noted(stored', held'), HistoryInv'
      PROVE  EngineSide
  <2>1. CallInv'
    BY <1>3, KeptCalls DEF IInv
  <2>2. Known(rt', held')
    BY <1>3, KnownGrows DEF IInv, EngineInv
  <2> QED BY <1>3, <2>1, <2>2 DEF EngineSide, IInv, EngineInv
<1>4. CASE DesktopEmpties \/ BufferLost \/ RotatePassword
  <2>1. UNCHANGED <<engine, history>> /\ UNCHANGED held /\ (Act \/ Fault)
    BY <1>4 DEF DesktopEmpties, BufferLost, RotatePassword
  <2>2. DesktopInv'
    BY <1>4, Markers DEF DesktopEmpties, BufferLost, RotatePassword, IInv, DesktopInv,
       Answer, Optional
  <2>3. HistoryInv'
    BY <2>1 DEF Act, Fault, IInv, HistoryInv, history
  <2> QED BY <1>3, <2>1, <2>2, <2>3 DEF IInv, EngineInv, engine
<1>5. ASSUME NEW c \in Content, DesktopCopy(c)
      PROVE  EngineSide
  <2>1. UNCHANGED <<engine, history>> /\ held' = held \cup {c}
    BY <1>5 DEF DesktopCopy
  <2>2. DesktopInv'
    BY <1>5 DEF DesktopCopy, IInv, DesktopInv, Answer
  <2>3. HistoryInv'
    BY <1>5 DEF DesktopCopy, Act, IInv, HistoryInv, history
  <2>4. Noted(stored, held')
    BY <2>1, KnownGrows DEF IInv, EngineInv
  <2> QED BY <1>3, <2>1, <2>2, <2>3, <2>4 DEF engine
<1>6. ASSUME NEW c \in Content, ShareExtension(c)
      PROVE  EngineSide
  <2>1. held' = held \cup {c} /\ UNCHANGED <<rt, autoApply, op, flight>>
    BY <1>6 DEF ShareExtension
  <2>2. DesktopInv'
    BY <1>6 DEF ShareExtension, IInv, DesktopInv, Answer
  <2>3. HistoryInv'
    <3>1. got' = c /\ torn' = FALSE /\ UNCHANGED cut /\ Act
      BY <1>6 DEF ShareExtension
    <3>2. got' \in Optional /\ torn' \in BOOLEAN /\ cut' \in BOOLEAN
      BY <3>1 DEF IInv, HistoryInv, Optional
    <3>3. acts' \in Nat /\ faults' \in Nat
      BY <3>1 DEF Act, IInv, HistoryInv
    <3> QED BY <3>2, <3>3 DEF HistoryInv
  <2>4. Noted(stored', held')
    BY <1>6 DEF ShareExtension, Noted, Watermark, Optional
  <2> QED BY <1>3, <2>1, <2>2, <2>3, <2>4
<1> QED BY <1>1, <1>2, <1>4, <1>5, <1>6 DEF Elsewhere

-----------------------------------------------------------------------------
(* The app *)

LEMMA EngineSideKept ==
    ASSUME IInv, UNCHANGED <<desktop, engine, history>>, Act \/ UNCHANGED bounds
    PROVE  EngineSide
<1>1. CallInv'
  BY KeptCalls DEF IInv, desktop, engine
<1> QED BY <1>1 DEF EngineSide, IInv, DesktopInv, EngineInv, HistoryInv, desktop,
        engine, history, bounds, Act

(* A call is made while none of its kind is under way.                     *)
LEMMA CallsKeeps ==
    ASSUME IInv, NEW c \in Call, NEW routine \in BOOLEAN, NEW device \in Optional,
           Calls(c, routine, device), c = "push" => device \in Content,
           Act \/ UNCHANGED bounds
    PROVE  EngineSide
<1> DEFINE made == [NoCall EXCEPT !.at = "called", !.routine = routine, !.device = device]
<1>1. made \in Flight /\ made.at = "called" /\ made.device = device
  BY DEF NoCall, Flight, Optional
<1>2. flight[c].at = "none" /\ flight' = [flight EXCEPT ![c] = made]
      /\ UNCHANGED <<desktop, rt, autoApply, op, stored, history>>
  BY DEF Calls, Quiet
<1> HIDE DEF made
<1>3. flight' \in [Call -> Flight]
  BY <1>1, <1>2 DEF IInv, CallInv
<1>4. CallInv'
  BY <1>1, <1>2, <1>3 DEF IInv, CallInv, Call, desktop
<1> QED BY <1>2, <1>4 DEF EngineSide, IInv, DesktopInv, EngineInv, HistoryInv,
        desktop, history, bounds, Act

(* The app's own steps of a call come after the engine's.                  *)
LEMMA FlightKeeps ==
    ASSUME IInv, NEW c \in Call, flight[c].at \in {"ended", "written", "noted"},
           NEW f \in Flight, flight' = [flight EXCEPT ![c] = f],
           f.at \in {"none", "written", "noted"}, f.device \in {flight[c].device, NoContent},
           f.device = NoContent => f.at = "none" \/ flight[c].device = NoContent,
           UNCHANGED <<desktop, op>>
    PROVE  CallInv'
<1>1. flight' \in [Call -> Flight]
  BY DEF IInv, CallInv
<1>2. op.at # "idle" => op.call # c /\ flight'[op.call].at = "inside"
  BY DEF IInv, CallInv
<1>3. flight'["push"].at # "none" => flight'["push"].device \in Content
  BY DEF IInv, CallInv, Call
<1> QED BY <1>1, <1>2, <1>3 DEF IInv, CallInv, desktop

LEMMA FinishKeeps ==
    ASSUME IInv, NEW c \in Call, flight[c].at \in {"ended", "noted"},
           NEW end \in Ended, Finish(c, end)
    PROVE  /\ DesktopInv' /\ EngineInv' /\ CallInv'
           /\ got' \in Optional /\ torn' \in BOOLEAN
           /\ shown' \in {"running", "authFailed", "loopDetected"}
           /\ ticking' \in BOOLEAN
<1>1. flight' = [flight EXCEPT ![c] = NoCall]
      /\ UNCHANGED <<desktop, rt, autoApply, op, stored, got, torn>>
  BY DEF Finish
<1>2. NoCall \in Flight /\ NoCall.at = "none" /\ NoCall.device = NoContent
  BY IdleTyped DEF NoCall
<1>3. CallInv'
  BY <1>1, <1>2, FlightKeeps
<1>4. shown' \in {"running", "authFailed", "loopDetected"}
  BY DEF Finish, ShownAfter, IInv, AppInv
<1>5. ticking' \in BOOLEAN
  BY DEF Finish, IInv, AppInv
<1> QED BY <1>1, <1>3, <1>4, <1>5 DEF IInv, DesktopInv, EngineInv, HistoryInv, desktop

LEMMA StepKeeps ==
    ASSUME IInv, NEW c \in Call, Step(c) \/ WriteFails(c)
    PROVE  IInv'
<1>1. /\ flight[c] \in Flight /\ flight[c].give \in Optional
      /\ flight[c].end \in Ended /\ "ok" \in Ended /\ NoContent \in Optional
  BY DEF IInv, CallInv, Flight, Ended, Optional
<1>2. CASE Settle(c)
  BY <1>1, <1>2, FinishKeeps DEF Settle, IInv, HistoryInv, AppInv, bounds
<1>3. CASE Clear(c)
  BY <1>1, <1>3, FinishKeeps DEF Clear, IInv, HistoryInv, AppInv, bounds
<1>4. CASE WriteFails(c)
  <2>1. unwritten' \in Optional /\ register' \in Optional
    BY <1>1, <1>4 DEF WriteFails, IInv, AppInv
  <2>2. /\ DesktopInv' /\ EngineInv' /\ CallInv'
        /\ got' \in Optional /\ torn' \in BOOLEAN
        /\ shown' \in {"running", "authFailed", "loopDetected"}
        /\ ticking' \in BOOLEAN
    BY <1>1, <1>4, FinishKeeps DEF WriteFails
  <2>3. HistoryInv'
    BY <1>4, <2>2 DEF WriteFails, Fault, IInv, HistoryInv
  <2>4. AppInv'
    BY <1>4, <2>1, <2>2 DEF WriteFails, IInv, AppInv
  <2> QED BY <2>2, <2>3, <2>4 DEF IInv
<1>5. ASSUME NEW at \in {"written", "noted"},
             flight[c].at \in {"ended", "written", "noted"},
             flight' = [flight EXCEPT ![c].at = at],
             UNCHANGED <<desktop, rt, autoApply, op, stored, history, bounds>>
      PROVE  EngineSide
  <2> DEFINE f == [flight[c] EXCEPT !.at = at]
  <2>1. f \in Flight /\ f.at = at /\ f.device = flight[c].device
    BY <1>1 DEF Flight
  <2>2. flight' = [flight EXCEPT ![c] = f]
    BY <1>5
  <2> HIDE DEF f
  <2>3. CallInv'
    BY <1>5, <2>1, <2>2, FlightKeeps
  <2> QED BY <1>5, <2>3 DEF EngineSide, IInv, DesktopInv, EngineInv, HistoryInv,
          desktop, history, bounds
<1>6. CASE Write(c)
  <2>1. EngineSide
    BY <1>5, <1>6 DEF Write
  <2>2. AppInv'
    BY <1>1, <1>6 DEF Write, IInv, AppInv
  <2> QED BY <2>1, <2>2 DEF EngineSide, IInv
<1>7. CASE Note(c)
  <2>1. EngineSide
    BY <1>5, <1>7 DEF Note
  <2>2. AppInv'
    BY <1>1, <1>7 DEF Note, IInv, AppInv
  <2> QED BY <2>1, <2>2 DEF EngineSide, IInv
<1> QED BY <1>2, <1>3, <1>4, <1>6, <1>7 DEF Step

LEMMA StartsKeep ==
    ASSUME IInv, StartPush \/ StartTick \/ StartPull \/ StartRefresh \/ StartApply
    PROVE  IInv'
<1>1. /\ {"push", "pull", "refresh", "apply"} = Call
      /\ register \in Optional /\ NoContent \in Optional
  BY DEF Call, IInv, AppInv, Optional
<1>2. CASE StartPush
  <2>1. EngineSide
    <3>1. CASE register = NoContent
      BY <1>2, <3>1, EngineSideKept DEF StartPush, syncVars
    <3>2. CASE register # NoContent
      <4>1. register \in Content /\ Calls("push", FALSE, register) /\ UNCHANGED bounds
        BY <1>1, <1>2, <3>2 DEF StartPush, Optional
      <4> QED BY <1>1, <4>1, CallsKeeps
    <3> QED BY <3>1, <3>2
  <2> QED BY <1>2, <2>1 DEF StartPush, EngineSide, IInv, AppInv
<1>3. CASE StartTick \/ StartPull \/ StartRefresh \/ StartApply
  <2>1. EngineSide
    BY <1>1, <1>3, CallsKeeps DEF StartTick, StartPull, StartRefresh, StartApply
  <2>2. UNCHANGED app
    BY <1>3 DEF StartTick, StartPull, StartRefresh, StartApply
  <2> QED BY <2>1, <2>2 DEF EngineSide, IInv, AppInv, app
<1> QED BY <1>2, <1>3

LEMMA CopiesKeep ==
    ASSUME IInv, \/ Observe \/ Emit \/ Reopen \/ NetworkChanged
                 \/ \E c \in Content : PhoneCopy(c) \/ UseItem(c)
    PROVE  IInv'
<1>1. EngineSide
  BY EngineSideKept DEF Observe, Emit, Reopen, NetworkChanged, PhoneCopy, UseItem,
     syncVars
<1>2. AppInv'
  BY DEF Observe, Emit, Reopen, NetworkChanged, PhoneCopy, UseItem, Activate,
     Restarts, IInv, AppInv, Optional
<1> QED BY <1>1, <1>2 DEF EngineSide, IInv

(* The app's end takes everything but the store and what is on the desktop. *)
LEMMA CrashKeeps ==
    ASSUME IInv, Crash
    PROVE  IInv'
<1>1. /\ rt' = Fresh /\ op' = Idle /\ flight' = [c \in Call |-> NoCall] /\ Fault
      /\ UNCHANGED <<desktop, autoApply, stored, got, torn>>
  BY DEF Crash, EngineCrash
<1>2. cut' \in BOOLEAN /\ torn' \in BOOLEAN
  BY DEF Crash, EngineCrash, IInv, HistoryInv
<1>3. CallInv'
  BY <1>1, IdleTyped DEF CallInv, NoCall, Call
<1>4. Known(rt', held)
  BY <1>1, FreshKnown
<1>5. AppInv'
  BY DEF Crash, IInv, AppInv, Optional
<1> QED BY <1>1, <1>2, <1>3, <1>4, <1>5
        DEF Fault, IInv, DesktopInv, EngineInv, HistoryInv, desktop

LEMMA NextKeeps ==
    ASSUME IInv, [Next]_vars
    PROVE  IInv'
<1>1. ASSUME EngineSide, UNCHANGED app
      PROVE  IInv'
  BY <1>1 DEF EngineSide, IInv, AppInv, app
<1>2. CASE \E c \in Call : EnterTick(c) /\ UNCHANGED app
  BY <1>1, <1>2, EnterTickKeeps
<1>3. CASE (EnterApply \/ Request \/ Elsewhere) /\ UNCHANGED app
  BY <1>1, <1>3, EnterApplyKeeps, GetKeeps, FetchKeeps, PutFileKeeps, PutDocKeeps,
     SaveKeeps, ElsewhereKeeps DEF Request
<1>4. CASE ServerChanged \/ AcknowledgeLoop
  <2>1. EngineSide
    BY <1>4, SetServerKeeps, AcknowledgeKeeps DEF ServerChanged, AcknowledgeLoop
  <2>2. AppInv'
    BY <1>4 DEF ServerChanged, AcknowledgeLoop, Restarts, IInv, AppInv
  <2> QED BY <2>1, <2>2 DEF EngineSide, IInv
<1>5. CASE UNCHANGED vars
  <2>1. EngineSide /\ UNCHANGED app
    BY <1>5, EngineSideKept DEF vars, syncVars
  <2> QED BY <1>1, <2>1
<1> QED BY <1>2, <1>3, <1>4, <1>5, StepKeeps, StartsKeep, CopiesKeep, CrashKeeps
        DEF Next

LEMMA InitKeeps == Init => IInv
<1> SUFFICES ASSUME Init
             PROVE  IInv
  OBVIOUS
<1>1. EngineInv
  BY FreshKnown DEF Init, SyncInit, EngineInv
<1>2. CallInv
  BY IdleTyped DEF Init, SyncInit, CallInv, NoCall, Call
<1>3. DesktopInv
  BY Markers DEF Init, SyncInit, DesktopInv, Answer, Optional
<1> QED BY <1>1, <1>2, <1>3
        DEF Init, SyncInit, IInv, HistoryInv, AppInv, Optional

(***************************************************************************)
(* Every reachable state of phone and desktop is well-typed, and a         *)
(* contentId that the engine goes by, in memory or in the store, is one of *)
(* a content in the desktop's history: through buffer misses, lost         *)
(* answers, retries, the two writes of the watermark, crashes between      *)
(* them, the Share Extension, and a change of the server.                  *)
(***************************************************************************)
THEOREM SyncIsSound == Spec => []SyncInv
<1>1. IInv /\ [Next]_vars => IInv'
  BY NextKeeps
<1> QED BY InitKeeps, <1>1, InvImplies, PTL DEF Spec
=============================================================================
