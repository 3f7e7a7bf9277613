----------------------------- MODULE MobileSync -----------------------------
(***************************************************************************)
(* A phone's sync engine (uc-mobile/src/engine.rs), which drives the       *)
(* decisions of sync_engine.rs over HTTP one call at a time, and behind it *)
(* the desktop's endpoint (routes/sync_doc.rs, apply_incoming.rs).         *)
(* MobileApp adds the application that calls it, and is what is checked.   *)
(*                                                                         *)
(* A content stands for its bytes, its SHA-256 and its contentId; an image *)
(* that the desktop encodes anew keeps only the last, and is left out.     *)
(* Other phones, and what the app uploads past its engine, appear as       *)
(* changes of what the desktop holds.                                      *)
(***************************************************************************)
EXTENDS Naturals, Sequences, FiniteSets

CONSTANTS
    Content,        \* what is copied
    Attached,       \* contents that travel as a file of the same name
    NoContent,      \* neither content nor hash nor contentId
    Empty,          \* the empty Text profile of a desktop with nothing to offer
    FlipThreshold,  \* loop_flip_threshold
    MaxActs,        \* bound on what users do, on either side
    MaxFaults       \* bound on crashes, restarts and failing requests

ASSUME MobileSyncAssumption ==
    /\ Attached \subseteq Content
    /\ NoContent \notin Content /\ Empty \notin Content /\ NoContent # Empty
    /\ FlipThreshold \in Nat /\ MaxActs \in Nat /\ MaxFaults \in Nat

VARIABLES
    current,    \* the desktop: what GET /SyncClipboard.json answers
    held,       \* the desktop: contents in its history
    buffer,     \* the desktop: the file that awaits its document
    rotated,    \* the desktop: the phone's password is no longer valid
    rt,         \* SyncRuntimeState
    autoApply,  \* SyncSettings
    op,         \* the call that holds the engine's mutex
    flight,     \* the app's calls, from before they get the mutex
    stored,     \* the watermark in the KeyValueStore
    got,        \* history: the last exchange that the phone knows of
    cut,        \* history: the phone has lost what it was last given
    torn,       \* history: the two keys of the watermark have two writers
    acts, faults

desktop == <<current, held, buffer, rotated>>
engine == <<rt, autoApply, op, flight, stored>>
history == <<got, cut, torn>>
bounds == <<acts, faults>>
syncVars == <<desktop, engine, history, bounds>>

Optional == Content \cup {NoContent}
Answer == Content \cup {Empty}
Watermark == [hash : Optional, id : Optional]
Event == [dir : {"pulled", "pushed"}, hash : Content]

NoWatermark == [hash |-> NoContent, id |-> NoContent]
Call == {"push", "pull", "refresh", "apply"}
Idle == [at |-> "idle", call |-> "none", entry |-> NoContent,
         retried |-> FALSE, give |-> NoContent]
NoCall == [at |-> "none", routine |-> FALSE, device |-> NoContent,
           end |-> "none", give |-> NoContent]

(* Idle, Succeeded, HasNewUnwritten and OfflineRetrying differ only in     *)
(* what the user is shown.                                                 *)
Fresh == [state |-> "running", synced |-> NoWatermark, applied |-> NoContent,
          staged |-> NoContent, events |-> <<>>, backoff |-> FALSE]

Runtime == [state : {"running", "authFailed", "loopDetected"},
            synced : Watermark, applied : Optional,
            staged : Answer \cup {NoContent}, events : Seq(Event),
            backoff : BOOLEAN]
Mutex == [at : {"idle", "get", "fetch", "putFile", "putDoc", "save"},
          call : Call \cup {"none"}, entry : Answer \cup {NoContent},
          retried : BOOLEAN, give : Optional]
Flight == [at : {"none", "called", "inside", "ended", "written", "noted"},
           routine : BOOLEAN, device : Optional, give : Optional,
           end : {"none", "ok", "cancelled", "backoff", "auth", "loop"}]

SyncTypeOK ==
    /\ current \in Answer /\ held \subseteq Content
    /\ buffer \in Optional /\ rotated \in BOOLEAN
    /\ rt \in Runtime /\ stored \in Watermark /\ autoApply \in BOOLEAN
    /\ op \in Mutex /\ flight \in [Call -> Flight]
    /\ got \in Optional /\ cut \in BOOLEAN /\ torn \in BOOLEAN
    /\ acts \in Nat /\ faults \in Nat

SyncInit ==
    /\ current = Empty /\ held = {} /\ buffer = NoContent /\ rotated = FALSE
    /\ rt = Fresh /\ autoApply = TRUE /\ op = Idle
    /\ flight = [c \in Call |-> NoCall] /\ stored = NoWatermark
    /\ got = NoContent /\ cut = FALSE /\ torn = FALSE
    /\ acts = 0 /\ faults = 0

Act == acts < MaxActs /\ acts' = acts + 1 /\ UNCHANGED faults
Fault == faults < MaxFaults /\ faults' = faults + 1 /\ UNCHANGED acts

-----------------------------------------------------------------------------
(* sync_engine.rs: what the engine decides of an answer. *)

HashOf(entry) == IF entry = Empty THEN NoContent ELSE entry

(* is_already_synced: by contentId where both sides have one, else by hash.*)
IsAlreadySynced(entry) ==
    IF HashOf(entry) # NoContent /\ rt.synced.id # NoContent
    THEN entry = rt.synced.id
    ELSE HashOf(entry) = rt.synced.hash

(* The truth-gate of plan_after_server_get.                                *)
IsConverged(entry, device) == entry \in Content /\ entry = device

(* plan_server_new *)
AlreadyStaged(entry) == entry = rt.staged
WillApply(entry) == autoApply /\ HashOf(entry) # NoContent

(* plan_push; a pull never gets further than this.                         *)
WillPush(device) ==
    /\ op.call = "push"
    /\ device # rt.synced.hash /\ device # rt.applied

-----------------------------------------------------------------------------
(* sync_engine.rs and loop_guard.rs: how an outcome changes its state. *)

Flips(events, c) ==
    LET own == SelectSeq(events, LAMBDA e : e.hash = c)
    IN  Cardinality({i \in 2 .. Len(own) : own[i].dir # own[i - 1].dir})

Tripped(events) == \E c \in Content : Flips(events, c) >= FlipThreshold

(* record_and_check, when the window still covers the last n events.       *)
Recorded(r, dir, c, n) ==
    LET old == r.events
        events == Append(SubSeq(old, Len(old) - n + 1, Len(old)),
                         [dir |-> dir, hash |-> c])
    IN  [r EXCEPT !.events = events,
                  !.state = IF Tripped(events) THEN "loopDetected" ELSE @]

\* Defect: a push that learns no contentId leaves the old one in place.
AdvanceHash(r, hash, id) ==
    [r EXCEPT !.synced = [hash |-> hash,
                          id |-> IF id = NoContent THEN @.id ELSE id]]

AdvanceSynced(r, hash, id) == [r EXCEPT !.synced = [hash |-> hash, id |-> id]]

(* What commit_converged, commit_apply and mark_staged_applied share.      *)
Reached(r, entry) ==
    [AdvanceSynced(r, entry, entry) EXCEPT
        !.applied = entry, !.staged = NoContent, !.state = "running"]

TickSuccess(r) == [r EXCEPT !.backoff = FALSE]

(* commit_tick_failure, for any error but a 401 and a cancellation.        *)
TickFailure(r) == [r EXCEPT !.backoff = TRUE, !.state = "running"]
AuthFailure(r) == [r EXCEPT !.state = "authFailed"]

Stage(r, entry) == [r EXCEPT !.staged = entry]

-----------------------------------------------------------------------------
(* Calls of the engine.  A push or a pull takes the mutex and first folds  *)
(* in what the store says.                                                 *)

Free == op.at = "idle"
Folded == [rt EXCEPT !.synced = stored]
Device == flight[op.call].device

Starts(c, at, entry) ==
    /\ op' = [Idle EXCEPT !.at = at, !.call = c, !.entry = entry]
    /\ flight' = [flight EXCEPT ![c].at = "inside"]

Rejected(c, end) ==
    /\ op' = Idle
    /\ flight' = [flight EXCEPT ![c].at = "ended", ![c].end = end]

(* paused_outcome stops every tick, the backoff window those that come of  *)
(* themselves.  An update with the contentId of the watermark, which is    *)
(* left out, ends here too.                                                *)
EnterTick(c) ==
    /\ Free /\ c # "apply" /\ flight[c].at = "called"
    /\ rt' = Folded
    /\ \/ rt.state = "loopDetected" /\ Rejected(c, "loop")
       \/ rt.state = "authFailed" /\ Rejected(c, "auth")
       \/ /\ rt.state = "running" /\ rt.backoff /\ flight[c].routine
          /\ Rejected(c, "backoff")
       \/ /\ rt.state = "running" /\ ~ (rt.backoff /\ flight[c].routine)
          /\ Starts(c, "get", NoContent)
    /\ UNCHANGED <<desktop, autoApply, stored, history, bounds>>

(* apply_staged asks neither.                                              *)
EnterApply ==
    /\ Free /\ flight["apply"].at = "called"
    /\ IF rt.staged \in Content THEN Starts("apply", "fetch", rt.staged)
       ELSE Rejected("apply", "ok")
    /\ UNCHANGED <<desktop, rt, autoApply, stored, history, bounds>>

-----------------------------------------------------------------------------
(* One call, request by request. *)

Ends(end, give) ==
    /\ op' = Idle
    /\ flight' = [flight EXCEPT ![op.call].at = "ended", ![op.call].end = end,
                                ![op.call].give = give]

(* An error ends the call; what it made of the state is up to its kind.    *)
Fails(r) ==
    \/ rotated /\ Ends("auth", NoContent) /\ rt' = AuthFailure(r) /\ UNCHANGED bounds
    \/ ~ rotated /\ Ends("ok", NoContent) /\ rt' = TickFailure(r) /\ Fault
    \/ ~ rotated /\ Ends("cancelled", NoContent) /\ rt' = r /\ Fault

Answered == ~ rotated /\ UNCHANGED bounds

(* persist_watermark writes the two keys one after the other; give is what *)
(* the caller is to be handed.                                             *)
Commit(r, give) ==
    /\ rt' = TickSuccess(r)
    /\ stored' = [stored EXCEPT !.hash = r.synced.hash]
    /\ op' = [op EXCEPT !.at = "save", !.give = give]
    /\ UNCHANGED flight

(* A tick that commits nothing.                                            *)
Skip(r) ==
    /\ rt' = TickSuccess(r)
    /\ Ends("ok", NoContent)
    /\ UNCHANGED <<stored, history>>

GoOn(at) ==
    /\ op' = [op EXCEPT !.at = at, !.entry = current]
    /\ UNCHANGED <<rt, flight, stored, history>>

(* handle_server_new, up to the download.                                  *)
ServerNew(entry) ==
    \/ AlreadyStaged(entry) /\ Skip(rt)
    \/ ~ AlreadyStaged(entry) /\ ~ WillApply(entry) /\ Skip(Stage(rt, entry))
    \/ ~ AlreadyStaged(entry) /\ WillApply(entry) /\ GoOn("fetch")

(* plan_after_server_get, and the branches of run_route.                   *)
Route(entry, device) ==
    \/ /\ IsConverged(entry, device)
       /\ Commit(Reached(rt, entry), NoContent)
       /\ got' = entry /\ UNCHANGED <<cut, torn>>
    \/ /\ ~ IsConverged(entry, device) /\ ~ IsAlreadySynced(entry)
       /\ ServerNew(entry)
    \/ /\ ~ IsConverged(entry, device) /\ IsAlreadySynced(entry)
       /\ IF WillPush(device)
          THEN GoOn(IF device \in Attached THEN "putFile" ELSE "putDoc")
          ELSE Skip(rt)

Get ==
    /\ op.at = "get"
    /\ \/ Answered /\ Route(current, Device)
       \/ Fails(rt) /\ UNCHANGED <<stored, history>>
    /\ UNCHANGED <<desktop, autoApply>>

(* The content is downloaded, and given out once it is committed.          *)
Applied ==
    /\ got' = op.entry /\ UNCHANGED torn
    /\ IF op.call = "apply"
       THEN Commit(Reached(rt, op.entry), op.entry) /\ UNCHANGED cut
       ELSE \E n \in 0 .. Len(rt.events) :
               LET r == Recorded(Reached(rt, op.entry), "pulled", op.entry, n)
                   tripped == r.state = "loopDetected"
               IN  /\ Commit(r, IF tripped THEN NoContent ELSE op.entry)
                   /\ cut' = (cut \/ tripped)

(* fetch_content: the file of an entry is served while the entry is the    *)
(* latest.  A pull that fails parks the entry in the staged slot.          *)
Fetch ==
    LET parked == IF op.call = "apply" THEN rt ELSE Stage(rt, op.entry)
        gone == op.entry \in Attached /\ current # op.entry
    IN  /\ op.at = "fetch"
        /\ \/ /\ op.entry \in Attached => Answered /\ ~ gone
              /\ Applied
              /\ UNCHANGED bounds
           \/ /\ gone /\ Answered
              /\ rt' = TickFailure(parked) /\ Ends("ok", NoContent)
              /\ UNCHANGED <<stored, history>>
           \/ /\ op.entry \in Attached /\ Fails(parked)
              /\ UNCHANGED <<stored, history>>
        /\ UNCHANGED <<desktop, autoApply>>

(* send_with_retry: the second failure is final.                           *)
Retries ==
    IF op.retried THEN Ends("ok", NoContent) /\ rt' = TickFailure(rt)
    ELSE op' = [op EXCEPT !.retried = TRUE] /\ UNCHANGED <<rt, flight>>

(* put_clipboard, first request.  Where the answer is lost the desktop may *)
(* have the file all the same; the client tries twice.                     *)
PutFile ==
    /\ op.at = "putFile"
    /\ \/ /\ Answered
          /\ buffer' = Device
          /\ op' = [op EXCEPT !.at = "putDoc", !.retried = FALSE]
          /\ UNCHANGED <<rt, flight>>
       \/ Fails(rt) /\ UNCHANGED buffer
       \/ /\ ~ rotated /\ Fault
          /\ buffer' = Device
          /\ Retries
    /\ UNCHANGED <<current, held, rotated, autoApply, stored, history>>

(* What the desktop makes a snapshot of: the text, or the file it has      *)
(* under the name that the document gives.                                 *)
Taken(c) == IF c \in Attached THEN buffer ELSE c

\* Defect: the contentId that is answered is one for what was asked.
PromisedId(c) == c

(* put_ack_content_id: there is none for a buffer miss, which is answered  *)
(* 200 nevertheless.                                                       *)
AckId(c) == Taken(c)

(* ApplyIncomingMobileClipUseCase::execute for a document.  New content    *)
(* becomes the active one; content in the history may not, if it came      *)
(* twice or the clipboard cannot be written.                               *)
HandleDoc(c) ==
    /\ buffer' = IF c \in Attached THEN NoContent ELSE buffer
    /\ IF Taken(c) = NoContent
       THEN UNCHANGED <<current, held>>
       ELSE /\ held' = held \cup {Taken(c)}
            /\ \/ current' = Taken(c)
               \/ Taken(c) \in held /\ UNCHANGED current

(* commit_push *)
Pushed(c, id) ==
    \E n \in 0 .. Len(rt.events) :
        Commit(Recorded([AdvanceSynced(rt, c, id) EXCEPT !.state = "running"],
                        "pushed", c, n), NoContent)

(* put_clipboard, second request.                                          *)
PutDoc ==
    /\ op.at = "putDoc"
    /\ \/ /\ Answered
          /\ HandleDoc(Device)
          /\ Pushed(Device, AckId(Device))
          /\ got' = Device
       \/ /\ Fails(rt)
          /\ UNCHANGED <<current, held, buffer, got, stored>>
       \/ /\ ~ rotated /\ Fault
          /\ HandleDoc(Device)
          /\ Retries
          /\ UNCHANGED <<stored, got>>
    /\ UNCHANGED <<rotated, autoApply, cut, torn>>

(* The second key; the mutex is free again.  The Share Extension may have  *)
(* written its own in between.                                             *)
Save ==
    /\ op.at = "save"
    /\ stored' = [stored EXCEPT !.id = rt.synced.id]
    /\ Ends(IF rt.state = "loopDetected" THEN "loop" ELSE "ok", op.give)
    /\ cut' = (cut /\ rt.state = "loopDetected")
    /\ torn' = (stored.hash # rt.synced.hash)
    /\ UNCHANGED <<desktop, rt, autoApply, got, bounds>>

Request == Get \/ Fetch \/ PutFile \/ PutDoc \/ Save

-----------------------------------------------------------------------------
(* The engine's other calls, which wait for the mutex as well. *)

(* set_server with the new password.                                       *)
SetServer ==
    /\ Free /\ rotated
    /\ rotated' = FALSE
    /\ rt' = Fresh /\ stored' = NoWatermark /\ torn' = FALSE
    /\ UNCHANGED <<current, held, buffer, autoApply, op, flight, got, cut, bounds>>

SetSettings ==
    /\ Free
    /\ autoApply' = ~ autoApply
    /\ Act
    /\ UNCHANGED <<desktop, rt, op, flight, stored, history>>

(* acknowledge_loop_detected *)
Acknowledge ==
    /\ Free
    /\ rt' = [rt EXCEPT !.events = <<>>, !.state = "running"]
    /\ UNCHANGED <<desktop, autoApply, op, flight, stored, history, bounds>>

(* The backoff window passes, or the network route changes.                *)
BackoffEnds ==
    /\ Free /\ rt.backoff
    /\ rt' = TickSuccess(rt)
    /\ UNCHANGED <<desktop, autoApply, op, flight, stored, history, bounds>>

-----------------------------------------------------------------------------
(* What happens at the desktop, and past the app. *)

(* Somebody makes c the desktop's clipboard, or deletes what is there.     *)
DesktopCopy(c) ==
    /\ c # current
    /\ current' = c /\ held' = held \cup {c}
    /\ Act
    /\ UNCHANGED <<buffer, rotated, engine, history>>

DesktopEmpties ==
    /\ current # Empty
    /\ current' = Empty
    /\ Act
    /\ UNCHANGED <<held, buffer, rotated, engine, history>>

(* The Share Extension uploads c and notes its hash; it learns no          *)
(* contentId.                                                              *)
ShareExtension(c) ==
    /\ ~ rotated
    /\ current' = c /\ held' = held \cup {c}
    /\ stored' = [hash |-> c, id |-> NoContent]
    /\ got' = c /\ torn' = FALSE
    /\ Act
    /\ UNCHANGED <<buffer, rotated, rt, autoApply, op, flight, cut>>

(* The buffer is lost with the daemon's memory, or its entry is evicted.   *)
BufferLost ==
    /\ buffer # NoContent
    /\ buffer' = NoContent
    /\ Fault
    /\ UNCHANGED <<current, held, rotated, engine, history>>

RotatePassword ==
    /\ ~ rotated /\ rotated' = TRUE
    /\ Fault
    /\ UNCHANGED <<current, held, buffer, engine, history>>

(* The app ends; only the store survives.                                  *)
EngineCrash ==
    /\ rt' = Fresh /\ op' = Idle
    /\ flight' = [c \in Call |-> NoCall]
    /\ cut' = \/ cut \/ op.at = "save"
              \/ \E c \in Call : flight[c].give # NoContent
    /\ Fault
    /\ UNCHANGED <<desktop, autoApply, stored, got, torn>>

-----------------------------------------------------------------------------
(* Properties of the engine, checked in MobileApp. *)

(* The phone dedups by contentId alone once it knows one (is_already_synced*)
(* and the short cut of an update), so that it must never know one that    *)
(* the desktop has not given a content: neither a buffer miss, nor a lost  *)
(* answer, nor a crash between the two keys of the watermark may leave     *)
(* such a one.                                                             *)
IdentityIsHeld ==
    \A watermark \in {rt.synced, stored} :
        watermark.id # NoContent => watermark.id \in held

(* The engine offers the content for the banner of staged content.         *)
Offered == rt.staged = current
=============================================================================
