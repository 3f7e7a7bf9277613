----------------------------- MODULE MobileApp ------------------------------
(***************************************************************************)
(* The phone's application around its engine (apps/mobile/src): the        *)
(* monitor of the pasteboard, the register of what was last activated here *)
(* (ActivateClipboardService.ts), and the coordinator that calls push and  *)
(* pull and acts on what they answer (SyncEngine.ts, syncEngineStore.ts).  *)
(*                                                                         *)
(* One thread runs all of it and changes hands at every await; a push, a   *)
(* pull, a refresh (the user's own pull, past runPull) and a tap on the    *)
(* banner may be under way at a time, one of each.  The app is in the      *)
(* foreground, automatic upload is on, there is one address, and what is   *)
(* attached is an image: the pasteboard takes no other file.               *)
(***************************************************************************)
EXTENDS MobileSync

VARIABLES
    sys,        \* the pasteboard
    seen,       \* lastContent of the monitor
    emitted,    \* a change on its way through the debounce
    paused,     \* the monitor is paused
    register,   \* activate_clipboard: what is to be uploaded
    wanted,     \* runPush was called since the last push began
    shown,      \* the state the user sees, as far as it stops anything
    ticking,    \* the timer of the routine tick is running, or its tick
    unwritten   \* history: content that could not be written

app == <<sys, seen, emitted, paused, register, wanted, shown, ticking, unwritten>>
vars == <<syncVars, app>>

TypeOK ==
    /\ SyncTypeOK
    /\ sys \in Optional /\ seen \in Optional /\ emitted \in Optional
    /\ paused \in BOOLEAN /\ register \in Optional /\ wanted \in BOOLEAN
    /\ shown \in {"running", "authFailed", "loopDetected"}
    /\ ticking \in BOOLEAN /\ unwritten \in Optional

Init ==
    /\ SyncInit
    /\ sys = NoContent /\ seen = NoContent /\ emitted = NoContent
    /\ paused = FALSE /\ register = NoContent /\ wanted = FALSE
    /\ shown = "running" /\ ticking = TRUE /\ unwritten = NoContent

Quiet(c) == flight[c].at = "none"

-----------------------------------------------------------------------------
(* What is copied on the phone. *)

PhoneCopy(c) ==
    /\ c # sys
    /\ sys' = c
    /\ Act
    /\ UNCHANGED <<desktop, engine, history, seen, emitted, paused, register,
                   wanted, shown, ticking, unwritten>>

(* checkClipboard, or the event of a change; a pause makes it miss some.   *)
Observe ==
    /\ ~ paused /\ sys # NoContent /\ sys # seen
    /\ seen' = sys /\ emitted' = sys
    /\ UNCHANGED <<syncVars, sys, paused, register, wanted, shown, ticking, unwritten>>

(* notifyLocalChanged, after writeActivate.                                *)
Activate(c) ==
    /\ register' = c
    /\ wanted' = (wanted \/ shown = "running")

(* The callbacks of the monitor.  One of them activates the content as the *)
(* user's own (clipboardStore.ts), which no echo guard stops.              *)
Emit ==
    /\ emitted # NoContent
    /\ emitted' = NoContent
    /\ Activate(emitted)
    /\ UNCHANGED <<syncVars, sys, seen, paused, shown, ticking, unwritten>>

(* copyToLocalClipboard and notifyDeviceClipboardChanged: the user takes   *)
(* an item of the history.                                                 *)
UseItem(c) ==
    /\ sys' = c /\ seen' = c /\ paused' = FALSE
    /\ Activate(c)
    /\ Act
    /\ UNCHANGED <<desktop, engine, history, emitted, shown, ticking, unwritten>>

-----------------------------------------------------------------------------
(* Calls of the engine, each with what the register says at the time. *)

Calls(c, routine, device) ==
    /\ Quiet(c)
    /\ flight' = [flight EXCEPT ![c] = [NoCall EXCEPT !.at = "called",
                                           !.routine = routine, !.device = device]]
    /\ UNCHANGED <<desktop, rt, autoApply, op, stored, history>>

(* pushLocal; further calls of runPush run it once more.                   *)
StartPush ==
    /\ Quiet("push") /\ wanted
    /\ wanted' = FALSE
    /\ IF register = NoContent THEN UNCHANGED syncVars
       ELSE Calls("push", FALSE, register) /\ UNCHANGED bounds
    /\ UNCHANGED <<sys, seen, emitted, paused, register, shown, ticking, unwritten>>

(* pullServer, from the timer or for a reason.                             *)
StartTick ==
    /\ ticking
    /\ Calls("pull", TRUE, register)
    /\ UNCHANGED <<bounds, app>>

StartPull ==
    /\ Calls("pull", FALSE, register)
    /\ UNCHANGED <<bounds, app>>

(* explicitRefresh, which does not ask whether a pull is in flight.        *)
StartRefresh ==
    /\ Calls("refresh", FALSE, register)
    /\ Act
    /\ UNCHANGED app

(* applyStagedEntry *)
StartApply ==
    /\ rt.staged # NoContent
    /\ Calls("apply", FALSE, NoContent)
    /\ Act
    /\ UNCHANGED app

-----------------------------------------------------------------------------
(* applyOutcome: what becomes of the engine's answer. *)

ShownAfter(end) ==
    CASE end = "loop" -> "loopDetected"
      [] end = "auth" -> "authFailed"
      [] end = "ok" -> "running"
      [] OTHER -> shown

(* A pause stops the timer.  The tick itself sets it again, unless the     *)
(* user sees a pause by then.                                              *)
Finish(c, end) ==
    /\ flight' = [flight EXCEPT ![c] = NoCall]
    /\ shown' = ShownAfter(end)
    /\ ticking' = IF flight[c].routine THEN shown' = "running"
                  ELSE ticking /\ end \notin {"loop", "auth"}
    /\ UNCHANGED <<desktop, rt, autoApply, op, stored, got, torn>>

Settle(c) ==
    /\ flight[c].at = "ended" /\ flight[c].give = NoContent
    /\ Finish(c, flight[c].end)
    /\ UNCHANGED <<cut, bounds, sys, seen, emitted, paused, register, wanted, unwritten>>

(* applyToDevice, up to the pasteboard.                                    *)
Write(c) ==
    /\ flight[c].at = "ended" /\ flight[c].give # NoContent
    /\ paused' = TRUE
    /\ sys' = flight[c].give
    /\ flight' = [flight EXCEPT ![c].at = "written"]
    /\ unwritten' = IF unwritten = flight[c].give THEN NoContent ELSE unwritten
    /\ UNCHANGED <<desktop, rt, autoApply, op, stored, history, bounds, seen,
                   emitted, register, wanted, shown, ticking>>

(* Writing fails.  An image that cannot be set is only logged, and the     *)
(* register is cleared; after anything else onSyncSuccess follows.         *)
WriteFails(c) ==
    /\ flight[c].at = "ended" /\ flight[c].give # NoContent
    /\ Fault
    /\ paused' = FALSE /\ cut' = TRUE
    /\ \/ unwritten' = flight[c].give /\ UNCHANGED register
       \/ flight[c].give \in Attached /\ register' = NoContent /\ UNCHANGED unwritten
    /\ Finish(c, "ok")
    /\ UNCHANGED <<sys, seen, emitted, wanted>>

(* setLastContent, so that the monitor does not take it for a copy.        *)
Note(c) ==
    /\ flight[c].at = "written"
    /\ seen' = flight[c].give
    /\ flight' = [flight EXCEPT ![c].at = "noted"]
    /\ UNCHANGED <<desktop, rt, autoApply, op, stored, history, bounds, sys,
                   emitted, paused, register, wanted, shown, ticking, unwritten>>

(* clearActivate and resumePolling: what came from the desktop is not to   *)
(* be uploaded.                                                            *)
Clear(c) ==
    /\ flight[c].at = "noted"
    /\ register' = NoContent /\ paused' = FALSE
    /\ Finish(c, "ok")
    /\ UNCHANGED <<cut, bounds, sys, seen, emitted, wanted, unwritten>>

Step(c) == Settle(c) \/ Write(c) \/ Note(c) \/ Clear(c)

-----------------------------------------------------------------------------
(* What else the app goes through. *)

(* start, and what follows an acknowledgement and a change of the server.  *)
Restarts ==
    /\ shown' = "running" /\ ticking' = TRUE /\ wanted' = TRUE
    /\ UNCHANGED <<sys, seen, emitted, paused, register, unwritten>>

(* The app comes to the foreground.                                        *)
Reopen ==
    /\ shown # "loopDetected"
    /\ Restarts
    /\ Act
    /\ UNCHANGED <<desktop, engine, history>>

(* handleNetworkChanged starts nothing that has stopped; the engine may    *)
(* forget its backoff.                                                     *)
NetworkChanged ==
    /\ wanted' = TRUE
    /\ Act
    /\ UNCHANGED <<desktop, engine, history, sys, seen, emitted, paused, register,
                   shown, ticking, unwritten>>

(* An answer is acted on before that of a call which got the mutex later.  *)
Delivered == \A c \in Call : flight[c].at = "ended" => flight[c].give # NoContent

ServerChanged == Delivered /\ SetServer /\ Restarts

AcknowledgeLoop ==
    /\ shown = "loopDetected" /\ Delivered
    /\ Acknowledge /\ Restarts

(* The app ends and is opened again: what is on the pasteboard then counts *)
(* as activated.                                                           *)
Crash ==
    /\ EngineCrash
    /\ register' = IF sys # NoContent THEN sys ELSE register
    /\ emitted' = NoContent /\ paused' = FALSE
    /\ wanted' = TRUE /\ shown' = "running" /\ ticking' = TRUE
    /\ UNCHANGED <<sys, seen, unwritten>>

Elsewhere ==
    \/ SetSettings \/ BackoffEnds \/ DesktopEmpties \/ BufferLost \/ RotatePassword
    \/ \E c \in Content : DesktopCopy(c) \/ ShareExtension(c)

Next ==
    \/ Observe \/ Emit
    \/ StartPush \/ StartTick \/ StartPull \/ StartRefresh \/ StartApply
    \/ \E c \in Content : PhoneCopy(c) \/ UseItem(c)
    \/ \E c \in Call : EnterTick(c) /\ UNCHANGED app
    \/ (EnterApply \/ Request \/ Elsewhere) /\ UNCHANGED app
    \/ \E c \in Call : Step(c) \/ WriteFails(c)
    \/ Reopen \/ NetworkChanged \/ ServerChanged \/ AcknowledgeLoop \/ Crash

Spec == Init /\ [][Next]_vars

(* Requests end, the thread comes to every step that is due, the mutex is  *)
(* a queue, and the timer goes off although other pulls come between.      *)
Fairness ==
    /\ WF_vars(Request /\ UNCHANGED app)
    /\ WF_vars(BackoffEnds /\ UNCHANGED app)
    /\ \A c \in Call : WF_vars(Step(c))
    /\ \A c \in {"push", "pull"} : SF_vars(EnterTick(c) /\ UNCHANGED app)
    /\ SF_vars(EnterApply /\ UNCHANGED app)
    /\ SF_vars(StartTick)

FairSpec == Spec /\ Fairness

-----------------------------------------------------------------------------
(* Properties. *)

(* The types, and what plan_after_server_get relies on: by a contentId the *)
(* phone knows only content that the desktop has (IdentityIsHeld).         *)
SyncInv == TypeOK /\ IdentityIsHeld

(* In the end the phone has not missed what the desktop shows: the two     *)
(* last exchanged it, or it is offered, or the app has paused its ticks,   *)
(* through lost answers, failing downloads, re-copies of what was there    *)
(* before, uploads that never happened and calls that end out of order.    *)
(* Excepted are hand-overs that the loop guard, a crash or a failing write *)
(* has cut short (cut), and one more: where the Share Extension wrote its  *)
(* watermark between the two keys of the engine's, the phone takes the     *)
(* engine's content for synced by the one key, and the Share Extension's,  *)
(* once that is on the pasteboard again, by the other; if the desktop goes *)
(* back to the former, neither of them moves (torn).                       *)
NothingIsMissed ==
    <>[] \/ current \in {Empty, got, sys}
         \/ Offered \/ cut \/ ~ ticking
         \/ torn /\ sys = stored.hash

(* Content that could not be written is written by a later pull            *)
(* (applyAppliedOutcome), as long as the desktop shows it.                 *)
FailedWriteIsRetried ==
    \A c \in Content :
        unwritten = c ~> \/ unwritten # c \/ current # c
                         \/ shown # "running" \/ ~ autoApply
=============================================================================
