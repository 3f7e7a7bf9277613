--------------------------- MODULE SelfWriteLedger ---------------------------
(***************************************************************************)
(* How a device tells its own clipboard writes from the user's copies.     *)
(*                                                                         *)
(* Writers (restores, inbound frames) write the OS clipboard through one   *)
(* coordinator.  Each write arms a record of its content in the ledger,    *)
(* writes, and then arms a fallback that matches whatever change comes     *)
(* next, since the OS may re-encode what it was given.  The watcher reads  *)
(* the clipboard when the OS reports a change, drops repeated readings,    *)
(* and queues the others for a handler, which asks the ledger whose change *)
(* it was.  A change that is nobody's is captured and sent to the peers.   *)
(*                                                                         *)
(* Several writes may be under way at once; the coordinator holds no lock  *)
(* across its steps.  The watcher runs only once capture is allowed.       *)
(***************************************************************************)
EXTENDS Integers, FiniteSets, Sequences

CONSTANTS
    Writer,                 \* tasks that write the clipboard
    Content,                \* what the clipboard may hold, by guard key
    Writes,                 \* what writers write
    Copies,                 \* what the user copies
    Image,                  \* images: never reported twice in a row
    Recoded,                \* Recoded[k]: k as the OS may re-encode it
    Fingerprint,            \* Fingerprint[k]: by what the watcher compares k
    LocalEchoRttMax,        \* LOCAL_ECHO_RTT_MAX
    RemoteEchoRttMax,       \* REMOTE_ECHO_RTT_MAX
    RededupWindow,          \* MEANINGFUL_REDEDUP_WINDOW
    ContentRecordMax,       \* CONTENT_RECORD_MAX
    NextChangeMax,          \* NEXT_CHANGE_MAX
    ChannelMax,             \* capacity of the watcher's channel
    FailureThreshold,       \* CIRCUIT_FAILURE_THRESHOLD
    CircuitOpenDuration,    \* DEFAULT_CIRCUIT_OPEN_DURATION
    MaxTime,                \* bound: the clock stops here
    MaxWrites,              \* bound: writes begun
    MaxCopies               \* bound: copies of the user

ASSUME ContentAssumption ==
    /\ Writes \subseteq Content /\ Copies \subseteq Content
    /\ Recoded \in [Content -> Content]
    /\ Fingerprint \in [Content -> Content]
ASSUME LimitAssumption ==
    /\ LocalEchoRttMax \in Nat /\ RemoteEchoRttMax \in Nat
    /\ RededupWindow \in Nat
    /\ CircuitOpenDuration \in Nat \ {0}
    /\ ContentRecordMax \in Nat \ {0} /\ NextChangeMax \in Nat \ {0}
    /\ FailureThreshold \in Nat \ {0}
    /\ MaxTime \in Nat

VARIABLES
    now,            \* the monotonic clock
    content_records,\* the ledger's content records
    next_changes,   \* the ledger's next-change fallbacks
    armed,          \* records ever added: numbers them in order of arrival
    failures,       \* consecutive_failures
    open_until,     \* circuit_open_until; 0 when the circuit is closed
    writer,         \* writer[w]: the write that w is in
    os,             \* what the OS clipboard holds
    changed,        \* the OS has reported a change the watcher has not read
    last_meaningful,\* the reading the watcher last passed on, and when
    observed,       \* readings on their way to the handler
    verdict,        \* whose the handler found the last change to be
    begun,          \* history: writes begun
    claims,         \* history: how often each content was written or copied
    copied,         \* history: copies of the user
    taken,          \* history: copies of the user taken for echoes
    last_armed,     \* history: when a record of each kind was last armed
    clean,          \* history: every write got an echo of its own, in time
    repeated        \* history: the watcher dropped an echo as a repetition

ledgerVars == <<content_records, next_changes, armed, last_armed>>
circuitVars == <<failures, open_until>>
osVars == <<os, changed>>
watcherVars == <<last_meaningful, observed, verdict, taken, repeated>>
userVars == <<claims, copied>>
vars == <<now, ledgerVars, circuitVars, writer, begun, osVars, watcherVars,
          userVars, clean>>

Attribution == {"Local", "Remote"}
Budget == [Local |-> LocalEchoRttMax, Remote |-> RemoteEchoRttMax]

Record == [key : Content, attribution : Attribution, expires_at : Nat,
           seq : Nat]

(***************************************************************************)
(* What is on the clipboard: put there by a write, unchanged or re-encoded *)
(* from what was sent, or by the user, who is nobody's echo (origin        *)
(* "Capture").  The other fields serve properties: the number of that      *)
(* write or of the last one begun before the copy; when the record armed   *)
(* for it runs out; calm, new content copied with nothing under way; late, *)
(* a reading repeated after the watcher's window.                          *)
(***************************************************************************)
Put == [key : Content, sent : Content, write : Nat,
        origin : Attribution \cup {"Capture"}, due : Nat,
        calm : BOOLEAN, late : BOOLEAN]

Nothing == [key |-> "nothing"]

Stages == {"arm", "write", "unwind", "failed", "trip", "reset",
           "succeeded", "close", "fallback"}
Write == [stage : Stages, write : Nat, key : Content,
          attribution : Attribution, due : Nat]
Idle == [stage |-> "idle"]

TypeOK ==
    /\ now \in Nat
    /\ content_records \in SUBSET Record
    /\ next_changes \in SUBSET Record
    /\ armed \in Nat
    /\ failures \in Nat
    /\ open_until \in Nat
    /\ writer \in [Writer -> Write \cup {Idle}]
    /\ os \in Put \cup {Nothing}
    /\ changed \in BOOLEAN
    /\ last_meaningful \in [key : Content, at : Nat] \cup {Nothing}
    /\ observed \in Seq(Put)
    /\ verdict \in Attribution \cup {"Capture", "none"}
    /\ begun \in Nat
    /\ claims \in [Content -> Nat]
    /\ copied \in Nat
    /\ taken \in Nat
    /\ last_armed \in [Attribution -> Int]
    /\ clean \in BOOLEAN
    /\ repeated \in BOOLEAN

(***************************************************************************)
(* The ledger.                                                             *)
(***************************************************************************)
\* Defect: records are dropped from the front while they are expired.
LiveFromFront(records) ==
    {r \in records : \E s \in records : s.seq <= r.seq /\ now <= s.expires_at}

Live(records) == {r \in records : now <= r.expires_at}

Oldest(records) == CHOOSE r \in records : \A s \in records : r.seq <= s.seq

SameWrite(records, key, attribution) ==
    {r \in records : r.key = key /\ r.attribution = attribution}

\* Defect: the oldest record is never pushed out.
RememberAll(records, key, attribution, max) ==
    LET old == SameWrite(records, key, attribution)
    IN  (records \ old) \cup
            {[key |-> key, attribution |-> attribution,
              expires_at |-> now + Budget[attribution],
              seq |-> IF old = {} THEN armed + 1 ELSE Oldest(old).seq]}

(***************************************************************************)
(* Arming a record again extends the one that is there; a new one may push *)
(* out the oldest.                                                         *)
(***************************************************************************)
Remember(records, key, attribution, max) ==
    LET expires_at == now + Budget[attribution]
        old == SameWrite(records, key, attribution)
        seq == IF old = {} THEN armed + 1 ELSE Oldest(old).seq
        all == (records \ old) \cup
                   {[key |-> key, attribution |-> attribution,
                     expires_at |-> expires_at, seq |-> seq]}
    IN  IF Cardinality(all) > max THEN all \ {Oldest(all)} ELSE all

Arming(records, key, attribution) ==
    /\ armed' = IF SameWrite(Live(records), key, attribution) = {}
                THEN armed + 1 ELSE armed
    /\ last_armed' = [last_armed EXCEPT ![attribution] = now]

RecordByContent(key, attribution) ==
    /\ content_records' = Remember(Live(content_records), key, attribution,
                                   ContentRecordMax)
    /\ next_changes' = Live(next_changes)
    /\ Arming(content_records, key, attribution)

RecordByNextChange(key, attribution) ==
    /\ next_changes' = Remember(Live(next_changes), key, attribution,
                                NextChangeMax)
    /\ content_records' = Live(content_records)
    /\ Arming(next_changes, key, attribution)

(***************************************************************************)
(* Whose is a change to key?  A content record of that key comes first and *)
(* takes the fallback of its write with it; then the oldest fallback,      *)
(* whatever its key.                                                       *)
(***************************************************************************)
ContentMatch(key) == {r \in Live(content_records) : r.key = key}

\* Defect: fallbacks come first.
OriginFallbackFirst(key) ==
    IF Live(next_changes) # {} THEN Oldest(Live(next_changes)).attribution
    ELSE IF ContentMatch(key) # {} THEN Oldest(ContentMatch(key)).attribution
    ELSE "Capture"

Origin(key) ==
    IF ContentMatch(key) # {} THEN Oldest(ContentMatch(key)).attribution
    ELSE IF Live(next_changes) # {} THEN Oldest(Live(next_changes)).attribution
    ELSE "Capture"

(***************************************************************************)
(* attribute_observed_change: the records that answered are spent.         *)
(***************************************************************************)
ConsumeWith(key, contentMatched, fallbacksSpent) ==
    /\ content_records' = Live(content_records) \ contentMatched
    /\ next_changes' = Live(next_changes) \ fallbacksSpent
    /\ UNCHANGED <<armed, last_armed>>

Front(records) == IF records = {} THEN {} ELSE {Oldest(records)}

\* Defect: a fallback that matched stays.
ConsumeContentOnly(key) ==
    ConsumeWith(key, Front(ContentMatch(key)),
                IF ContentMatch(key) # {}
                THEN SameWrite(next_changes, key, Origin(key)) ELSE {})

\* Defect: a content match leaves the fallback of its write armed.
ConsumeUnpaired(key) ==
    ConsumeWith(key, Front(ContentMatch(key)),
                IF ContentMatch(key) # {} THEN {} ELSE Front(Live(next_changes)))

Consume(key) ==
    ConsumeWith(key, Front(ContentMatch(key)),
                IF ContentMatch(key) # {}
                THEN SameWrite(next_changes, key, Origin(key))
                ELSE Front(Live(next_changes)))

-----------------------------------------------------------------------------
Init ==
    /\ now = 0
    /\ content_records = {}
    /\ next_changes = {}
    /\ armed = 0
    /\ failures = 0
    /\ open_until = 0
    /\ writer = [w \in Writer |-> Idle]
    /\ os = Nothing
    /\ changed = FALSE
    /\ last_meaningful = Nothing
    /\ observed = <<>>
    /\ verdict = "none"
    /\ begun = 0
    /\ claims = [k \in Content |-> 0]
    /\ copied = 0
    /\ taken = 0
    /\ last_armed = [a \in Attribution |-> -Budget[a] - 1]
    /\ clean = TRUE
    /\ repeated = FALSE

Tick ==
    /\ now < MaxTime
    /\ now' = now + 1
    /\ UNCHANGED <<ledgerVars, circuitVars, writer, begun, osVars, watcherVars,
                   userVars, clean>>

(***************************************************************************)
(* The coordinator.  A write goes through these steps; any number of them, *)
(* of any writers, may interleave.                                         *)
(***************************************************************************)
At(w, stage) == writer[w].stage = stage

Goto(w, stage) ==
    writer' = [writer EXCEPT ![w] = IF stage = "idle" THEN Idle
                                    ELSE [@ EXCEPT !.stage = stage]]

NothingUnderWay == \A w \in Writer : At(w, "idle")

(***************************************************************************)
(* circuit_check: an open circuit rejects the write, and closes when its   *)
(* time is over.                                                           *)
(***************************************************************************)
BeginWrite(w) ==
    /\ At(w, "idle")
    /\ begun < MaxWrites
    /\ now >= open_until
    /\ open_until' = 0
    /\ begun' = begun + 1
    /\ \E key \in Writes, attribution \in Attribution :
          /\ writer' = [writer EXCEPT ![w] =
                           [stage |-> "arm", write |-> begun', key |-> key,
                            attribution |-> attribution, due |-> now]]
          /\ claims' = [claims EXCEPT ![key] = @ + 1]
    /\ clean' = (clean /\ NothingUnderWay)
    /\ UNCHANGED <<now, ledgerVars, failures, osVars, watcherVars, copied>>

ArmContent(w) ==
    /\ At(w, "arm")
    /\ RecordByContent(writer[w].key, writer[w].attribution)
    /\ writer' = [writer EXCEPT ![w].stage = "write",
                                ![w].due = now + Budget[writer[w].attribution]]
    /\ UNCHANGED <<now, circuitVars, begun, osVars, watcherVars, userVars, clean>>

(***************************************************************************)
(* write_snapshot: the OS may re-encode, and need not report a write of    *)
(* what it already holds.                                                  *)
(***************************************************************************)
OsWrite(w) ==
    /\ At(w, "write")
    /\ \E key \in {writer[w].key, Recoded[writer[w].key]} :
          /\ os' = [key |-> key, sent |-> writer[w].key,
                    write |-> writer[w].write,
                    origin |-> writer[w].attribution, due |-> writer[w].due,
                    calm |-> FALSE, late |-> FALSE]
          /\ changed' \in IF os.key = key THEN {changed, TRUE} ELSE {TRUE}
          /\ claims' = IF key = writer[w].key THEN claims
                       ELSE [claims EXCEPT ![key] = @ + 1]
    /\ clean' = (clean /\ ~changed /\ changed')
    /\ Goto(w, "succeeded")
    /\ UNCHANGED <<now, ledgerVars, circuitVars, begun, watcherVars, copied>>

OsWriteFails(w) ==
    /\ At(w, "write")
    /\ Goto(w, "unwind")
    /\ clean' = FALSE
    /\ UNCHANGED <<now, ledgerVars, circuitVars, begun, osVars, watcherVars,
                   userVars>>

(***************************************************************************)
(* A failed write gives its record back by attributing its own key, which  *)
(* spends whatever record answers.                                         *)
(***************************************************************************)
Unwind(w) ==
    /\ At(w, "unwind")
    /\ Consume(writer[w].key)
    /\ Goto(w, "failed")
    /\ UNCHANGED <<now, circuitVars, begun, osVars, watcherVars, userVars, clean>>

(***************************************************************************)
(* record_failure: the counter, the deadline and the reset are three       *)
(* steps on two cells.                                                     *)
(***************************************************************************)
CountFailure(w) ==
    /\ At(w, "failed")
    /\ failures' = failures + 1
    /\ Goto(w, IF failures' >= FailureThreshold THEN "trip" ELSE "idle")
    /\ UNCHANGED <<now, ledgerVars, open_until, begun, osVars, watcherVars,
                   userVars, clean>>

TripCircuit(w) ==
    /\ At(w, "trip")
    /\ open_until' = now + CircuitOpenDuration
    /\ Goto(w, "reset")
    /\ UNCHANGED <<now, ledgerVars, failures, begun, osVars, watcherVars,
                   userVars, clean>>

\* Defect: the counter is left where it tripped the circuit.
KeepFailures(w) ==
    /\ At(w, "reset")
    /\ Goto(w, "idle")
    /\ UNCHANGED <<now, ledgerVars, circuitVars, begun, osVars, watcherVars,
                   userVars, clean>>

ResetFailures(w) ==
    /\ At(w, "reset")
    /\ failures' = 0
    /\ Goto(w, "idle")
    /\ UNCHANGED <<now, ledgerVars, open_until, begun, osVars, watcherVars,
                   userVars, clean>>

(***************************************************************************)
(* record_success: clear the counter and, if it was not zero, the circuit. *)
(***************************************************************************)
\* Defect: a success takes one failure back.
CountSuccessDown(w) ==
    /\ At(w, "succeeded")
    /\ failures' = failures - 1
    /\ Goto(w, IF failures > 0 THEN "close" ELSE "fallback")
    /\ UNCHANGED <<now, ledgerVars, open_until, begun, osVars, watcherVars,
                   userVars, clean>>

CountSuccess(w) ==
    /\ At(w, "succeeded")
    /\ failures' = 0
    /\ Goto(w, IF failures > 0 THEN "close" ELSE "fallback")
    /\ UNCHANGED <<now, ledgerVars, open_until, begun, osVars, watcherVars,
                   userVars, clean>>

CloseCircuit(w) ==
    /\ At(w, "close")
    /\ open_until' = 0
    /\ Goto(w, "fallback")
    /\ UNCHANGED <<now, ledgerVars, failures, begun, osVars, watcherVars,
                   userVars, clean>>

ArmFallback(w) ==
    /\ At(w, "fallback")
    /\ RecordByNextChange(writer[w].key, writer[w].attribution)
    /\ Goto(w, "idle")
    /\ UNCHANGED <<now, circuitVars, begun, osVars, watcherVars, userVars, clean>>

(***************************************************************************)
(* The user and the clipboard around the program.                          *)
(***************************************************************************)
UserCopy ==
    /\ copied < MaxCopies
    /\ copied' = copied + 1
    /\ \E key \in Copies :
          /\ os' = [key |-> key, sent |-> key, write |-> begun,
                    origin |-> "Capture", due |-> now, late |-> FALSE,
                    calm |-> /\ clean /\ NothingUnderWay
                             /\ ~changed /\ observed = <<>>
                             /\ claims[key] = 0]
          /\ claims' = [claims EXCEPT ![key] = @ + 1]
    /\ changed' = TRUE
    /\ clean' = (clean /\ ~changed)
    /\ UNCHANGED <<now, ledgerVars, circuitVars, writer, begun, watcherVars>>

(***************************************************************************)
(* The OS reports a change again: the owner of the selection asserted it   *)
(* anew, or an application added metadata.                                 *)
(***************************************************************************)
Renotify ==
    /\ os # Nothing /\ ~changed
    /\ changed' = TRUE
    /\ UNCHANGED <<now, ledgerVars, circuitVars, writer, begun, os, watcherVars,
                   userVars, clean>>

(***************************************************************************)
(* The watcher: an image is never passed on twice in a row, other content  *)
(* not within the window.                                                  *)
(***************************************************************************)
SameAsLast == /\ last_meaningful # Nothing
              /\ last_meaningful.key = Fingerprint[os.key]

Repeated == /\ SameAsLast
            /\ \/ os.key \in Image
               \/ now - last_meaningful.at < RededupWindow

PassOn ==
    /\ changed /\ ~Repeated
    /\ Len(observed) < ChannelMax
    /\ observed' = Append(observed, [os EXCEPT !.late = SameAsLast
                      /\ now - last_meaningful.at >= RededupWindow])
    /\ last_meaningful' = [key |-> Fingerprint[os.key], at |-> now]
    /\ changed' = FALSE
    /\ UNCHANGED <<now, ledgerVars, circuitVars, writer, begun, os, verdict,
                   taken, repeated, userVars, clean>>

DropRepeated ==
    /\ changed /\ Repeated
    /\ changed' = FALSE
    /\ repeated' = TRUE
    /\ UNCHANGED <<now, ledgerVars, circuitVars, writer, begun, os,
                   last_meaningful, observed, verdict, taken, userVars, clean>>

(***************************************************************************)
(* A reading is lost: the clipboard cannot be read, the channel is full,   *)
(* or a guard against storms of images or file events holds it back.       *)
(***************************************************************************)
MissChange ==
    /\ changed
    /\ changed' = FALSE
    /\ clean' = FALSE
    /\ UNCHANGED <<now, ledgerVars, circuitVars, writer, begun, os, watcherVars,
                   userVars>>

(***************************************************************************)
(* on_clipboard_changed: one change at a time, in order.  What is found to *)
(* be an echo goes no further.                                             *)
(***************************************************************************)
InTime(reading) ==
    reading.origin = "Capture"
        \/ \A w \in Writer : At(w, "idle") \/ writer[w].write # reading.write

HandleChange ==
    /\ observed # <<>>
    /\ LET reading == Head(observed) IN
          /\ verdict' = Origin(reading.key)
          /\ Consume(reading.key)
          /\ taken' = IF reading.origin = "Capture" /\ verdict' # "Capture"
                      THEN taken + 1 ELSE taken
          /\ clean' = (clean /\ InTime(reading))
    /\ observed' = Tail(observed)
    /\ UNCHANGED <<now, circuitVars, writer, begun, osVars, last_meaningful,
                   repeated, userVars>>

-----------------------------------------------------------------------------
Next ==
    \/ Tick
    \/ \E w \in Writer :
          \/ BeginWrite(w) \/ ArmContent(w) \/ OsWrite(w) \/ OsWriteFails(w)
          \/ Unwind(w) \/ CountFailure(w) \/ TripCircuit(w) \/ ResetFailures(w)
          \/ CountSuccess(w) \/ CloseCircuit(w) \/ ArmFallback(w)
    \/ UserCopy \/ Renotify
    \/ PassOn \/ DropRepeated \/ MissChange \/ HandleChange

Spec == Init /\ [][Next]_vars

-----------------------------------------------------------------------------
(***************************************************************************)
(* Both lists keep within their caps, and one write has one record in      *)
(* each however often it is armed (change_origin.rs:95-111, 150-164).      *)
(***************************************************************************)
OnePerWrite(records) ==
    \A r, s \in records :
        r.key = s.key /\ r.attribution = s.attribution => r = s

LedgerBounded ==
    /\ Cardinality(content_records) <= ContentRecordMax
    /\ Cardinality(next_changes) <= NextChangeMax
    /\ OnePerWrite(content_records) /\ OnePerWrite(next_changes)

(***************************************************************************)
(* An armed record answers for one change at most: copies taken from the   *)
(* user and records still waiting are never more than the records armed    *)
(* (attribute_observed_change, change_origin.rs:170-218).                  *)
(***************************************************************************)
EachRecordAnswersOnce ==
    taken + Cardinality(content_records) + Cardinality(next_changes) <= armed

(***************************************************************************)
(* Writers that fail at once may all trip the circuit, but when none is    *)
(* under way the failures are below the threshold: a trip spends them, and *)
(* the next window starts clean (coordinator.rs:163-179).                  *)
(***************************************************************************)
BreakerSettles == NothingUnderWay => failures < FailureThreshold

Handled == Len(observed') < Len(observed)

CalmCopy(reading) == reading.calm /\ reading.write = begun

(***************************************************************************)
(* A write that comes back unchanged and in time is found to be that       *)
(* write's, whatever other writes, failures and copies interleave with it  *)
(* and whether the fallback was armed by then or not: the content record   *)
(* is armed before the OS is written (coordinator.rs:271-292).  Not when   *)
(* the same content was also written or copied by another, or more writes  *)
(* were begun than the ledger holds, or the watcher's window is over.      *)
(***************************************************************************)
EchoAttributed ==
    [][LET reading == Head(observed) IN
       Handled /\ reading.origin # "Capture" /\ reading.sent = reading.key
         /\ ~reading.late /\ now <= reading.due /\ claims[reading.key] = 1
         /\ begun <= ContentRecordMax
       => verdict' = reading.origin]_vars

(***************************************************************************)
(* A change is taken for an echo only within the time of that kind of      *)
(* write: short for local, long for remote, although records of both kinds *)
(* wait in one list (prune_expired, change_origin.rs:81-87).               *)
(***************************************************************************)
OnlyLiveRecordsAnswer ==
    [][Handled /\ verdict' # "Capture" =>
           now <= last_armed[verdict'] + Budget[verdict']]_vars

(***************************************************************************)
(* New content that the user copies with nothing under way is captured.    *)
(* Nothing is under way when all writes came one after the other, each     *)
(* succeeded, and its echo was read, and handled after the write returned. *)
(* A record left behind would swallow the copy (change_origin.rs:180-191). *)
(***************************************************************************)
UndisturbedCopyCaptured ==
    [][Handled /\ CalmCopy(Head(observed)) /\ ~repeated => verdict' = "Capture"]_vars
=============================================================================
