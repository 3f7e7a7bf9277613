---------------------------- MODULE HistoryIntake ----------------------------
(***************************************************************************)
(* How content enters and leaves the clipboard history: local captures     *)
(* (clipboard_capture), received frames (apply_inbound) and deletions,     *)
(* all over the PayloadStore.  Content is known by its snapshot hash; a    *)
(* writer of a hash holds the lock of the EntryIdentityCoordinator from    *)
(* the look-up until the entry is committed.                               *)
(*                                                                         *)
(* A capture names the event and the one large representation it makes,    *)
(* and the entry it creates.  What follows the commit (the register, the   *)
(* search index, the OS write of fresh content) is ActiveClipboard's.      *)
(***************************************************************************)
EXTENDS PayloadStore

CONSTANT Content   \* snapshot hashes

Capture == Rep
NoEntry == NoRep

VARIABLES
    entry,     \* entry[e]: the event behind entry e, NoEntry when there is none
    job,       \* job[c]: where capture c is, and for what content
    deletion,  \* where the deletion of an entry is
    misled,    \* history: contents whose look-up missed their entry
    swept      \* history: captures a start's sweep took something from

intakeVars == <<entry, job, deletion, misled, swept>>
vars == <<storeVars, intakeVars>>

Steps == {"idle", "lock", "lookup", "touch", "held", "resurface", "fetch",
          "insert", "cache", "spool", "save", "applied", "done"}

Idle == [at |-> "idle", origin |-> "local", content |-> "none",
         target |-> NoEntry, whole |-> TRUE]
NoDeletion == [at |-> "idle", entry |-> NoEntry, event |-> NoRep]

Live(e) == e \in Capture /\ entry[e] # NoEntry
LiveEntries == {e \in Capture : Live(e)}
ContentOf(e) == job[entry[e]].content
EntriesOf(h) == {e \in LiveEntries : ContentOf(e) = h}
EventsOf(h) == {v \in Capture : row[v].state # "Absent" /\ job[v].content = h}
EntryOfEvent(v) == {e \in LiveEntries : entry[e] = v}

\* reps_indicate_available: what is pending counts, what is missing does not.
Available(e) ==
    Live(e) /\ row[entry[e]].state \notin {"Absent", "Placeholder", "Failed", "Lost"}

\* A frame with this content was applied since the start; whether it still is
\* within the rapid-duplicate window, only time tells.
RecentlyApplied(h) == \E c \in Capture : job[c].at = "applied" /\ job[c].content = h

At(c, at) == job[c].at = at
Go(c, at) == job' = [job EXCEPT ![c].at = at]
Ended == {"applied", "done"}
Locked(c) == job[c].at \notin {"idle", "lock"} \cup Ended
Busy == \E c \in Capture : Locked(c)

Init ==
    /\ StoreInit
    /\ entry = [e \in Capture |-> NoEntry]
    /\ job = [c \in Capture |-> Idle]
    /\ deletion = NoDeletion
    /\ misled = {} /\ swept = {}

jobRest == <<entry, deletion, misled, swept>>
storeRest == <<old, worker, janitor, reader, life>>
onlyJob == <<storeVars, jobRest>>

-----------------------------------------------------------------------------
(* A writer of content h, at any time: the sweeps of a start run in a task *)
(* of their own, and no capture and no frame waits for them.               *)

Copy(c, h, origin) ==
    /\ At(c, "idle")
    /\ job' = [job EXCEPT ![c] = [Idle EXCEPT !.at = "lock", !.content = h,
                                              !.origin = origin]]
    /\ UNCHANGED onlyJob

\* Defect: the lock does not exclude.
LockAnyway(c) ==
    /\ At(c, "lock")
    /\ Go(c, "lookup")
    /\ UNCHANGED onlyJob

\* A local capture locks in execute_with_origin, a frame in apply_inbound.
Lock(c) ==
    /\ At(c, "lock")
    /\ \A d \in Capture : Locked(d) => job[d].content # job[c].content
    /\ Go(c, "lookup")
    /\ UNCHANGED onlyJob

\* find_entry_id_by_snapshot_hash takes one event with the hash, whichever
\* comes first, and then the entry of that event.
LookupFinds(c) ==
    /\ At(c, "lookup")
    /\ \E v \in EventsOf(job[c].content) : \E e \in EntryOfEvent(v) :
          job' = [job EXCEPT ![c].target = e,
                             ![c].at = IF job[c].origin = "local"
                                       THEN "touch" ELSE "held"]
    /\ UNCHANGED onlyJob

NotFound(c) == Go(c, IF job[c].origin = "local" THEN "insert" ELSE "fetch")

LookupMisses(c) ==
    /\ At(c, "lookup") /\ EventsOf(job[c].content) = {}
    /\ NotFound(c)
    /\ UNCHANGED onlyJob

\* The look-up of c does not see the entry of its content, if there is one.
Misses(c) ==
    misled' = IF EntriesOf(job[c].content) = {} THEN misled
              ELSE misled \cup {job[c].content}

\* The event is a stray: a capture or a deletion left it without an entry.
LookupStrays(c) ==
    /\ At(c, "lookup")
    /\ \E v \in EventsOf(job[c].content) : EntryOfEvent(v) = {}
    /\ Misses(c)
    /\ NotFound(c)
    /\ UNCHANGED <<storeVars, entry, deletion, swept>>

\* A failed look-up ends a frame; a local capture goes on as if it were new.
LookupFails(c) ==
    /\ At(c, "lookup") /\ Fault
    /\ IF job[c].origin = "local"
       THEN Go(c, "insert") /\ Misses(c)
       ELSE Go(c, "done") /\ UNCHANGED misled
    /\ UNCHANGED <<row, queue, filesVars, storeRest, todo, entry, deletion, swept>>

\* Local: the entry moves to the top of the history, whatever it holds.
Touch(c) ==
    /\ At(c, "touch")
    /\ Go(c, IF Live(job[c].target) THEN "done" ELSE "insert")
    /\ UNCHANGED onlyJob

TouchFails(c) ==
    /\ At(c, "touch") /\ Fault
    /\ Go(c, "insert")
    /\ Misses(c)
    /\ UNCHANGED <<row, queue, filesVars, storeRest, todo, entry, deletion, swept>>

\* Defect: what the worker has yet to turn into a blob counts as missing.
CheckStored(c) ==
    /\ At(c, "held")
    /\ Go(c, IF Live(job[c].target) /\ row[entry[job[c].target]].state = "BlobReady"
             THEN "resurface" ELSE "fetch")
    /\ UNCHANGED onlyJob

\* Received: is the entry fully held?  An error counts as yes.
CheckHeld(c) ==
    /\ At(c, "held")
    /\ \/ /\ ~Available(job[c].target)
          /\ Go(c, "fetch")
          /\ UNCHANGED faults
       \/ /\ (Available(job[c].target) /\ UNCHANGED faults) \/ Fault
          /\ Go(c, "resurface")
    /\ UNCHANGED <<row, queue, filesVars, storeRest, todo, jobRest>>

\* A frame for content that a frame has only just brought ends here.
RapidDuplicate(c) ==
    /\ RecentlyApplied(job[c].content)
    /\ At(c, "resurface") \/ (At(c, "fetch") /\ job[c].target = NoEntry)
    /\ Go(c, "done")
    /\ UNCHANGED onlyJob

\* resurface_held_entry: rebuild the entry from the store and write it to the
\* OS clipboard, which may fail.  The bytes of the frame are not looked at.
Resurface(c) ==
    LET r == entry[job[c].target]
    IN  /\ At(c, "resurface") /\ Live(job[c].target)
        /\ row[r].state = "BlobReady" \/ HasBytes(r)
        /\ Go(c, "applied") \/ Go(c, "done")
        /\ IF row[r].state \in Pending \cup {"Failed"}
           THEN Notify(r) ELSE UNCHANGED queue
        /\ UNCHANGED <<row, filesVars, storeRest, todo, faults, jobRest>>

\* Nothing to rebuild it from: a pending row is given up.
ResurfaceFails(c) ==
    LET r == entry[job[c].target]
        gone == Live(job[c].target) /\ row[r].state # "BlobReady" /\ ~HasBytes(r)
    IN  /\ At(c, "resurface")
        /\ gone \/ ~Live(job[c].target)
        /\ Go(c, "done")
        /\ IF gone THEN Swap(r, Pending \cup {"Failed"}, "Lost") ELSE UNCHANGED row
        /\ UNCHANGED <<queue, filesVars, storeRest, todo, faults, jobRest>>

\* Materialise the payload: all of it, or part of it with placeholders for the
\* rest.  A partial delivery never replaces anything.
Fetch(c) ==
    /\ At(c, "fetch")
    /\ \E whole \in BOOLEAN :
          job' = [job EXCEPT ![c].whole = whole,
                             ![c].at = IF job[c].target = NoEntry THEN "insert"
                                       ELSE IF whole THEN "cache" ELSE "done"]
    /\ UNCHANGED onlyJob

FetchFails(c) ==
    /\ At(c, "fetch")
    /\ Go(c, "done")
    /\ UNCHANGED onlyJob

-----------------------------------------------------------------------------
(* execute_with_origin, from normalised representations to the entry.      *)

\* An upgrade replaces the content of an entry, anything else creates one.  A
\* local capture that found a vanished entry creates.
Replaces(c) == job[c].origin = "frame" /\ job[c].target # NoEntry

\* Create: the event and its representation, in one transaction.
Insert(c) ==
    /\ At(c, "insert")
    /\ row' = [row EXCEPT ![c] = Row(IF job[c].whole THEN "Staged" ELSE "Placeholder")]
    /\ Go(c, IF job[c].whole THEN "cache" ELSE "save")
    /\ UNCHANGED <<queue, filesVars, storeRest, todo, faults, jobRest>>

\* The bytes into the cache; then the spool makes room for them.
Cache(c) ==
    /\ At(c, "cache")
    /\ CachePut(c)
    /\ MakeRoom
    /\ Go(c, "spool")
    /\ UNCHANGED <<row, queue, storeRest, todo, faults, jobRest>>

\* Defect: a failed spool write does not end the capture.
SpoolIfPossible(c) ==
    /\ At(c, "spool")
    /\ \/ SpoolWrite(c) /\ UNCHANGED faults
       \/ Fault /\ UNCHANGED <<spool, ledger, todo, queue>>
    /\ Go(c, "save")
    /\ UNCHANGED <<row, cache, evicted, storeRest, jobRest>>

Spool(c) ==
    /\ At(c, "spool")
    /\ SpoolWrite(c)
    /\ Go(c, "save")
    /\ UNCHANGED <<row, cache, evicted, storeRest, faults, jobRest>>

\* The entry, for the event inserted before; or, in one transaction, the new
\* event behind the old entry, and the old event and its rows gone.
Save(c) ==
    /\ At(c, "save") /\ ~Replaces(c)
    /\ entry' = [entry EXCEPT ![c] = c]
    /\ Go(c, IF job[c].origin = "frame" /\ job[c].whole THEN "applied" ELSE "done")
    /\ UNCHANGED <<storeVars, deletion, misled, swept>>

Replace(c) ==
    LET e == job[c].target
    IN  /\ At(c, "save") /\ Replaces(c) /\ Live(e)
        /\ entry' = [entry EXCEPT ![e] = c]
        /\ row' = [row EXCEPT ![c] = Row("Staged"), ![entry[e]] = Row("Absent")]
        /\ Go(c, "applied")
        /\ UNCHANGED <<queue, filesVars, storeRest, todo, faults, deletion, misled,
                       swept>>

\* A replace never creates: its entry was deleted meanwhile.
ReplaceVanished(c) ==
    /\ At(c, "save") /\ Replaces(c) /\ ~Live(job[c].target)
    /\ Go(c, "done")
    /\ UNCHANGED onlyJob

\* A failed write ends the capture with an error and undoes nothing.  A spool
\* file that could not be given its mode stays, untracked.
StoreFails(c) ==
    /\ job[c].at \in {"insert", "spool", "save"} /\ Fault
    /\ Go(c, "done")
    /\ spool' \in IF At(c, "spool") THEN {spool, Append(spool, c)} ELSE {spool}
    /\ UNCHANGED <<row, queue, cache, ledger, evicted, storeRest, todo, jobRest>>

JobNext(c) ==
    \/ Lock(c)
    \/ LookupFinds(c) \/ LookupMisses(c) \/ LookupStrays(c) \/ LookupFails(c)
    \/ Touch(c) \/ TouchFails(c)
    \/ CheckHeld(c) \/ RapidDuplicate(c) \/ Resurface(c) \/ ResurfaceFails(c)
    \/ Fetch(c) \/ FetchFails(c)
    \/ Insert(c) \/ Cache(c) \/ Spool(c) \/ Save(c) \/ StoreFails(c)
    \/ Replace(c) \/ ReplaceVanished(c)

-----------------------------------------------------------------------------
(* Deleting an entry takes no lock and three transactions: the selection   *)
(* (left out), the entry, and the event with its representations.          *)

DeleteBegins(e) ==
    /\ deletion.at = "idle" /\ Live(e)
    /\ deletion' = [at |-> "entry", entry |-> e, event |-> entry[e]]
    /\ UNCHANGED <<storeVars, entry, job, misled, swept>>

DeleteEntry ==
    /\ deletion.at = "entry"
    /\ entry' = [entry EXCEPT ![deletion.entry] = NoEntry]
    /\ deletion' = [deletion EXCEPT !.at = "event"]
    /\ UNCHANGED <<storeVars, job, misled, swept>>

DeleteEvent ==
    /\ deletion.at = "event"
    /\ row' = [row EXCEPT ![deletion.event] = Row("Absent")]
    /\ deletion' = NoDeletion
    /\ UNCHANGED <<queue, filesVars, storeRest, todo, faults, entry, job, misled, swept>>

DeleteFails ==
    /\ deletion.at # "idle" /\ Fault
    /\ deletion' = NoDeletion
    /\ UNCHANGED <<row, queue, filesVars, storeRest, todo, entry, job, misled, swept>>

-----------------------------------------------------------------------------

\* Days pass.  Nothing that takes seconds is still under way.
DaysPass ==
    /\ life = "running" /\ ~Busy /\ queue = <<>> /\ worker.at = "idle"
    /\ old' = old \cup Elements(spool)
    /\ UNCHANGED <<row, queue, filesVars, worker, janitor, reader, startVars, faults,
                   intakeVars>>

Crash ==
    /\ StoreCrash
    /\ job' = [c \in Capture |-> IF At(c, "idle") THEN job[c]
                                 ELSE [job[c] EXCEPT !.at = "done"]]
    /\ deletion' = NoDeletion
    /\ UNCHANGED <<entry, misled, swept>>

\* A sweep of a start takes from capture c what it has yet to use: the scanner
\* the file of an upgrade that is not committed, the reconciler the row of bytes
\* that are in the cache or on their way to the spool.
Takes(c) ==
    \/ /\ life = "scan" /\ At(c, "save") /\ Replaces(c)
       /\ c \in Elements(spool) \ Elements(spool')
    \/ /\ life = "reconcile" /\ row'[c] # row[c]
       /\ c \in Elements(cache) \/ At(c, "cache") \/ At(c, "spool")

\* The store moves, the captures do not.
IntakeWaits ==
    /\ swept' = swept \cup {c \in Capture : Takes(c)}
    /\ UNCHANGED <<entry, job, deletion, misled>>

StoreNext ==
    /\ WorkerNext \/ StartNext
       \/ \E r \in Rep : JanitorMarks(r)
       \/ JanitorRemoves
       \/ \E e \in LiveEntries : ReaderLooks(entry[e])
       \/ ReaderServes \/ ReaderDemotes
    /\ IntakeWaits

Next ==
    \/ \E c \in Capture, h \in Content, o \in {"local", "frame"} : Copy(c, h, o)
    \/ \E c \in Capture : JobNext(c)
    \/ \E e \in Capture : DeleteBegins(e)
    \/ DeleteEntry \/ DeleteEvent \/ DeleteFails
    \/ DaysPass
    \/ Crash
    \/ StoreNext

Spec == Init /\ [][Next]_vars

-----------------------------------------------------------------------------
(* Properties.                                                             *)

RowType == [state : PayloadState, label : Bytes, blob : Bytes \cup {"none"}]
WorkerSteps == {"idle", "claim", "fetch", "relabel", "finish", "unspool",
                "release", "giveUp"}

\* Type correctness.
TypeOK ==
    /\ row \in [Rep -> RowType]
    /\ {Elements(cache), Elements(spool), Elements(ledger), Elements(queue)}
          \subseteq SUBSET Rep
    /\ old \in SUBSET Rep /\ evicted \in SUBSET Rep /\ todo \in SUBSET Rep
    /\ worker \in [at : WorkerSteps, rep : Rep \cup {NoRep},
                    attempt : 1 .. MaxAttempts, bytes : Bytes]
    /\ janitor \in Rep \cup {NoRep} /\ reader \in Rep \cup {NoRep}
    /\ life \in {"scan", "reconcile", "running"}
    /\ faults \in 0 .. MaxFaults
    /\ entry \in [Capture -> Capture \cup {NoEntry}]
    /\ job \in [Capture -> [at : Steps, origin : {"local", "frame"},
                            content : Content \cup {"none"},
                            target : Capture \cup {NoEntry}, whole : BOOLEAN]]
    /\ deletion \in [at : {"idle", "entry", "event"},
                     entry : Capture \cup {NoEntry}, event : Rep \cup {NoRep}]
    /\ misled \in SUBSET Content /\ swept \in SUBSET Capture

\* entry_identity.rs: the lock makes "look up, then create or replace" atomic, so
\* captures, frames and deletions together never leave two entries for one
\* content.  That is as far as the lock reaches: a look-up that failed, or that
\* met a stray event, does not see the entry and a second one is created.
OneEntryPerContent ==
    \A h \in Content \ misled : \A d, e \in EntriesOf(h) : d = e

\* usecase.rs:524-529: the bytes of what an entry promises are on disk before
\* the entry is, and stay there until they are a blob, through crashes, failed
\* writes, retries and deletions next to it; only room for newer content can take
\* them away.  The scanner of a start breaks this for one kind of capture: it
\* removes the file of an upgrade that is spooled and not committed (swept).
NoPhantomEntry ==
    \A e \in LiveEntries :
        /\ row[entry[e]].state # "Absent"
        /\ row[entry[e]].state \in Pending =>
              entry[e] \in Elements(spool) \cup evicted \cup swept

\* staged_reconciler.rs:4-9 and :24-25: a representation is given up only when
\* its bytes are gone from both cache and spool (or its file outlived the
\* time-to-live); the cache is taken for empty at a start, and is not asked.  It is
\* not empty when a capture runs beside the reconciler: this does not hold.
GivenUpIsGone ==
    \A r \in Rep : row[r].state = "Lost" => r \in old \/ ~HasBytes(r)

\* The same, but for what a reconciler gave up while it was in the cache, or on
\* its way to the spool (swept): any other sweep, demotion or removal, in any
\* order with the captures, the worker and crashes, leaves alone what has bytes.
LostIsGone ==
    \A r \in Rep \ swept : row[r].state = "Lost" => r \in old \/ ~HasBytes(r)

\* An upgrade never replaces content that the device holds: what the check
\* under the lock found missing is still missing when the entry is replaced.
UpgradesOnlyTheMissing ==
    [][\A e \in Capture :
          entry'[e] # entry[e] /\ entry'[e] # NoEntry => ~Available(e)]_vars

Settled(r) == row[r].state \notin Pending \/ ~HasBytes(r)
GivesUp(r) == WorkerAt("giveUp") /\ worker.rep = r

\* durable_spool_queue.rs:26-30: a representation the worker was told of leaves
\* the pending states or takes all its attempts, unless its bytes are gone or
\* the process ends first.  (That it was given up may fail to be recorded.)
QueuedIsSettled ==
    \A r \in Rep :
        r \in Elements(queue) /\ row[r].state \in Pending /\ life = "running"
            ~> Settled(r) \/ GivesUp(r) \/ life # "running"

-----------------------------------------------------------------------------

\* The worker loop, the sweeps of a start and the janitor run as tasks of the
\* daemon; a capture, a frame and a deletion run to their end.
Fairness ==
    /\ \A c \in Capture : WF_vars(JobNext(c))
    /\ WF_vars(WorkerNext /\ IntakeWaits)
    /\ WF_vars(StartNext /\ IntakeWaits)

FairSpec == Spec /\ Fairness
=============================================================================
