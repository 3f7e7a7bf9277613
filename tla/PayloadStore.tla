---------------------------- MODULE PayloadStore ----------------------------
(***************************************************************************)
(* Where the bytes of a large clipboard representation live until they are *)
(* a blob: the row with its payload state, the in-memory cache, the spool  *)
(* directory and its ledger, and the queue of the background worker; with  *)
(* the worker, the spool janitor, a reader (the payload resolver and the   *)
(* demotion of what it finds orphaned) and the two sweeps of a start.      *)
(*                                                                         *)
(* One representation has the size of one slot of the cache and the spool. *)
(* An UPDATE of a row is atomic; between two awaits anything may happen.   *)
(* The module has no specification of its own: HistoryIntake composes it   *)
(* with the captures that fill it and the deletions that empty it.         *)
(***************************************************************************)
EXTENDS Naturals, Sequences, FiniteSets

CONSTANTS
    Rep,          \* representations, one for each capture
    Convertible,  \* those that hold an image the worker turns into PNG
    NoRep,        \* no representation
    CacheSlots,   \* room of the RepresentationCache
    SpoolSlots,   \* room of the spool directory
    QueueSlots,   \* room of the worker's channel (100 in the code)
    MaxAttempts,  \* worker_retry_max_attempts (5 in the code)
    MaxFaults     \* bound on crashes and other failed operations

ASSUME StoreAssumption ==
    /\ IsFiniteSet(Rep)
    /\ Convertible \subseteq Rep
    /\ NoRep \notin Rep
    /\ CacheSlots \in Nat /\ SpoolSlots \in Nat \ {0} /\ QueueSlots \in Nat
    /\ MaxAttempts \in Nat \ {0}
    /\ MaxFaults \in Nat

VARIABLES
    row,      \* row[r]: payload state, label (mime type) and blob of r
    cache,    \* the cached representations, the oldest first
    spool,    \* the files of the spool directory, the oldest first
    ledger,   \* what the SpoolManager believes the directory holds
    queue,    \* messages to the worker
    old,      \* files that ever outlived the time-to-live
    evicted,  \* history: files removed to make room
    worker,   \* where the BackgroundBlobWorker is
    janitor,  \* the expired file the janitor is about to remove
    reader,   \* where a reader of a payload is
    life,     \* "scan", "reconcile" (a start) or "running"
    todo,     \* what the sweep of the start has yet to visit
    faults    \* failed operations and crashes so far

storeVars == <<row, cache, spool, ledger, queue, old, evicted,
               worker, janitor, reader, life, todo, faults>>
filesVars == <<cache, spool, ledger, evicted>>
startVars == <<life, todo>>

Pending == {"Staged", "Processing"}
PayloadState ==
    Pending \cup {"Absent", "Placeholder", "BlobReady", "Failed", "Lost"}
Bytes == {"given", "png"}  \* as captured, or turned into PNG

Elements(s) == {s[i] : i \in DOMAIN s}

\* s without the elements of S: what is kept, by its rank.
Without(s, S) ==
    LET kept == {i \in DOMAIN s : s[i] \notin S}
        Rank(i) == Cardinality({j \in kept : j <= i})
    IN  [k \in 1 .. Cardinality(kept) |-> s[CHOOSE i \in kept : Rank(i) = k]]

\* The newest n elements of s.
Newest(s, n) == IF Len(s) <= n THEN s ELSE SubSeq(s, Len(s) - n + 1, Len(s))

Row(state) == [state |-> state, label |-> "given", blob |-> "none"]

\* UPDATE ... SET payload_state = to WHERE id = r AND payload_state IN from.
Swap(r, from, to) ==
    row' = IF row[r].state \in from THEN [row EXCEPT ![r].state = to] ELSE row

\* try_send: a full channel drops the message and the caller only warns.
Notify(r) == queue' = IF Len(queue) < QueueSlots THEN Append(queue, r) ELSE queue

HasBytes(r) == r \in Elements(cache) \cup Elements(spool)

WorkerIdle ==
    [at |-> "idle", rep |-> NoRep, attempt |-> 1, bytes |-> "given"]

Fault == faults < MaxFaults /\ faults' = faults + 1

StoreInit ==
    /\ row = [r \in Rep |-> Row("Absent")]
    /\ cache = <<>> /\ spool = <<>> /\ ledger = <<>> /\ queue = <<>>
    /\ old = {} /\ evicted = {}
    /\ worker = WorkerIdle
    /\ janitor = NoRep
    /\ reader = NoRep
    /\ life = "scan" /\ todo = {}
    /\ faults = 0

-----------------------------------------------------------------------------
(* What a capture does to the store; the row is the capture's business.    *)

CachePut(r) == cache' = Newest(Append(Without(cache, {r}), r), CacheSlots)

\* plan_eviction: the oldest files leave the ledger, then the directory, until
\* the new one fits.
MakeRoom ==
    LET kept == Newest(ledger, SpoolSlots - 1)
        victims == Elements(ledger) \ Elements(kept)
    IN  /\ ledger' = kept
        /\ spool' = Without(spool, victims)
        /\ evicted' = evicted \cup victims

\* A directory listing may or may not show a file created while it is read.
SpoolWrite(r) ==
    /\ spool' = Append(spool, r)
    /\ ledger' = Append(ledger, r)
    /\ todo' \in IF life = "scan" THEN {todo, todo \cup {r}} ELSE {todo}
    /\ Notify(r)

-----------------------------------------------------------------------------
(* The background worker.                                                  *)

WorkerAt(at) == worker.at = at
WorkerGoes(at) == worker' = [worker EXCEPT !.at = at]
workerRest == <<old, janitor, reader, startVars>>

WorkerTakes ==
    /\ life = "running" /\ WorkerAt("idle") /\ queue # <<>>
    /\ worker' = [WorkerIdle EXCEPT !.at = "claim", !.rep = Head(queue)]
    /\ queue' = Tail(queue)
    /\ UNCHANGED <<row, filesVars, workerRest, faults>>

\* Defect: a row that an earlier attempt left at Processing is not taken up.
WorkerClaimsStaged ==
    /\ WorkerAt("claim")
    /\ Swap(worker.rep, {"Staged"}, "Processing")
    /\ WorkerGoes(IF row[worker.rep].state = "Staged" THEN "fetch" ELSE "release")
    /\ UNCHANGED <<queue, filesVars, workerRest, faults>>

\* Only a Staged or Processing row is worked on; any other ends the message.
WorkerClaims ==
    /\ WorkerAt("claim")
    /\ Swap(worker.rep, Pending, "Processing")
    /\ WorkerGoes(IF row[worker.rep].state \in Pending THEN "fetch" ELSE "release")
    /\ UNCHANGED <<queue, filesVars, workerRest, faults>>

\* Cache, else spool; convert what should_convert_to_png; write the blob.  The
\* label decides, not the bytes.  The cache gains nothing while r is queued, so
\* one step stands for both reads.
WorkerFetches ==
    LET r == worker.rep
        convert == r \in Convertible /\ row[r].label = "given"
    IN  /\ WorkerAt("fetch") /\ HasBytes(r)
        /\ worker' = [worker EXCEPT !.at = IF convert THEN "relabel" ELSE "finish",
                                    !.bytes = IF convert THEN "png" ELSE "given"]
        /\ UNCHANGED <<row, queue, filesVars, workerRest, faults>>

\* Neither has the bytes: back to Staged, unless that write fails.
WorkerMisses ==
    /\ WorkerAt("fetch") /\ ~HasBytes(worker.rep)
    /\ WorkerGoes("release")
    /\ \/ Swap(worker.rep, {"Processing"}, "Staged") /\ UNCHANGED faults
       \/ Fault /\ UNCHANGED row
    /\ UNCHANGED <<queue, filesVars, workerRest>>

\* update_mime_type comes before the row is BlobReady; its failure is a warning.
WorkerRelabels ==
    /\ WorkerAt("relabel")
    /\ WorkerGoes("finish")
    /\ \/ /\ row' = IF row[worker.rep].state = "Absent" THEN row
                    ELSE [row EXCEPT ![worker.rep].label = "png"]
          /\ UNCHANGED faults
       \/ Fault /\ UNCHANGED row
    /\ UNCHANGED <<queue, filesVars, workerRest>>

WorkerFinishes ==
    LET r == worker.rep
        mine == row[r].state = "Processing"
    IN  /\ WorkerAt("finish")
        /\ row' = IF mine
                  THEN [row EXCEPT ![r].state = "BlobReady", ![r].blob = worker.bytes]
                  ELSE row
        /\ WorkerGoes(IF mine THEN "unspool" ELSE "release")
        /\ UNCHANGED <<queue, filesVars, workerRest, faults>>

\* SpoolManager::delete forgets the file even when it could not remove it.
WorkerUnspools ==
    LET r == worker.rep
    IN  /\ WorkerAt("unspool")
        /\ WorkerGoes("release")
        /\ ledger' = Without(ledger, {r})
        /\ \/ spool' = Without(spool, {r}) /\ UNCHANGED faults
           \/ Fault /\ UNCHANGED spool
        /\ UNCHANGED <<row, cache, evicted, queue, workerRest>>

WorkerReleases ==
    /\ WorkerAt("release")
    /\ worker' = WorkerIdle
    /\ cache' = Without(cache, {worker.rep})
    /\ UNCHANGED <<row, spool, ledger, evicted, queue, workerRest, faults>>

\* Defect: one attempt too many.
WorkerTriesOnceMore ==
    /\ worker.at \in {"claim", "fetch", "finish"}
    /\ IF worker.attempt = 1 THEN Fault ELSE UNCHANGED faults
    /\ worker' = IF worker.attempt <= MaxAttempts
                 THEN [worker EXCEPT !.at = "claim", !.attempt = @ + 1]
                 ELSE [worker EXCEPT !.at = "giveUp"]
    /\ UNCHANGED <<row, queue, filesVars, workerRest>>

\* An error of the database, the spool or the blob store: again, from the start.
\* What fails once may go on failing: MaxFaults counts it once.
WorkerFails ==
    /\ worker.at \in {"claim", "fetch", "finish"}
    /\ IF worker.attempt = 1 THEN Fault ELSE UNCHANGED faults
    /\ worker' = IF worker.attempt < MaxAttempts
                 THEN [worker EXCEPT !.at = "claim", !.attempt = @ + 1]
                 ELSE [worker EXCEPT !.at = "giveUp"]
    /\ UNCHANGED <<row, queue, filesVars, workerRest>>

\* mark_failed, whose own failure is only logged.
WorkerGivesUp ==
    /\ WorkerAt("giveUp")
    /\ WorkerGoes("release")
    /\ \/ Swap(worker.rep, Pending, "Failed") /\ UNCHANGED faults
       \/ Fault /\ UNCHANGED row
    /\ UNCHANGED <<queue, filesVars, workerRest>>

WorkerNext ==
    \/ WorkerTakes \/ WorkerClaims \/ WorkerFetches \/ WorkerMisses
    \/ WorkerRelabels \/ WorkerFinishes \/ WorkerUnspools \/ WorkerReleases
    \/ WorkerFails \/ WorkerGivesUp

-----------------------------------------------------------------------------
(* The janitor.                                                            *)

\* An expired file: its row is given up first, and only then the file.  The
\* ledger is not told.  A row that moved on keeps its file.
JanitorMarks(r) ==
    /\ life = "running" /\ janitor = NoRep
    /\ r \in Elements(spool) \cap old
    /\ row[r].state \in Pending \cup {"Absent"}
    /\ Swap(r, Pending, "Lost")
    /\ janitor' = r
    /\ UNCHANGED <<queue, filesVars, old, worker, reader, startVars, faults>>

JanitorRemoves ==
    /\ janitor # NoRep
    /\ janitor' = NoRep
    /\ \/ spool' = Without(spool, {janitor}) /\ UNCHANGED faults
       \/ Fault /\ UNCHANGED spool
    /\ UNCHANGED <<row, cache, ledger, evicted, queue, old, worker, reader, startVars>>

-----------------------------------------------------------------------------
(* A reader has fetched the row and asks the resolver for its bytes.       *)

ReaderLooks(r) ==
    /\ reader = NoRep
    /\ row[r].state \in Pending \cup {"Failed"}
    /\ reader' = r
    /\ UNCHANGED <<row, queue, filesVars, old, worker, janitor, startVars, faults>>

\* Bytes found: served, and the worker is reminded.
ReaderServes ==
    /\ reader # NoRep /\ HasBytes(reader)
    /\ Notify(reader)
    /\ reader' = NoRep
    /\ UNCHANGED <<row, filesVars, old, worker, janitor, startVars, faults>>

\* Defect: the spool is not asked.
ReaderDemotesUncached ==
    /\ reader # NoRep /\ reader \notin Elements(cache)
    /\ reader' = NoRep
    /\ Swap(reader, Pending \cup {"Failed"}, "Lost")
    /\ UNCHANGED <<queue, filesVars, old, worker, janitor, startVars, faults>>

\* Cache and spool both miss: a reconstruction gives the row up, a detail view
\* or a failed UPDATE leaves it.
ReaderDemotes ==
    /\ reader # NoRep /\ ~HasBytes(reader)
    /\ reader' = NoRep
    /\ Swap(reader, Pending \cup {"Failed"}, "Lost") \/ UNCHANGED row
    /\ UNCHANGED <<queue, filesVars, old, worker, janitor, startVars, faults>>

-----------------------------------------------------------------------------
(* A start: the SpoolScanner, then the StagedReconciler, then the worker.  *)

startRest == <<cache, ledger, evicted, old, worker, janitor, reader>>

ScanVisits(r) ==
    /\ life = "scan" /\ r \in todo
    /\ todo' = todo \ {r}
    /\ \/ row[r].state \in Pending /\ Notify(r) /\ UNCHANGED spool
       \/ /\ row[r].state \notin Pending
          /\ spool' = Without(spool, {r})
          /\ UNCHANGED queue
    /\ UNCHANGED <<row, life, startRest, faults>>

\* All files seen, or the scan failed: "continuing startup".
ScanEnds ==
    /\ life = "scan"
    /\ (todo = {} /\ UNCHANGED faults) \/ Fault
    /\ life' = "reconcile"
    /\ todo' = {r \in Rep : row[r].state \in Pending}
    /\ UNCHANGED <<row, spool, queue, startRest>>

\* A pending row without a file is given up; the cache is not asked.
ReconcileVisits(r) ==
    /\ life = "reconcile" /\ r \in todo
    /\ todo' = todo \ {r}
    /\ \/ r \in Elements(spool) /\ UNCHANGED <<row, faults>>
       \/ r \notin Elements(spool) /\ Swap(r, Pending, "Lost") /\ UNCHANGED faults
       \/ Fault /\ UNCHANGED row
    /\ UNCHANGED <<spool, queue, life, startRest>>

StartTasks ==
    /\ life = "reconcile" /\ todo = {}
    /\ life' = "running"
    /\ UNCHANGED <<row, spool, queue, todo, startRest, faults>>

StartNext ==
    \/ \E r \in Rep : ScanVisits(r) \/ ReconcileVisits(r)
    \/ ScanEnds \/ StartTasks

\* The process ends and starts again: rows and files stay, and the ledger is
\* rebuilt from the directory, the oldest file first.
StoreCrash ==
    /\ Fault
    /\ cache' = <<>> /\ queue' = <<>> /\ ledger' = spool
    /\ worker' = WorkerIdle
    /\ janitor' = NoRep /\ reader' = NoRep
    /\ life' = "scan" /\ todo' = Elements(spool)
    /\ UNCHANGED <<row, spool, old, evicted>>
=============================================================================
