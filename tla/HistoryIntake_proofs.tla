------------------------ MODULE HistoryIntake_proofs ------------------------
(***************************************************************************)
(* The history never holds one content twice, and an upgrade never         *)
(* replaces what the device holds: for any number of captures, contents,   *)
(* slots, crashes and failing writes, beside the sweeps of a start or not. *)
(*                                                                         *)
(* The argument for these speaks of rows only as far as they exist and are *)
(* missing their bytes; the queue, the cache and the spool do not enter it *)
(* (IInv).  They do in the second half: every variable keeps its type, the *)
(* bytes an entry promises are in the spool until they are a blob, and     *)
(* only what has lost its bytes or is old is given up (HeldInv), but for   *)
(* what a sweep of a start takes from a capture beside it (Takes).         *)
(***************************************************************************)
EXTENDS HistoryIntake, FiniteSetTheorems, SequenceTheorems, TLAPS

Rows == [state : PayloadState, label : Bytes, blob : Bytes \cup {"none"}]
Jobs == [at : Steps, origin : {"local", "frame"}, content : Content \cup {"none"},
         target : Capture \cup {NoEntry}, whole : BOOLEAN]
Missing == {"Absent", "Placeholder", "Failed", "Lost"}

\* The types the argument needs; of the worker, that it has bytes to store.
TypeInv ==
    /\ row \in [Rep -> Rows]
    /\ worker \in [at : WorkerSteps, rep : {worker.rep},
                    attempt : {worker.attempt}, bytes : Bytes]
    /\ entry \in [Capture -> Capture \cup {NoEntry}]
    /\ job \in [Capture -> Jobs]
    /\ deletion \in [at : {"idle", "entry", "event"},
                     entry : Capture \cup {NoEntry}, event : Rep \cup {NoRep}]

Over(c) == job[c].at \in Ended

\* An entry has an event of its own, with a row, made by a capture of the same
\* content that is over; so is the capture that made the entry.
EntryInv ==
    \A e \in LiveEntries :
        /\ entry[e] \in Capture
        /\ Over(e) /\ Over(entry[e])
        /\ job[entry[e]].content = job[e].content
        /\ row[entry[e]].state # "Absent"
        /\ \A d \in LiveEntries : entry[d] = entry[e] => d = e

\* The event a deletion will remove is at most that of the entry it removes
\* first.
DeletionInv ==
    deletion.at # "idle" =>
        /\ deletion.entry \in Capture
        /\ deletion.event \in Capture
        /\ Over(deletion.event)
        /\ \A e \in LiveEntries :
              entry[e] = deletion.event => deletion.at = "entry" /\ e = deletion.entry

LockInv ==
    \A c, d \in Capture :
        Locked(c) /\ Locked(d) /\ job[c].content = job[d].content => c = d

\* What a writer that has looked up expects to find.
Expects(c) ==
    IF job[c].at \in {"touch", "held", "resurface"} \/ Replaces(c)
    THEN {job[c].target} ELSE {}

\* A writer works for its origin; what it found is an entry of its content.
TargetOf(c) ==
    /\ ~At(c, "idle") /\ ~Over(c) => job[c].content \in Content
    /\ At(c, "touch") => job[c].origin = "local"
    /\ job[c].at \in {"held", "resurface", "fetch"} => job[c].origin = "frame"
    /\ job[c].at \in {"touch", "held", "resurface"} => job[c].target # NoEntry
    /\ job[c].at \in {"idle", "lock", "lookup"} => job[c].target = NoEntry
    /\ At(c, "insert") => ~Replaces(c)
    /\ Locked(c) /\ job[c].target # NoEntry =>
          /\ Over(job[c].target)
          /\ job[job[c].target].content = job[c].content
    /\ job[c].at \in {"cache", "spool", "save"} /\ ~Replaces(c) =>
          row[c].state # "Absent"

\* Under the lock, the entries of a content are those the writer found.
FoundBy(c) ==
    Locked(c) /\ ~At(c, "lookup") /\ job[c].content \notin misled =>
        EntriesOf(job[c].content) \subseteq Expects(c)

\* Under the lock, what the writer means to replace stays missing.
MissingFor(c) ==
    job[c].at \in {"fetch", "cache", "spool", "save"} /\ Replaces(c) =>
        ~Available(job[c].target)

WriterInv == \A c \in Capture : TargetOf(c) /\ FoundBy(c) /\ MissingFor(c)

IInv ==
    /\ TypeInv /\ EntryInv /\ DeletionInv /\ LockInv /\ WriterInv
    /\ OneEntryPerContent

-----------------------------------------------------------------------------
(* What the store does to the rows.                                        *)

\* The rows outside S stay or stay away, and what is missing stays missing.
RowsKept(S) ==
    \A r \in Rep \ S :
        /\ row'[r].state = "Absent" <=> row[r].state = "Absent"
        /\ row[r].state \in Missing => row'[r].state \in Missing

LEMMA SwapKeeps ==
    ASSUME TypeInv, NEW r, NEW from, NEW to,
           from \subseteq Pending \cup {"Failed"},
           to \in {"Staged", "Processing", "Failed", "Lost"},
           to \in Pending => from \subseteq Pending,
           Swap(r, from, to)
    PROVE  row' \in [Rep -> Rows] /\ RowsKept({})
<1>1. row \in [Rep -> Rows]
  BY DEF TypeInv
<1>2. CASE r \in Rep /\ row[r].state \in from
  <2>1. row' = [row EXCEPT ![r] = [@ EXCEPT !.state = to]]
    BY <1>2 DEF Swap
  <2>2. /\ [row[r] EXCEPT !.state = to] \in Rows
        /\ [row[r] EXCEPT !.state = to].state = to
    BY <1>1, <1>2 DEF Rows, PayloadState, Pending
  <2> QED BY <1>1, <1>2, <2>1, <2>2 DEF RowsKept, Missing, Pending
<1>3. CASE ~ (r \in Rep /\ row[r].state \in from)
  <2>1. row' = row
    BY <1>1, <1>3 DEF Swap
  <2> QED BY <1>1, <2>1 DEF RowsKept
<1> QED BY <1>2, <1>3

LEMMA WorkerMoves ==
    ASSUME TypeInv, NEW at \in WorkerSteps, WorkerGoes(at)
    PROVE  worker' \in [at : WorkerSteps, rep : {worker'.rep},
                        attempt : {worker'.attempt}, bytes : Bytes]
BY DEF TypeInv, WorkerGoes

LEMMA WorkerKeeps ==
    ASSUME TypeInv, WorkerNext
    PROVE  /\ row' \in [Rep -> Rows] /\ RowsKept({})
           /\ worker' \in [at : WorkerSteps, rep : {worker'.rep},
                           attempt : {worker'.attempt}, bytes : Bytes]
<1> USE DEF WorkerSteps
<1> DEFINE Shaped(w) == w \in [at : WorkerSteps, rep : {w.rep},
                               attempt : {w.attempt}, bytes : Bytes]
<1>1. row \in [Rep -> Rows] /\ Shaped(worker)
  BY DEF TypeInv
<1>2. UNCHANGED row => row' \in [Rep -> Rows] /\ RowsKept({})
  BY <1>1 DEF RowsKept
<1>3. CASE WorkerTakes
  <2>1. Shaped([WorkerIdle EXCEPT !.at = "claim", !.rep = Head(queue)])
    BY DEF WorkerIdle, Bytes
  <2> QED BY <1>2, <1>3, <2>1 DEF WorkerTakes
<1>4. CASE WorkerClaims
  <2>1. row' \in [Rep -> Rows] /\ RowsKept({})
    BY <1>4, SwapKeeps DEF WorkerClaims, Pending
  <2>2. Shaped(worker')
    BY <1>4, WorkerMoves DEF WorkerClaims
  <2> QED BY <2>1, <2>2
<1>5. CASE WorkerFetches
  <2>1. PICK b \in Bytes, s \in {"relabel", "finish"} :
          worker' = [worker EXCEPT !.at = s, !.bytes = b]
    BY <1>5 DEF WorkerFetches, Bytes
  <2> QED BY <1>1, <1>2, <1>5, <2>1 DEF WorkerFetches
<1>6. CASE WorkerMisses
  <2>1. row' \in [Rep -> Rows] /\ RowsKept({})
    BY <1>2, <1>6, SwapKeeps DEF WorkerMisses, Pending
  <2>2. Shaped(worker')
    BY <1>6, WorkerMoves DEF WorkerMisses
  <2> QED BY <2>1, <2>2
<1>7. CASE WorkerRelabels
  <2>1. Shaped(worker')
    BY <1>7, WorkerMoves DEF WorkerRelabels
  <2>2. CASE UNCHANGED row
    BY <1>2, <2>1, <2>2
  <2>3. CASE row' = [row EXCEPT ![worker.rep].label = "png"]
    <3>1. CASE worker.rep \in Rep
      <4>1. /\ [row[worker.rep] EXCEPT !.label = "png"] \in Rows
            /\ [row[worker.rep] EXCEPT !.label = "png"].state = row[worker.rep].state
        BY <1>1, <3>1 DEF Rows, Bytes
      <4> QED BY <1>1, <2>1, <2>3, <3>1, <4>1 DEF RowsKept
    <3>2. CASE worker.rep \notin Rep
      BY <1>1, <1>2, <2>1, <2>3, <3>2
    <3> QED BY <3>1, <3>2
  <2> QED BY <1>7, <2>2, <2>3 DEF WorkerRelabels
<1>8. CASE WorkerFinishes
  <2>1. Shaped(worker')
    BY <1>8, WorkerMoves DEF WorkerFinishes
  <2> DEFINE done == [row[worker.rep] EXCEPT !.state = "BlobReady", !.blob = worker.bytes]
  <2>2. CASE worker.rep \in Rep /\ row[worker.rep].state = "Processing"
    <3>1. row' = [row EXCEPT ![worker.rep] = done]
      BY <1>8, <2>2 DEF WorkerFinishes
    <3>2. done \in Rows /\ done.state = "BlobReady"
      BY <1>1, <2>2 DEF Rows, PayloadState
    <3> QED BY <1>1, <2>1, <2>2, <3>1, <3>2 DEF RowsKept, Missing
  <2>3. CASE ~ (worker.rep \in Rep /\ row[worker.rep].state = "Processing")
    <3>1. row' = row
      BY <1>1, <1>8, <2>3 DEF WorkerFinishes
    <3> QED BY <1>2, <2>1, <3>1
  <2> QED BY <2>2, <2>3
<1>9. CASE WorkerUnspools
  BY <1>2, <1>9, WorkerMoves DEF WorkerUnspools
<1>10. CASE WorkerReleases
  <2>1. Shaped(WorkerIdle)
    BY DEF WorkerIdle, Bytes
  <2> QED BY <1>2, <1>10, <2>1 DEF WorkerReleases
<1>11. CASE WorkerFails
  <2>1. \/ worker' = [worker EXCEPT !.at = "claim", !.attempt = worker.attempt + 1]
        \/ worker' = [worker EXCEPT !.at = "giveUp"]
    BY <1>11 DEF WorkerFails
  <2> QED BY <1>1, <1>2, <1>11, <2>1 DEF WorkerFails
<1>12. CASE WorkerGivesUp
  <2>1. row' \in [Rep -> Rows] /\ RowsKept({})
    BY <1>2, <1>12, SwapKeeps DEF WorkerGivesUp, Pending
  <2>2. Shaped(worker')
    BY <1>12, WorkerMoves DEF WorkerGivesUp
  <2> QED BY <2>1, <2>2
<1> QED BY <1>3, <1>4, <1>5, <1>6, <1>7, <1>8, <1>9, <1>10, <1>11, <1>12
        DEF WorkerNext

LEMMA StoreKeeps ==
    ASSUME TypeInv, StoreNext
    PROVE  TypeInv' /\ RowsKept({})
<1>1. UNCHANGED <<entry, job, deletion, misled>>
  BY DEF StoreNext, IntakeWaits
<1>2. UNCHANGED row => row' \in [Rep -> Rows] /\ RowsKept({})
  BY DEF TypeInv, RowsKept
<1>3. CASE WorkerNext
  BY <1>1, <1>3, WorkerKeeps DEF TypeInv
<1>4. CASE ~WorkerNext
  <2>1. UNCHANGED worker
    BY <1>4 DEF StoreNext, StartNext, ScanVisits, ScanEnds, ReconcileVisits, StartTasks,
       startRest, JanitorMarks, JanitorRemoves, ReaderLooks, ReaderServes, ReaderDemotes
  <2>2. CASE UNCHANGED row
    BY <1>1, <1>2, <2>1, <2>2 DEF TypeInv
  <2>3. CASE \E r : \/ Swap(r, Pending, "Lost")
                    \/ Swap(r, Pending \cup {"Failed"}, "Lost")
    <3>1. row' \in [Rep -> Rows] /\ RowsKept({})
      BY <2>3, SwapKeeps DEF Pending
    <3> QED BY <1>1, <2>1, <3>1 DEF TypeInv
  <2> QED
    BY <1>4, <2>2, <2>3 DEF StoreNext, StartNext, ScanVisits, ScanEnds,
       ReconcileVisits, StartTasks, startRest, JanitorMarks, JanitorRemoves,
       ReaderLooks, ReaderServes, ReaderDemotes
<1> QED BY <1>3, <1>4

-----------------------------------------------------------------------------
(* A step of one writer that is not over, and touches no entry.            *)

\* c alone moves; of the rows, only its own may come or go.
MovesAlone(c) ==
    /\ c \in Capture /\ ~Over(c)
    /\ \A d \in Capture \ {c} : job'[d] = job[d]
    /\ entry' = entry /\ deletion' = deletion
    /\ misled \subseteq misled'
    /\ RowsKept({c})

\* Nobody else has the lock of the content c works on after the step.
HasLock(c) ==
    \A d \in Capture \ {c} :
        Locked(d) /\ Locked(c)' => job[d].content # job'[c].content

LEMMA EntriesStay ==
    ASSUME TypeInv, EntryInv, NEW c, MovesAlone(c)
    PROVE  /\ LiveEntries' = LiveEntries
           /\ \A e \in LiveEntries : entry[e] # c /\ e # c
           /\ \A d \in Capture : Over(d) => d # c /\ job'[d] = job[d]
           /\ \A h : EntriesOf(h)' = EntriesOf(h)
           /\ \A e : ~Available(e) => ~Available(e)'
<1>1. LiveEntries' = LiveEntries
  BY DEF MovesAlone, LiveEntries, Live
<1>2. \A d \in Capture : Over(d) => d # c /\ job'[d] = job[d]
  BY DEF MovesAlone
<1>3. \A e \in LiveEntries : entry[e] # c /\ e # c
  BY <1>2 DEF EntryInv, LiveEntries
<1>4. \A e \in LiveEntries : ContentOf(e)' = ContentOf(e)
  BY <1>2 DEF EntryInv, ContentOf, MovesAlone
<1>5. \A h : EntriesOf(h)' = EntriesOf(h)
  BY <1>1, <1>4 DEF EntriesOf
<1>6. \A e : ~Available(e) => ~Available(e)'
  <2>1. SUFFICES ASSUME NEW e, ~Available(e), Live(e)
                 PROVE  ~Available(e)'
    BY DEF Available, Live, MovesAlone
  <2>2. e \in LiveEntries /\ entry[e] \in Rep \ {c}
    BY <1>3, <2>1 DEF LiveEntries, Live, EntryInv, Capture
  <2>3. row[entry[e]].state \in Missing
    BY <2>1 DEF Available, Missing
  <2>4. row'[entry[e]].state \in Missing
    BY <2>2, <2>3 DEF MovesAlone, RowsKept
  <2> QED BY <2>4 DEF Available, Missing, MovesAlone
<1> QED BY <1>1, <1>2, <1>3, <1>5, <1>6

LEMMA WriterKeeps ==
    ASSUME IInv, TypeInv', NEW c, MovesAlone(c), HasLock(c),
           TargetOf(c)', FoundBy(c)', MissingFor(c)'
    PROVE  IInv'
<1>1. /\ LiveEntries' = LiveEntries
      /\ \A e \in LiveEntries : entry[e] # c /\ e # c
      /\ \A d \in Capture : Over(d) => d # c /\ job'[d] = job[d]
      /\ \A h : EntriesOf(h)' = EntriesOf(h)
      /\ \A e : ~Available(e) => ~Available(e)'
  BY EntriesStay DEF IInv
<1>2. EntryInv'
  <2>1. \A e \in LiveEntries : row'[entry[e]].state # "Absent"
    BY <1>1 DEF IInv, EntryInv, MovesAlone, RowsKept, Capture
  <2> QED BY <1>1, <2>1 DEF IInv, EntryInv, MovesAlone, Over, LiveEntries
<1>3. DeletionInv'
  BY <1>1 DEF IInv, DeletionInv, MovesAlone, Over
<1>4. LockInv'
  BY DEF IInv, LockInv, MovesAlone, HasLock, Locked
<1>5. ASSUME NEW d \in Capture, d # c
      PROVE  TargetOf(d)' /\ FoundBy(d)' /\ MissingFor(d)'
  <2>1. job'[d] = job[d] /\ (Replaces(d)' <=> Replaces(d))
    BY <1>5 DEF MovesAlone, Replaces
  <2>2. TargetOf(d) /\ FoundBy(d) /\ MissingFor(d)
    BY DEF IInv, WriterInv
  <2>3. TargetOf(d)'
    <3>1. row'[d].state = "Absent" <=> row[d].state = "Absent"
      BY <1>5 DEF MovesAlone, RowsKept, Capture
    <3>2. job[d].target \in Capture \cup {NoEntry}
      BY DEF IInv, TypeInv, Jobs
    <3> QED BY <1>1, <2>1, <2>2, <3>1, <3>2 DEF TargetOf, At, Locked, Over
  <2>4. FoundBy(d)'
    BY <1>1, <2>1, <2>2 DEF FoundBy, At, Locked, Expects, MovesAlone
  <2>5. MissingFor(d)'
    BY <1>1, <2>1, <2>2 DEF MissingFor
  <2> QED BY <2>3, <2>4, <2>5
<1>6. WriterInv'
  BY <1>5 DEF WriterInv
<1>7. OneEntryPerContent'
  BY <1>1 DEF IInv, OneEntryPerContent, MovesAlone
<1> QED BY <1>2, <1>3, <1>4, <1>6, <1>7 DEF IInv

-----------------------------------------------------------------------------
(* The steps of a writer, one by one.                                      *)

LEMMA Goes ==
    ASSUME TypeInv, NEW c \in Capture, NEW at \in Steps, Go(c, at)
    PROVE  /\ job' \in [Capture -> Jobs]
           /\ job'[c] = [job[c] EXCEPT !.at = at]
           /\ \A d \in Capture \ {c} : job'[d] = job[d]
<1>1. job' = [job EXCEPT ![c] = [@ EXCEPT !.at = at]]
  BY DEF Go
<1>2. job \in [Capture -> Jobs] /\ [job[c] EXCEPT !.at = at] \in Jobs
  BY DEF TypeInv, Jobs
<1> QED BY <1>1, <1>2

\* What holds after any step of a writer with the lock that saves no entry.
LEMMA UnderLock ==
    ASSUME IInv, NEW c \in Capture, Locked(c), NEW at \in Steps, Go(c, at),
           UNCHANGED <<worker, entry, deletion>>, misled \subseteq misled',
           row' \in [Rep -> Rows], RowsKept({c})
    PROVE  /\ TypeInv' /\ MovesAlone(c) /\ HasLock(c)
           /\ job'[c] = [job[c] EXCEPT !.at = at]
           /\ job'[c] \in Jobs /\ job[c] \in Jobs
           /\ TargetOf(c) /\ FoundBy(c) /\ MissingFor(c)
           /\ \A h : EntriesOf(h)' = EntriesOf(h)
           /\ \A e : ~Available(e) => ~Available(e)'
           /\ job[c].target # NoEntry =>
                 /\ job'[job[c].target].at \in Ended
                 /\ job'[job[c].target].content = job[c].content
<1>1. /\ job' \in [Capture -> Jobs]
      /\ job'[c] = [job[c] EXCEPT !.at = at]
      /\ \A d \in Capture \ {c} : job'[d] = job[d]
  BY Goes DEF IInv
<1>2. job[c] \in Jobs /\ job'[c].content = job[c].content
  BY <1>1 DEF IInv, TypeInv, Jobs
<1>3. TypeInv'
  BY <1>1 DEF IInv, TypeInv
<1>4. MovesAlone(c)
  BY <1>1 DEF MovesAlone, Over, Locked, Ended
<1>5. HasLock(c)
  BY <1>2 DEF HasLock, IInv, LockInv
<1>6. TargetOf(c) /\ FoundBy(c) /\ MissingFor(c)
  BY DEF IInv, WriterInv
<1>7. /\ \A h : EntriesOf(h)' = EntriesOf(h)
      /\ \A e : ~Available(e) => ~Available(e)'
      /\ \A d \in Capture : Over(d) => job'[d] = job[d]
  BY <1>4, EntriesStay DEF IInv
<1>8. job[c].target \in Capture \cup {NoEntry}
  BY <1>2 DEF Jobs
<1>9. job[c].target # NoEntry =>
         /\ job'[job[c].target].at \in Ended
         /\ job'[job[c].target].content = job[c].content
  BY <1>6, <1>7, <1>8 DEF TargetOf, Over
<1> QED BY <1>1, <1>2, <1>3, <1>4, <1>5, <1>6, <1>7, <1>9

\* A writer that ends.
LEMMA EndKeeps ==
    ASSUME IInv, NEW c \in Capture, ~Over(c), NEW at \in Ended, Go(c, at),
           UNCHANGED <<worker, entry, deletion, misled>>,
           row' \in [Rep -> Rows], RowsKept({})
    PROVE  IInv'
<1>1. at \in Steps
  BY DEF Ended, Steps
<1>2. /\ job' \in [Capture -> Jobs]
      /\ job'[c] = [job[c] EXCEPT !.at = at]
      /\ \A d \in Capture \ {c} : job'[d] = job[d]
  BY <1>1, Goes DEF IInv
<1>3. job'[c].at \in Ended
  BY <1>2 DEF IInv, TypeInv, Jobs
<1>4. TypeInv'
  BY <1>2 DEF IInv, TypeInv
<1>5. MovesAlone(c)
  BY <1>2 DEF MovesAlone, RowsKept
<1>6. ~Locked(c)'
  BY <1>3 DEF Locked, Ended
<1>7. HasLock(c)
  BY <1>6 DEF HasLock
<1>8. TargetOf(c)' /\ FoundBy(c)' /\ MissingFor(c)'
  BY <1>3, <1>6 DEF TargetOf, FoundBy, MissingFor, At, Over, Ended
<1> QED BY <1>4, <1>5, <1>7, <1>8, WriterKeeps

LEMMA RowsUnchanged ==
    ASSUME TypeInv, UNCHANGED row
    PROVE  row' \in [Rep -> Rows] /\ \A S : RowsKept(S)
BY DEF TypeInv, RowsKept

LEMMA CopyKeeps ==
    ASSUME IInv, NEW c \in Capture, NEW h \in Content, NEW o \in {"local", "frame"},
           Copy(c, h, o)
    PROVE  IInv'
<1> DEFINE new == [Idle EXCEPT !.at = "lock", !.content = h, !.origin = o]
<1>1. new \in Jobs /\ new.at = "lock" /\ new.target = NoEntry /\ new.content = h
  BY DEF Idle, Jobs, Steps
<1>2. job' = [job EXCEPT ![c] = new] /\ At(c, "idle")
  BY DEF Copy
<1>3. UNCHANGED <<row, worker, entry, deletion, misled>>
  BY DEF Copy, onlyJob, storeVars, jobRest
<1>4. TypeInv' /\ job'[c] = new /\ RowsKept({c})
  BY <1>1, <1>2, <1>3, RowsUnchanged DEF IInv, TypeInv
<1>5. MovesAlone(c)
  BY <1>2, <1>3, <1>4 DEF MovesAlone, IInv, TypeInv, Over, At, Ended
<1>6. ~Locked(c)'
  BY <1>1, <1>4 DEF Locked
<1>7. HasLock(c)
  BY <1>6 DEF HasLock
<1>8. TargetOf(c)' /\ FoundBy(c)' /\ MissingFor(c)'
  BY <1>1, <1>4, <1>6 DEF TargetOf, FoundBy, MissingFor, At
<1> QED BY <1>4, <1>5, <1>7, <1>8, WriterKeeps

LEMMA LockKeeps ==
    ASSUME IInv, NEW c \in Capture, Lock(c)
    PROVE  IInv'
<1>1. At(c, "lock") /\ Go(c, "lookup") /\ UNCHANGED <<row, worker, entry, deletion, misled>>
  BY DEF Lock, onlyJob, storeVars, jobRest
<1>2. /\ job' \in [Capture -> Jobs]
      /\ job'[c] = [job[c] EXCEPT !.at = "lookup"]
      /\ \A d \in Capture \ {c} : job'[d] = job[d]
  BY <1>1, Goes DEF IInv, Steps
<1>3. TypeInv' /\ RowsKept({c})
  BY <1>1, <1>2, RowsUnchanged DEF IInv, TypeInv
<1>4. MovesAlone(c)
  BY <1>1, <1>2, <1>3 DEF MovesAlone, Over, At, Ended
<1>5. /\ job'[c].at = "lookup" /\ job'[c].content = job[c].content
      /\ job'[c].target = NoEntry /\ job'[c].content \in Content
  BY <1>1, <1>2 DEF IInv, TypeInv, Jobs, WriterInv, TargetOf, At, Over, Ended
<1>6. HasLock(c)
  BY <1>5 DEF HasLock, Lock
<1>7. TargetOf(c)' /\ FoundBy(c)' /\ MissingFor(c)'
  BY <1>5 DEF TargetOf, FoundBy, MissingFor, At
<1> QED BY <1>3, <1>4, <1>6, <1>7, WriterKeeps

\* The look-up finds the one entry of its content, unless it was misled.
LEMMA LookupFindsKeeps ==
    ASSUME IInv, NEW c \in Capture, LookupFinds(c)
    PROVE  IInv'
<1> DEFINE h == job[c].content
<1>0. PICK v \in EventsOf(h) : \E e \in EntryOfEvent(v) :
         job' = [job EXCEPT ![c].target = e,
                            ![c].at = IF job[c].origin = "local"
                                      THEN "touch" ELSE "held"]
  BY DEF LookupFinds
<1>1. PICK e \in EntryOfEvent(v) :
         job' = [job EXCEPT ![c].target = e,
                            ![c].at = IF job[c].origin = "local"
                                      THEN "touch" ELSE "held"]
  BY <1>0
<1>2. At(c, "lookup") /\ UNCHANGED <<row, worker, entry, deletion, misled>>
  BY DEF LookupFinds, onlyJob, storeVars, jobRest
<1>3. /\ e \in LiveEntries /\ e \in Capture /\ entry[e] = v /\ v \in Capture
      /\ job[v].content = h
  BY <1>1 DEF EntryOfEvent, EventsOf, LiveEntries
<1>4. Over(e) /\ job[e].content = h /\ e # NoEntry
  BY <1>3, StoreAssumption DEF IInv, EntryInv, NoEntry, Capture
<1> DEFINE new == [job[c] EXCEPT !.target = e,
                                 !.at = IF job[c].origin = "local"
                                        THEN "touch" ELSE "held"]
<1>5. job[c] \in Jobs
  BY DEF IInv, TypeInv
<1>6. /\ new \in Jobs /\ new.target = e /\ new.content = h
      /\ new.origin = job[c].origin /\ new.origin \in {"local", "frame"}
      /\ new.at = IF job[c].origin = "local" THEN "touch" ELSE "held"
  BY <1>3, <1>5 DEF Jobs, Steps
<1>7. job' = [job EXCEPT ![c] = new]
  BY <1>1
<1>8. /\ job'[c] = new /\ job' \in [Capture -> Jobs]
      /\ \A d \in Capture \ {c} : job'[d] = job[d]
  BY <1>6, <1>7 DEF IInv, TypeInv
<1>9. TypeInv' /\ RowsKept({c})
  BY <1>2, <1>8, RowsUnchanged DEF IInv, TypeInv
<1>10. MovesAlone(c)
  BY <1>2, <1>8, <1>9 DEF MovesAlone, Over, At, Ended
<1>11. Locked(c) /\ HasLock(c)
  BY <1>2, <1>6, <1>8 DEF HasLock, IInv, LockInv, Locked, At, Ended
<1>12. \A g : EntriesOf(g)' = EntriesOf(g)
  BY <1>10, EntriesStay DEF IInv
<1>13. e \in EntriesOf(h)
  BY <1>3 DEF EntriesOf, ContentOf
<1>14. h \in Content \ misled => EntriesOf(h) \subseteq {e}
  BY <1>13 DEF IInv, OneEntryPerContent
<1>15. h \in Content
  BY <1>2 DEF IInv, WriterInv, TargetOf, At, Over, Ended
<1>16. job'[e].at \in Ended /\ job'[e].content = h
  BY <1>3, <1>4, <1>10, EntriesStay DEF IInv, Over
<1>17. TargetOf(c)'
  BY <1>4, <1>6, <1>8, <1>15, <1>16 DEF TargetOf, At, Over
<1>18. FoundBy(c)'
  BY <1>2, <1>6, <1>8, <1>12, <1>14, <1>15 DEF FoundBy, Expects
<1>19. MissingFor(c)'
  BY <1>6, <1>8 DEF MissingFor
<1> QED BY <1>9, <1>10, <1>11, <1>17, <1>18, <1>19, WriterKeeps

\* Steps from the look-up on that create: no entry was found.
LEMMA NotFoundKeeps ==
    ASSUME IInv, NEW c \in Capture, At(c, "lookup"), NotFound(c),
           UNCHANGED <<row, worker, entry, deletion>>, misled \subseteq misled',
           EntriesOf(job[c].content) = {} \/ job[c].content \in misled'
    PROVE  IInv'
<1> DEFINE at == IF job[c].origin = "local" THEN "insert" ELSE "fetch"
<1>1. Locked(c) /\ at \in Steps /\ Go(c, at)
  BY DEF At, Locked, Ended, Steps, NotFound
<1>2. row' \in [Rep -> Rows] /\ RowsKept({c})
  BY RowsUnchanged DEF IInv
<1>3. /\ TypeInv' /\ MovesAlone(c) /\ HasLock(c)
      /\ job'[c] = [job[c] EXCEPT !.at = at]
      /\ job[c] \in Jobs
      /\ TargetOf(c)
      /\ \A h : EntriesOf(h)' = EntriesOf(h)
  BY <1>1, <1>2, UnderLock
<1>4. /\ job'[c].at = at /\ job'[c].target = NoEntry
      /\ job'[c].content = job[c].content
      /\ job'[c].origin = job[c].origin
      /\ job[c].origin \in {"local", "frame"}
  BY <1>3 DEF Jobs, TargetOf, At
<1>5. ~Replaces(c)'
  BY <1>4 DEF Replaces
<1>6. TargetOf(c)'
  BY <1>3, <1>4, <1>5 DEF TargetOf, At, Over, Ended
<1>7. FoundBy(c)'
  BY <1>3, <1>4 DEF FoundBy
<1>8. MissingFor(c)'
  BY <1>5 DEF MissingFor
<1> QED BY <1>3, <1>6, <1>7, <1>8, WriterKeeps

LEMMA LookupKeeps ==
    ASSUME IInv, NEW c \in Capture,
           \/ LookupFinds(c) \/ LookupMisses(c)
           \/ LookupStrays(c) \/ LookupFails(c)
    PROVE  IInv'
<1>1. CASE LookupFinds(c)
  BY <1>1, LookupFindsKeeps
<1>2. CASE LookupMisses(c)
  <2>1. UNCHANGED <<row, worker, entry, deletion, misled>>
    BY <1>2 DEF LookupMisses, onlyJob, storeVars, jobRest
  <2>2. \A e \in EntriesOf(job[c].content) : entry[e] \in EventsOf(job[c].content)
    BY DEF IInv, EntryInv, EntriesOf, EventsOf, ContentOf
  <2>3. EntriesOf(job[c].content) = {}
    BY <1>2, <2>2 DEF LookupMisses
  <2> QED BY <1>2, <2>1, <2>3, NotFoundKeeps DEF LookupMisses
<1>3. CASE LookupStrays(c)
  <2>1. UNCHANGED <<row, worker, entry, deletion>>
    BY <1>3 DEF LookupStrays, storeVars
  <2> QED BY <1>3, <2>1, NotFoundKeeps DEF LookupStrays, Misses
<1>4. CASE LookupFails(c)
  <2>1. UNCHANGED <<row, worker, entry, deletion>> /\ At(c, "lookup")
    BY <1>4 DEF LookupFails, storeRest
  <2>2. CASE job[c].origin = "local"
    <3>1. NotFound(c) /\ Misses(c)
      BY <1>4, <2>2 DEF LookupFails, NotFound
    <3> QED BY <2>1, <3>1, NotFoundKeeps DEF Misses
  <2>3. CASE job[c].origin # "local"
    <3>1. Go(c, "done") /\ UNCHANGED misled
      BY <1>4, <2>3 DEF LookupFails
    <3> QED BY <2>1, <3>1, EndKeeps, RowsUnchanged DEF IInv, At, Over, Ended
  <2> QED BY <2>2, <2>3
<1> QED BY <1>1, <1>2, <1>3, <1>4

\* A local copy whose entry vanished, or could not be touched, creates one.
LEMMA CreatesAfterTouch ==
    ASSUME IInv, NEW c \in Capture, At(c, "touch"), Go(c, "insert"),
           UNCHANGED <<row, worker, entry, deletion>>, misled \subseteq misled',
           \/ ~Live(job[c].target) \/ EntriesOf(job[c].content) = {}
           \/ job[c].content \in misled'
    PROVE  IInv'
<1>1. Locked(c) /\ "insert" \in Steps
  BY DEF At, Locked, Ended, Steps
<1>2. row' \in [Rep -> Rows] /\ RowsKept({c})
  BY RowsUnchanged DEF IInv
<1>3. /\ TypeInv' /\ MovesAlone(c) /\ HasLock(c)
      /\ job'[c] = [job[c] EXCEPT !.at = "insert"]
      /\ job[c] \in Jobs
      /\ TargetOf(c) /\ FoundBy(c)
      /\ \A h : EntriesOf(h)' = EntriesOf(h)
      /\ job[c].target # NoEntry =>
            /\ job'[job[c].target].at \in Ended
            /\ job'[job[c].target].content = job[c].content
  BY <1>1, <1>2, UnderLock
<1>4. /\ job'[c].at = "insert" /\ job'[c].target = job[c].target
      /\ job'[c].content = job[c].content
      /\ job'[c].origin = job[c].origin
  BY <1>3 DEF Jobs
<1>5. job[c].origin = "local" /\ ~Replaces(c)'
  BY <1>3, <1>4 DEF TargetOf, Replaces
<1>6. TargetOf(c)'
  BY <1>3, <1>4, <1>5 DEF TargetOf, At, Over, Ended
<1>7. FoundBy(c)'
  <2>1. ASSUME job[c].content \notin misled'
        PROVE  EntriesOf(job[c].content) = {}
    <3>1. EntriesOf(job[c].content) \subseteq {job[c].target}
      BY <1>1, <1>3, <2>1 DEF FoundBy, Expects, At
    <3> QED BY <2>1, <3>1 DEF EntriesOf, LiveEntries
  <2> QED BY <1>3, <1>4, <2>1 DEF FoundBy
<1>8. MissingFor(c)'
  BY <1>5 DEF MissingFor
<1> QED BY <1>3, <1>6, <1>7, <1>8, WriterKeeps

LEMMA TouchKeeps ==
    ASSUME IInv, NEW c \in Capture, Touch(c) \/ TouchFails(c)
    PROVE  IInv'
<1>1. At(c, "touch") /\ UNCHANGED <<row, worker, entry, deletion>>
  BY DEF Touch, TouchFails, onlyJob, storeVars, storeRest, jobRest
<1>2. CASE Touch(c) /\ Live(job[c].target)
  BY <1>1, <1>2, EndKeeps, RowsUnchanged
     DEF Touch, onlyJob, jobRest, IInv, At, Over, Ended
<1>3. CASE Touch(c) /\ ~Live(job[c].target)
  BY <1>1, <1>3, CreatesAfterTouch DEF Touch, onlyJob, jobRest
<1>4. CASE TouchFails(c)
  BY <1>1, <1>4, CreatesAfterTouch DEF TouchFails, Misses
<1> QED BY <1>2, <1>3, <1>4

\* A frame goes on from the availability check, or ends at one of its exits.
LEMMA CheckHeldKeeps ==
    ASSUME IInv, NEW c \in Capture, CheckHeld(c)
    PROVE  IInv'
<1>1. At(c, "held") /\ UNCHANGED <<row, worker, entry, deletion, misled>>
  BY DEF CheckHeld, storeRest, jobRest
<1>2. PICK at \in {"fetch", "resurface"} :
         Go(c, at) /\ (at = "fetch" => ~Available(job[c].target))
  BY DEF CheckHeld
<1>3. Locked(c) /\ at \in Steps
  BY <1>1 DEF At, Locked, Ended, Steps
<1>4. row' \in [Rep -> Rows] /\ RowsKept({c})
  BY <1>1, RowsUnchanged DEF IInv
<1>5. /\ TypeInv' /\ MovesAlone(c) /\ HasLock(c)
      /\ job'[c] = [job[c] EXCEPT !.at = at]
      /\ job[c] \in Jobs
      /\ TargetOf(c) /\ FoundBy(c)
      /\ \A h : EntriesOf(h)' = EntriesOf(h)
      /\ \A e : ~Available(e) => ~Available(e)'
      /\ job[c].target # NoEntry =>
            /\ job'[job[c].target].at \in Ended
            /\ job'[job[c].target].content = job[c].content
  BY <1>1, <1>2, <1>3, <1>4, UnderLock
<1>6. /\ job'[c].at = at /\ job'[c].target = job[c].target
      /\ job'[c].content = job[c].content
      /\ job'[c].origin = job[c].origin
  BY <1>5 DEF Jobs
<1>7. job[c].origin = "frame" /\ job[c].target # NoEntry /\ Replaces(c)'
  BY <1>1, <1>5, <1>6 DEF TargetOf, Replaces, At
<1>8. TargetOf(c)'
  BY <1>1, <1>5, <1>6, <1>7 DEF TargetOf, At, Over, Ended
<1>9. FoundBy(c)'
  BY <1>1, <1>3, <1>5, <1>6, <1>7 DEF FoundBy, Expects, At
<1>10. MissingFor(c)'
  BY <1>2, <1>5, <1>6 DEF MissingFor
<1> QED BY <1>5, <1>8, <1>9, <1>10, WriterKeeps

LEMMA ExitsKeep ==
    ASSUME IInv, NEW c \in Capture,
           \/ RapidDuplicate(c) \/ Resurface(c) \/ ResurfaceFails(c)
           \/ FetchFails(c) \/ ReplaceVanished(c) \/ StoreFails(c)
    PROVE  IInv'
<1>1. ~Over(c) /\ UNCHANGED <<worker, entry, deletion, misled>>
  BY DEF RapidDuplicate, Resurface, ResurfaceFails, FetchFails, ReplaceVanished,
     StoreFails, At, Over, Ended, onlyJob, storeVars, storeRest, jobRest
<1>2. \E at \in Ended : Go(c, at)
  BY DEF RapidDuplicate, Resurface, ResurfaceFails, FetchFails, ReplaceVanished,
     StoreFails, Ended
<1>3. row' \in [Rep -> Rows] /\ RowsKept({})
  <2>1. CASE UNCHANGED row
    BY <2>1, RowsUnchanged DEF IInv
  <2>2. CASE \E r : Swap(r, Pending \cup {"Failed"}, "Lost")
    BY <2>2, SwapKeeps DEF IInv, Pending
  <2> QED
    BY <2>1, <2>2 DEF RapidDuplicate, Resurface, ResurfaceFails, FetchFails,
       ReplaceVanished, StoreFails, onlyJob, storeVars
<1> QED BY <1>1, <1>2, <1>3, EndKeeps

\* A partial delivery, or a whole one, for a new entry or an upgrade.
LEMMA FetchKeeps ==
    ASSUME IInv, NEW c \in Capture, Fetch(c)
    PROVE  IInv'
<1> DEFINE at(w) == IF job[c].target = NoEntry THEN "insert"
                    ELSE IF w THEN "cache" ELSE "done"
           new(w) == [job[c] EXCEPT !.whole = w, !.at = at(w)]
<1>1. At(c, "fetch") /\ UNCHANGED <<row, worker, entry, deletion, misled>>
  BY DEF Fetch, onlyJob, storeVars, jobRest
<1>2. PICK w \in BOOLEAN : job' = [job EXCEPT ![c] = new(w)]
  BY DEF Fetch
<1>3. job[c] \in Jobs /\ TargetOf(c) /\ FoundBy(c) /\ MissingFor(c)
  BY DEF IInv, TypeInv, WriterInv
<1>4. /\ new(w) \in Jobs /\ new(w).at = at(w)
      /\ new(w).target = job[c].target /\ new(w).content = job[c].content
      /\ new(w).origin = job[c].origin
  BY <1>3 DEF Jobs, Steps
<1>5. /\ job' \in [Capture -> Jobs] /\ job'[c] = new(w)
      /\ \A d \in Capture \ {c} : job'[d] = job[d]
  BY <1>2, <1>4 DEF IInv, TypeInv
<1>6. TypeInv' /\ RowsKept({c})
  BY <1>1, <1>5, RowsUnchanged DEF IInv, TypeInv
<1>7. MovesAlone(c)
  BY <1>1, <1>5, <1>6 DEF MovesAlone, Over, At, Ended
<1>8. Locked(c) /\ HasLock(c)
  BY <1>1, <1>4, <1>5 DEF HasLock, IInv, LockInv, Locked, At, Ended
<1>9. /\ \A h : EntriesOf(h)' = EntriesOf(h)
      /\ \A e : ~Available(e) => ~Available(e)'
      /\ \A d \in Capture : Over(d) => job'[d] = job[d]
  BY <1>7, EntriesStay DEF IInv
<1>10. job[c].origin = "frame" /\ job[c].target \in Capture \cup {NoEntry}
  BY <1>1, <1>3 DEF TargetOf, At, Jobs
<1>11. Replaces(c)' <=> Replaces(c)
  BY <1>4, <1>5 DEF Replaces
<1>12. job[c].target # NoEntry =>
          /\ job'[job[c].target].at \in Ended
          /\ job'[job[c].target].content = job[c].content
  BY <1>3, <1>8, <1>9, <1>10 DEF TargetOf, Over
<1>13. TargetOf(c)'
  <2>1. job[c].content \in Content
    BY <1>1, <1>3 DEF TargetOf, At, Over, Ended
  <2> QED BY <1>4, <1>5, <1>10, <1>12, <2>1 DEF TargetOf, Replaces, At, Over
<1>14. FoundBy(c)'
  BY <1>1, <1>3, <1>4, <1>5, <1>8, <1>9, <1>11 DEF FoundBy, Expects, At
<1>15. MissingFor(c)'
  BY <1>1, <1>3, <1>4, <1>5, <1>9, <1>11 DEF MissingFor, At
<1> QED BY <1>6, <1>7, <1>8, <1>13, <1>14, <1>15, WriterKeeps

\* What a writer does between the fetch and the commit; only the row of a new
\* event may appear.
LEMMA WritingKeeps ==
    ASSUME IInv, NEW c \in Capture,
           job[c].at \in {"insert", "cache", "spool"},
           NEW at \in {"cache", "spool", "save"}, Go(c, at),
           UNCHANGED <<worker, entry, deletion, misled>>,
           row' \in [Rep -> Rows], RowsKept({c}),
           row'[c].state # "Absent" \/ (row' = row /\ ~At(c, "insert"))
    PROVE  IInv'
<1>1. Locked(c) /\ at \in Steps
  BY DEF Locked, Ended, Steps
<1>2. /\ TypeInv' /\ MovesAlone(c) /\ HasLock(c)
      /\ job'[c] = [job[c] EXCEPT !.at = at]
      /\ job[c] \in Jobs
      /\ TargetOf(c) /\ FoundBy(c) /\ MissingFor(c)
      /\ \A h : EntriesOf(h)' = EntriesOf(h)
      /\ \A e : ~Available(e) => ~Available(e)'
      /\ job[c].target # NoEntry =>
            /\ job'[job[c].target].at \in Ended
            /\ job'[job[c].target].content = job[c].content
  BY <1>1, UnderLock
<1>3. /\ job'[c].at = at /\ job'[c].target = job[c].target
      /\ job'[c].content = job[c].content
      /\ job'[c].origin = job[c].origin
  BY <1>2 DEF Jobs
<1>4. Replaces(c)' <=> Replaces(c)
  BY <1>3 DEF Replaces
<1>5. TargetOf(c)'
  <2>1. job[c].content \in Content
    BY <1>2 DEF TargetOf, At, Over, Ended
  <2>2. ~Replaces(c) => row'[c].state # "Absent"
    BY <1>2 DEF TargetOf, At
  <2> QED BY <1>2, <1>3, <1>4, <2>1, <2>2 DEF TargetOf, At, Over
<1>6. FoundBy(c)'
  BY <1>1, <1>2, <1>3, <1>4 DEF FoundBy, Expects, At
<1>7. MissingFor(c)'
  BY <1>2, <1>3, <1>4 DEF MissingFor, TargetOf, At
<1> QED BY <1>2, <1>5, <1>6, <1>7, WriterKeeps

LEMMA WriteKeeps ==
    ASSUME IInv, NEW c \in Capture, Insert(c) \/ Cache(c) \/ Spool(c)
    PROVE  IInv'
<1>1. UNCHANGED <<worker, entry, deletion, misled>>
  BY DEF Insert, Cache, Spool, storeRest, jobRest
<1>2. CASE Insert(c)
  <2>1. PICK s \in {"Staged", "Placeholder"} : row' = [row EXCEPT ![c] = Row(s)]
    BY <1>2 DEF Insert
  <2>2. Row(s) \in Rows /\ Row(s).state # "Absent"
    BY DEF Row, Rows, PayloadState, Pending, Bytes
  <2>3. /\ row' \in [Rep -> Rows] /\ RowsKept({c})
        /\ row'[c].state # "Absent"
    BY <2>1, <2>2 DEF RowsKept, IInv, TypeInv, Capture
  <2>4. PICK at \in {"cache", "spool", "save"} : Go(c, at)
    BY <1>2 DEF Insert
  <2>5. job[c].at \in {"insert", "cache", "spool"}
    BY <1>2 DEF Insert, At
  <2>6. row'[c].state # "Absent" \/ (row' = row /\ ~At(c, "insert"))
    BY <2>3
  <2>7. row' \in [Rep -> Rows] /\ RowsKept({c})
    BY <2>3
  <2> QED BY <1>1, <2>4, <2>5, <2>6, <2>7, WritingKeeps
<1>3. CASE Cache(c) \/ Spool(c)
  <2>1. /\ row' = row /\ job[c].at \in {"cache", "spool"} /\ ~At(c, "insert")
        /\ \E at \in {"cache", "spool", "save"} : Go(c, at)
    BY <1>3 DEF Cache, Spool, At
  <2>2. row' \in [Rep -> Rows] /\ RowsKept({c})
    BY <2>1, RowsUnchanged DEF IInv
  <2> QED BY <1>1, <2>1, <2>2, WritingKeeps
<1> QED BY <1>2, <1>3

\* What a save leaves of the other writers: they have other contents.
LEMMA OthersKeep ==
    ASSUME IInv, NEW c \in Capture, At(c, "save"), TypeInv',
           \A d \in Capture \ {c} : job'[d] = job[d],
           \A d \in Capture \ {c} : ~Over(d) => row'[d] = row[d],
           UNCHANGED misled,
           \A h : h # job[c].content => EntriesOf(h)' = EntriesOf(h),
           \A e \in Capture :
              Over(e) /\ e # c /\ ~Available(e) /\ Available(e)' =>
                 job[e].content = job[c].content,
           NEW d \in Capture, d # c
    PROVE  TargetOf(d)' /\ FoundBy(d)' /\ MissingFor(d)'
<1>1. Locked(c) /\ ~Over(c)
  BY DEF At, Locked, Over, Ended
<1>2. job'[d] = job[d] /\ (Replaces(d)' <=> Replaces(d)) /\ (Locked(d)' <=> Locked(d))
  BY DEF Replaces, Locked
<1>3. Locked(d) => job[d].content # job[c].content
  BY <1>1 DEF IInv, LockInv
<1>4. TargetOf(d) /\ FoundBy(d) /\ MissingFor(d)
  BY DEF IInv, WriterInv
<1>5. job[d].target \in Capture \cup {NoEntry}
  BY DEF IInv, TypeInv, Jobs
<1>6. \A e \in Capture : Over(e) => e # c /\ job'[e] = job[e]
  BY <1>1
<1>7. TargetOf(d)'
  BY <1>2, <1>4, <1>5, <1>6 DEF TargetOf, At, Locked, Over, Ended
<1>8. FoundBy(d)'
  BY <1>2, <1>3, <1>4 DEF FoundBy, Expects, At
<1>9. MissingFor(d)'
  <2>1. SUFFICES ASSUME job[d].at \in {"fetch", "cache", "spool", "save"}, Replaces(d)
                 PROVE  ~Available(job[d].target)'
    BY <1>2 DEF MissingFor
  <2>2. Locked(d) /\ job[d].target # NoEntry /\ ~Available(job[d].target)
    BY <1>4, <2>1 DEF MissingFor, Replaces, Locked, Ended
  <2>3. /\ job[d].target \in Capture /\ Over(job[d].target)
        /\ job[job[d].target].content = job[d].content
    BY <1>4, <1>5, <2>2 DEF TargetOf
  <2> QED BY <1>2, <1>3, <1>6, <2>2, <2>3
<1> QED BY <1>7, <1>8, <1>9

\* What a save of c does to the jobs.
LEMMA SaveEnds ==
    ASSUME IInv, NEW c \in Capture, At(c, "save"), NEW at \in Ended, Go(c, at)
    PROVE  /\ Locked(c) /\ ~Over(c) /\ Over(c)' /\ ~Locked(c)'
           /\ job' \in [Capture -> Jobs]
           /\ job'[c].content = job[c].content
           /\ \A d \in Capture \ {c} : job'[d] = job[d]
           /\ \A d \in Capture : Over(d) => d # c /\ job'[d] = job[d]
           /\ TargetOf(c)' /\ FoundBy(c)' /\ MissingFor(c)'
           /\ c # NoEntry
           /\ \A e \in LiveEntries : entry[e] # c /\ e # c
<1>1. Locked(c) /\ ~Over(c) /\ at \in Steps
  BY DEF At, Locked, Over, Ended, Steps
<1>2. /\ job' \in [Capture -> Jobs]
      /\ job'[c] = [job[c] EXCEPT !.at = at]
      /\ \A d \in Capture \ {c} : job'[d] = job[d]
  BY <1>1, Goes DEF IInv
<1>3. job'[c].at \in Ended /\ job'[c].content = job[c].content
  BY <1>2 DEF IInv, TypeInv, Jobs
<1>4. Over(c)' /\ ~Locked(c)'
  BY <1>3 DEF Over, Locked
<1>5. TargetOf(c)' /\ FoundBy(c)' /\ MissingFor(c)'
  BY <1>3, <1>4 DEF TargetOf, FoundBy, MissingFor, At, Over, Ended
<1>6. c # NoEntry
  BY StoreAssumption DEF NoEntry, Capture
<1>7. \A e \in LiveEntries : entry[e] # c /\ e # c
  BY <1>1 DEF IInv, EntryInv
<1> QED BY <1>1, <1>2, <1>3, <1>4, <1>5, <1>6, <1>7

\* A new entry: under the lock, its content had none, unless it was misled.
LEMMA SaveKeeps ==
    ASSUME IInv, NEW c \in Capture, Save(c)
    PROVE  IInv'
<1>1. /\ At(c, "save") /\ ~Replaces(c) /\ entry' = [entry EXCEPT ![c] = c]
      /\ UNCHANGED <<row, worker, deletion, misled>>
      /\ \E at \in Ended : Go(c, at)
  BY DEF Save, storeVars, Ended
<1>2. /\ Locked(c) /\ ~Over(c) /\ Over(c)' /\ ~Locked(c)'
      /\ job' \in [Capture -> Jobs]
      /\ job'[c].content = job[c].content
      /\ \A d \in Capture \ {c} : job'[d] = job[d]
      /\ \A d \in Capture : Over(d) => d # c /\ job'[d] = job[d]
      /\ TargetOf(c)' /\ FoundBy(c)' /\ MissingFor(c)'
      /\ c # NoEntry
      /\ \A e \in LiveEntries : entry[e] # c /\ e # c
  BY <1>1, SaveEnds
<1>3. TypeInv'
  BY <1>1, <1>2 DEF IInv, TypeInv
<1>4. /\ LiveEntries' = LiveEntries \cup {c} /\ entry'[c] = c
      /\ \A e \in LiveEntries : entry'[e] = entry[e] /\ e # c
      /\ \A e \in Capture \ {c} : entry'[e] = entry[e]
  BY <1>1, <1>2 DEF IInv, TypeInv, LiveEntries, Live
<1>5. EntryInv'
  <2>1. row'[c].state # "Absent"
    BY <1>1 DEF IInv, WriterInv, TargetOf, At
  <2>2. ASSUME NEW e \in LiveEntries
        PROVE  /\ entry'[e] \in Capture
               /\ Over(e)' /\ job'[e] = job[e]
               /\ job'[entry[e]].at \in Ended
               /\ job'[entry[e]].content = job[e].content
               /\ row'[entry[e]].state # "Absent"
               /\ \A d \in LiveEntries : entry[d] = entry[e] => d = e
    BY <1>1, <1>2, <1>4 DEF IInv, EntryInv, LiveEntries, Over
  <2>3. ASSUME NEW e \in LiveEntries'
        PROVE  /\ entry'[e] \in Capture
               /\ Over(e)' /\ job'[entry'[e]].at \in Ended
               /\ job'[entry'[e]].content = job'[e].content
               /\ row'[entry'[e]].state # "Absent"
               /\ \A d \in LiveEntries' : entry'[d] = entry'[e] => d = e
    <3>1. CASE e = c
      BY <1>2, <1>4, <2>1, <3>1 DEF Over
    <3>2. CASE e \in LiveEntries
      BY <1>2, <1>4, <2>2, <3>2
    <3> QED BY <1>4, <3>1, <3>2
  <2> QED BY <2>3 DEF EntryInv, Over
<1>6. DeletionInv'
  BY <1>1, <1>2, <1>4 DEF IInv, DeletionInv, Over
<1>7. LockInv'
  BY <1>2 DEF IInv, LockInv, Locked
<1>8. /\ \A h : EntriesOf(h)' \subseteq EntriesOf(h) \cup {c}
      /\ \A h : h # job[c].content => EntriesOf(h)' = EntriesOf(h)
  <2>1. ContentOf(c)' = job[c].content
    BY <1>2, <1>4 DEF ContentOf
  <2>2. \A e \in LiveEntries : ContentOf(e)' = ContentOf(e)
    BY <1>2, <1>4 DEF IInv, EntryInv, ContentOf
  <2> QED BY <1>2, <1>4, <2>1, <2>2 DEF EntriesOf
<1>9. WriterInv'
  <2>1. \A e \in Capture : Available(e)' /\ e # c => Available(e)
    BY <1>1, <1>4 DEF Available, Live
  <2>2. ASSUME NEW d \in Capture, d # c
        PROVE  TargetOf(d)' /\ FoundBy(d)' /\ MissingFor(d)'
    BY <1>1, <1>2, <1>3, <1>8, <2>1, <2>2, OthersKeep
  <2> QED BY <1>2, <2>2 DEF WriterInv
<1>10. OneEntryPerContent'
  <2>1. job[c].content \notin misled => EntriesOf(job[c].content) = {}
    BY <1>1, <1>2 DEF IInv, WriterInv, FoundBy, Expects, At
  <2> QED BY <1>1, <1>8, <2>1 DEF IInv, OneEntryPerContent
<1> QED BY <1>3, <1>5, <1>6, <1>7, <1>9, <1>10 DEF IInv

\* An upgrade: the entry has a new event, of the same content, and another
\* writer of this content is not there to expect the old one.
LEMMA ReplaceKeeps ==
    ASSUME IInv, NEW c \in Capture, Replace(c)
    PROVE  IInv'
<1>0. PICK e, v : e = job[c].target /\ v = entry[e]
  OBVIOUS
<1>1. /\ At(c, "save") /\ Replaces(c) /\ Live(e)
      /\ entry' = [entry EXCEPT ![e] = c]
      /\ row' = [row EXCEPT ![c] = Row("Staged"), ![v] = Row("Absent")]
      /\ UNCHANGED <<worker, deletion, misled>>
      /\ \E at \in Ended : Go(c, at)
  BY <1>0 DEF Replace, storeRest, Ended
<1>2. /\ Locked(c) /\ ~Over(c) /\ Over(c)' /\ ~Locked(c)'
      /\ job' \in [Capture -> Jobs]
      /\ job'[c].content = job[c].content
      /\ \A d \in Capture \ {c} : job'[d] = job[d]
      /\ \A d \in Capture : Over(d) => d # c /\ job'[d] = job[d]
      /\ TargetOf(c)' /\ FoundBy(c)' /\ MissingFor(c)'
      /\ c # NoEntry
      /\ \A f \in LiveEntries : entry[f] # c /\ f # c
  BY <1>1, SaveEnds
<1>3. /\ e \in LiveEntries /\ e \in Capture /\ v \in Capture /\ v # c
      /\ Over(e) /\ Over(v) /\ job[v].content = job[e].content
      /\ \A f \in LiveEntries : entry[f] = v => f = e
  BY <1>0, <1>1, <1>2 DEF IInv, EntryInv, LiveEntries, Live
<1>4. job[e].content = job[c].content
  BY <1>0, <1>1, <1>2, <1>3 DEF IInv, WriterInv, TargetOf, Replaces
<1>5. /\ row' \in [Rep -> Rows] /\ row'[c].state = "Staged"
      /\ \A r \in Rep \ {c, v} : row'[r] = row[r]
  <2>1. Row("Staged") \in Rows /\ Row("Staged").state = "Staged" /\ Row("Absent") \in Rows
    BY DEF Row, Rows, PayloadState, Pending, Bytes
  <2> QED BY <1>1, <1>3, <2>1 DEF IInv, TypeInv, Capture
<1>6. TypeInv'
  BY <1>1, <1>2, <1>5 DEF IInv, TypeInv
<1>7. /\ LiveEntries' = LiveEntries /\ entry'[e] = c
      /\ \A f \in Capture \ {e} : entry'[f] = entry[f]
  BY <1>1, <1>2, <1>3 DEF IInv, TypeInv, LiveEntries, Live
<1>8. \A f \in LiveEntries \ {e} :
         /\ entry'[f] = entry[f] /\ entry[f] \in Capture \ {c, v}
         /\ row'[entry[f]] = row[entry[f]]
  BY <1>2, <1>3, <1>5, <1>7 DEF IInv, EntryInv, LiveEntries, Capture
<1>9. EntryInv'
  <2>1. ASSUME NEW f \in LiveEntries
        PROVE  /\ entry'[f] \in Capture
               /\ Over(f)' /\ job'[entry'[f]].at \in Ended
               /\ job'[entry'[f]].content = job'[f].content
               /\ row'[entry'[f]].state # "Absent"
               /\ \A d \in LiveEntries : entry'[d] = entry'[f] => d = f
    <3>1. CASE f = e
      <4>1. job'[e] = job[e]
        BY <1>2, <1>3
      <4>2. Over(e)'
        BY <1>3, <4>1 DEF Over
      <4>3. \A d \in LiveEntries : entry'[d] = c => d = e
        BY <1>8
      <4> QED BY <1>2, <1>4, <1>5, <1>7, <3>1, <4>1, <4>2, <4>3 DEF Over
    <3>2. CASE f # e
      <4>1. /\ Over(f) /\ Over(entry[f]) /\ f \in Capture
            /\ job[entry[f]].content = job[f].content
            /\ row[entry[f]].state # "Absent"
            /\ \A d \in LiveEntries : entry[d] = entry[f] => d = f
        BY DEF IInv, EntryInv, LiveEntries
      <4> QED BY <1>2, <1>7, <1>8, <3>2, <4>1 DEF Over
    <3> QED BY <3>1, <3>2
  <2> QED BY <1>7, <2>1 DEF EntryInv, Over
<1>10. DeletionInv'
  <2>1. SUFFICES ASSUME deletion.at # "idle"
                 PROVE  DeletionInv'
    BY <1>1 DEF DeletionInv
  <2>2. /\ deletion.entry \in Capture /\ deletion.event \in Capture
        /\ Over(deletion.event)
        /\ \A f \in LiveEntries :
              entry[f] = deletion.event => deletion.at = "entry" /\ f = deletion.entry
    BY <2>1 DEF IInv, DeletionInv
  <2>3. deletion.event # c /\ Over(deletion.event)'
    BY <1>1, <1>2, <2>2 DEF Over
  <2> QED BY <1>1, <1>7, <1>8, <2>2, <2>3 DEF DeletionInv, Over
<1>11. LockInv'
  BY <1>2 DEF IInv, LockInv, Locked
<1>12. \A h : EntriesOf(h)' = EntriesOf(h)
  <2>1. ContentOf(e)' = ContentOf(e)
    BY <1>0, <1>2, <1>3, <1>4, <1>7 DEF ContentOf
  <2>2. \A f \in LiveEntries \ {e} : ContentOf(f)' = ContentOf(f)
    BY <1>2, <1>8 DEF ContentOf
  <2> QED BY <1>7, <2>1, <2>2 DEF EntriesOf
<1>13. WriterInv'
  <2>1. \A f \in Capture : Available(f)' /\ f # e => Available(f)
    BY <1>7, <1>8 DEF Available, Live, LiveEntries
  <2>2. \A d \in Capture \ {c} : ~Over(d) => row'[d] = row[d]
    BY <1>3, <1>5 DEF Capture
  <2>3. ASSUME NEW d \in Capture, d # c
        PROVE  TargetOf(d)' /\ FoundBy(d)' /\ MissingFor(d)'
    BY <1>1, <1>2, <1>4, <1>6, <1>12, <2>1, <2>2, <2>3, OthersKeep
  <2> QED BY <1>2, <2>3 DEF WriterInv
<1>14. OneEntryPerContent'
  BY <1>1, <1>12 DEF IInv, OneEntryPerContent
<1> QED BY <1>6, <1>9, <1>10, <1>11, <1>13, <1>14 DEF IInv

LEMMA JobKeeps ==
    ASSUME IInv, NEW c \in Capture, JobNext(c)
    PROVE  IInv'
BY LockKeeps, LookupKeeps, TouchKeeps, CheckHeldKeeps, ExitsKeep, FetchKeeps,
   WriteKeeps, SaveKeeps, ReplaceKeeps DEF JobNext

-----------------------------------------------------------------------------
(* The steps of nobody's capture: deletions, the store, the passing of     *)
(* days, a crash.                                                          *)

\* No writer moves, entries may go, and the rows that entries and writers
\* need are kept.
LEMMA WithoutWriters ==
    ASSUME IInv, TypeInv', DeletionInv', UNCHANGED <<job, misled>>,
           LiveEntries' \subseteq LiveEntries,
           \A e \in LiveEntries' : entry'[e] = entry[e],
           NEW S, RowsKept(S),
           \A r \in S \cap Capture : Over(r),
           \A e \in LiveEntries' : entry[e] \notin S
    PROVE  IInv'
<1>1. \A e \in LiveEntries : ContentOf(e)' = ContentOf(e) \/ e \notin LiveEntries'
  BY DEF ContentOf
<1>2. \A h : EntriesOf(h)' \subseteq EntriesOf(h)
  BY <1>1 DEF EntriesOf
<1>3. \A e \in LiveEntries' :
         /\ row'[entry[e]].state = "Absent" <=> row[entry[e]].state = "Absent"
         /\ row[entry[e]].state \in Missing => row'[entry[e]].state \in Missing
  BY DEF RowsKept, IInv, EntryInv, Capture
<1>4. \A e : ~Available(e) => ~Available(e)'
  <2>1. SUFFICES ASSUME NEW e, ~Available(e), e \in LiveEntries'
                 PROVE  ~Available(e)'
    BY DEF Available, LiveEntries, Live
  <2>2. Live(e)
    BY <2>1 DEF LiveEntries
  <2>3. row[entry[e]].state \in Missing
    BY <2>1, <2>2 DEF Available, Missing
  <2>4. row'[entry'[e]].state \in Missing
    BY <1>3, <2>1, <2>3
  <2> QED BY <2>4 DEF Available, Missing
<1>5. EntryInv'
  BY <1>3 DEF IInv, EntryInv, Over
<1>6. LockInv'
  BY DEF IInv, LockInv, Locked
<1>7. WriterInv'
  <2>1. ASSUME NEW d \in Capture
        PROVE  TargetOf(d)' /\ FoundBy(d)' /\ MissingFor(d)'
    <3>1. TargetOf(d) /\ FoundBy(d) /\ MissingFor(d)
      BY DEF IInv, WriterInv
    <3>2. ~Over(d) => (row'[d].state = "Absent" <=> row[d].state = "Absent")
      BY DEF RowsKept, Capture
    <3>3. TargetOf(d)'
      BY <3>1, <3>2 DEF TargetOf, At, Locked, Over, Replaces, Ended
    <3>4. FoundBy(d)'
      BY <1>2, <3>1 DEF FoundBy, Expects, At, Locked, Replaces
    <3>5. MissingFor(d)'
      BY <1>4, <3>1 DEF MissingFor, Replaces
    <3> QED BY <3>3, <3>4, <3>5
  <2> QED BY <2>1 DEF WriterInv
<1>8. OneEntryPerContent'
  BY <1>2 DEF IInv, OneEntryPerContent
<1> QED BY <1>5, <1>6, <1>7, <1>8 DEF IInv

LEMMA DeletionKeeps ==
    ASSUME IInv,
           \/ \E e \in Capture : DeleteBegins(e)
           \/ DeleteEntry \/ DeleteEvent \/ DeleteFails
    PROVE  IInv'
<1>1. CASE \E e \in Capture : DeleteBegins(e)
  <2>1. PICK e \in Capture : DeleteBegins(e)
    BY <1>1
  <2>2. /\ e \in LiveEntries
        /\ deletion' = [at |-> "entry", entry |-> e, event |-> entry[e]]
        /\ UNCHANGED <<row, worker, entry, job, misled>>
    BY <2>1 DEF DeleteBegins, LiveEntries, storeVars
  <2>3. /\ entry[e] \in Capture /\ Over(entry[e])
        /\ \A f \in LiveEntries : entry[f] = entry[e] => f = e
    BY <2>2 DEF IInv, EntryInv
  <2>4. TypeInv' /\ RowsKept({})
    BY <2>2, <2>3, RowsUnchanged DEF IInv, TypeInv, Capture
  <2>5. DeletionInv' /\ LiveEntries' = LiveEntries
    BY <2>2, <2>3 DEF DeletionInv, Over, LiveEntries, Live
  <2> QED BY <2>2, <2>4, <2>5, WithoutWriters
<1>2. CASE DeleteEntry
  <2>1. /\ deletion.at = "entry"
        /\ entry' = [entry EXCEPT ![deletion.entry] = NoEntry]
        /\ deletion' = [deletion EXCEPT !.at = "event"]
        /\ UNCHANGED <<row, worker, job, misled>>
    BY <1>2 DEF DeleteEntry, storeVars
  <2>2. /\ deletion.entry \in Capture /\ deletion.event \in Capture
        /\ Over(deletion.event)
        /\ \A e \in LiveEntries : entry[e] = deletion.event => e = deletion.entry
    BY <2>1 DEF IInv, DeletionInv
  <2>3. /\ deletion'.at = "event" /\ deletion'.entry = deletion.entry
        /\ deletion'.event = deletion.event
        /\ deletion' \in [at : {"idle", "entry", "event"},
                           entry : Capture \cup {NoEntry}, event : Rep \cup {NoRep}]
    BY <2>1 DEF IInv, TypeInv
  <2>4. TypeInv' /\ RowsKept({})
    BY <2>1, <2>3, RowsUnchanged DEF IInv, TypeInv
  <2>5. /\ LiveEntries' = LiveEntries \ {deletion.entry}
        /\ \A e \in LiveEntries' : entry'[e] = entry[e]
    BY <2>1, <2>2 DEF IInv, TypeInv, LiveEntries, Live
  <2>6. DeletionInv'
    BY <2>1, <2>2, <2>3, <2>5 DEF DeletionInv, Over
  <2> QED BY <2>1, <2>4, <2>5, <2>6, WithoutWriters
<1>3. CASE DeleteEvent
  <2>1. /\ deletion.at = "event" /\ deletion' = NoDeletion
        /\ row' = [row EXCEPT ![deletion.event] = Row("Absent")]
        /\ UNCHANGED <<worker, entry, job, misled>>
    BY <1>3 DEF DeleteEvent, storeRest
  <2>2. /\ deletion.event \in Capture /\ Over(deletion.event)
        /\ \A e \in LiveEntries : entry[e] # deletion.event
    BY <2>1 DEF IInv, DeletionInv
  <2>3. Row("Absent") \in Rows
    BY DEF Row, Rows, PayloadState, Bytes
  <2>4. TypeInv' /\ RowsKept({deletion.event})
    BY <2>1, <2>2, <2>3 DEF IInv, TypeInv, RowsKept, NoDeletion, NoEntry
  <2>5. DeletionInv' /\ LiveEntries' = LiveEntries
    BY <2>1 DEF DeletionInv, NoDeletion, LiveEntries, Live
  <2> QED BY <2>1, <2>2, <2>4, <2>5, WithoutWriters
<1>4. CASE DeleteFails
  <2>1. deletion' = NoDeletion /\ UNCHANGED <<row, worker, entry, job, misled>>
    BY <1>4 DEF DeleteFails, storeRest
  <2>2. TypeInv' /\ RowsKept({})
    BY <2>1, RowsUnchanged DEF IInv, TypeInv, NoDeletion, NoEntry
  <2>3. DeletionInv' /\ LiveEntries' = LiveEntries
    BY <2>1 DEF DeletionInv, NoDeletion, LiveEntries, Live
  <2> QED BY <2>1, <2>2, <2>3, WithoutWriters
<1> QED BY <1>1, <1>2, <1>3, <1>4

LEMMA RestKeeps ==
    ASSUME IInv, StoreNext \/ DaysPass \/ UNCHANGED vars
    PROVE  IInv'
<1>1. UNCHANGED <<entry, job, deletion, misled>>
  BY DEF StoreNext, IntakeWaits, DaysPass, vars, intakeVars
<1>2. TypeInv' /\ RowsKept({})
  <2>1. CASE StoreNext
    BY <2>1, StoreKeeps DEF IInv
  <2>2. CASE DaysPass \/ UNCHANGED vars
    <3>1. UNCHANGED <<row, worker>>
      BY <2>2 DEF DaysPass, vars, storeVars
    <3> QED BY <1>1, <3>1, RowsUnchanged DEF IInv, TypeInv
  <2> QED BY <2>1, <2>2
<1>3. DeletionInv' /\ LiveEntries' = LiveEntries
  BY <1>1 DEF IInv, DeletionInv, Over, LiveEntries, Live
<1> QED BY <1>1, <1>2, <1>3, WithoutWriters

\* A crash ends every writer and the deletion; entries and rows stay.
LEMMA CrashKeeps ==
    ASSUME IInv, Crash
    PROVE  IInv'
<1>1. /\ worker' = WorkerIdle /\ deletion' = NoDeletion
      /\ UNCHANGED <<row, entry, misled>>
  BY DEF Crash, StoreCrash
<1>2. job' = [c \in Capture |-> IF At(c, "idle") THEN job[c]
                                ELSE [job[c] EXCEPT !.at = "done"]]
  BY DEF Crash
<1>3. ASSUME NEW c \in Capture
      PROVE  /\ job'[c] \in Jobs /\ job'[c].content = job[c].content
             /\ ~At(c, "idle") => job'[c].at = "done"
             /\ At(c, "idle") => job'[c] = job[c]
  BY <1>2 DEF IInv, TypeInv, Jobs, Steps
<1>4. job' \in [Capture -> Jobs]
  BY <1>2, <1>3
<1>5. WorkerIdle \in [at : WorkerSteps, rep : {WorkerIdle.rep},
                      attempt : {WorkerIdle.attempt}, bytes : Bytes]
  BY DEF WorkerIdle, WorkerSteps, Bytes
<1>6. TypeInv'
  BY <1>1, <1>4, <1>5 DEF IInv, TypeInv, NoDeletion, NoEntry
<1>7. \A c \in Capture : Over(c) => Over(c)'
  BY <1>3 DEF Over, At, Ended
<1>8. LiveEntries' = LiveEntries /\ \A h : EntriesOf(h)' = EntriesOf(h)
  BY <1>1, <1>3 DEF IInv, EntryInv, LiveEntries, Live, EntriesOf, ContentOf
<1>9. EntryInv'
  BY <1>1, <1>3, <1>7, <1>8 DEF IInv, EntryInv, LiveEntries
<1>10. DeletionInv'
  BY <1>1 DEF DeletionInv, NoDeletion
<1>11. \A c \in Capture : ~Locked(c)' /\ (Over(c)' \/ (job'[c] = job[c] /\ At(c, "idle")))
  <2>1. ASSUME NEW c \in Capture
        PROVE  ~Locked(c)' /\ (Over(c)' \/ (job'[c] = job[c] /\ At(c, "idle")))
    <3>1. CASE At(c, "idle")
      BY <1>3, <3>1 DEF Locked, At
    <3>2. CASE ~At(c, "idle")
      BY <1>3, <3>2 DEF Locked, Over, Ended
    <3> QED BY <3>1, <3>2
  <2> QED BY <2>1
<1>12. LockInv'
  BY <1>11 DEF LockInv
<1>13. WriterInv'
  <2>1. ASSUME NEW c \in Capture
        PROVE  TargetOf(c)' /\ FoundBy(c)' /\ MissingFor(c)'
    <3>1. At(c, "idle") => job[c].target = NoEntry
      BY DEF IInv, WriterInv, TargetOf, At
    <3>2. job'[c].at \in {"idle"} \cup Ended
      BY <1>11 DEF Over, At
    <3>3. TargetOf(c)'
      BY <1>11, <3>1, <3>2 DEF TargetOf, At, Over, Ended
    <3>4. FoundBy(c)' /\ MissingFor(c)'
      BY <1>11, <3>2 DEF FoundBy, MissingFor, Ended
    <3> QED BY <3>3, <3>4
  <2> QED BY <2>1 DEF WriterInv
<1>14. OneEntryPerContent'
  BY <1>1, <1>8 DEF IInv, OneEntryPerContent
<1> QED BY <1>6, <1>9, <1>10, <1>12, <1>13, <1>14 DEF IInv

-----------------------------------------------------------------------------
(* The theorems.                                                           *)

LEMMA InitIInv == Init => IInv
<1> SUFFICES ASSUME Init PROVE IInv
  OBVIOUS
<1>1. TypeInv
  <2>1. Row("Absent") \in Rows
    BY DEF Row, Rows, PayloadState, Bytes
  <2>2. WorkerIdle \in [at : WorkerSteps, rep : {WorkerIdle.rep},
                        attempt : {WorkerIdle.attempt}, bytes : Bytes]
    BY DEF WorkerIdle, WorkerSteps, Bytes
  <2>3. Idle \in Jobs
    BY DEF Idle, Jobs, Steps
  <2> QED BY <2>1, <2>2, <2>3 DEF Init, StoreInit, TypeInv, NoDeletion, NoEntry
<1>2. LiveEntries = {} /\ deletion.at = "idle"
  BY DEF Init, LiveEntries, Live, NoDeletion
<1>3. \A c \in Capture : job[c].at = "idle" /\ job[c].target = NoEntry
  BY DEF Init, Idle
<1>4. \A c \in Capture : ~Locked(c)
  BY <1>3 DEF Locked
<1>5. WriterInv
  BY <1>3, <1>4 DEF WriterInv, TargetOf, FoundBy, MissingFor, At
<1>6. EntryInv /\ DeletionInv /\ LockInv /\ OneEntryPerContent
  BY <1>2, <1>4 DEF EntryInv, DeletionInv, LockInv, OneEntryPerContent, EntriesOf
<1> QED BY <1>1, <1>5, <1>6 DEF IInv

LEMMA NextIInv == IInv /\ [Next]_vars => IInv'
<1> SUFFICES ASSUME IInv, [Next]_vars PROVE IInv'
  OBVIOUS
<1> QED BY CopyKeeps, JobKeeps, DeletionKeeps, RestKeeps, CrashKeeps DEF Next

\* EntryIdentityCoordinator (entry_identity.rs): for every number of captures,
\* contents and failures, no content whose look-ups all met its entry ever has
\* two entries.
THEOREM OneEntry == Spec => []OneEntryPerContent
<1>1. IInv => OneEntryPerContent
  BY DEF IInv
<1> QED BY <1>1, InitIInv, NextIInv, PTL DEF Spec

\* A step that gives an entry an event: a save, or an upgrade.
LEMMA UpgradeStep ==
    ASSUME IInv, [Next]_vars, NEW e \in Capture, entry'[e] # entry[e], entry'[e] # NoEntry
    PROVE  ~Available(e)
<1>1. CASE \E c \in Capture : Save(c)
  <2>1. PICK c \in Capture : Save(c)
    BY <1>1
  <2>2. At(c, "save") /\ e = c
    BY <2>1 DEF Save, IInv, TypeInv
  <2>3. ~Live(c)
    BY <2>2 DEF IInv, EntryInv, LiveEntries, At, Over, Ended
  <2> QED BY <2>2, <2>3 DEF Available
<1>2. CASE \E c \in Capture : Replace(c)
  <2>1. PICK c \in Capture : Replace(c)
    BY <1>2
  <2>2. At(c, "save") /\ Replaces(c) /\ e = job[c].target
    BY <2>1 DEF Replace, IInv, TypeInv
  <2> QED BY <2>2 DEF IInv, WriterInv, MissingFor, At
<1>3. CASE UNCHANGED entry
  BY <1>3
<1>4. CASE DeleteEntry
  BY <1>4 DEF DeleteEntry, IInv, TypeInv
<1>5. \/ \E c \in Capture : Save(c) \/ Replace(c)
      \/ UNCHANGED entry \/ DeleteEntry
  <2>1. ASSUME NEW c \in Capture, JobNext(c), ~Save(c), ~Replace(c)
        PROVE  UNCHANGED entry
    BY <2>1 DEF JobNext, Lock, LookupFinds, LookupMisses, LookupStrays, LookupFails,
       Touch, TouchFails, CheckHeld, RapidDuplicate, Resurface, ResurfaceFails,
       Fetch, FetchFails, Insert, Cache, Spool, StoreFails, ReplaceVanished,
       onlyJob, jobRest
  <2>2. ASSUME \/ \E c \in Capture, h \in Content, o \in {"local", "frame"} : Copy(c, h, o)
               \/ \E f \in Capture : DeleteBegins(f)
               \/ DeleteEvent \/ DeleteFails \/ DaysPass \/ Crash \/ StoreNext
               \/ UNCHANGED vars
        PROVE  UNCHANGED entry
    BY <2>2 DEF Copy, DeleteBegins, DeleteEvent, DeleteFails, DaysPass, Crash,
       StoreNext, IntakeWaits, vars, intakeVars, onlyJob, jobRest
  <2> QED BY <2>1, <2>2 DEF Next
<1> QED BY <1>1, <1>2, <1>3, <1>4, <1>5

\* apply_inbound: for every number of frames, captures and failures, what an
\* upgrade replaces is missing when it is replaced, however long ago the check
\* was made.
THEOREM UpgradesReplaceTheMissing == Spec => UpgradesOnlyTheMissing
<1>1. IInv /\ [Next]_vars =>
         [\A e \in Capture :
             entry'[e] # entry[e] /\ entry'[e] # NoEntry => ~Available(e)]_vars
  BY UpgradeStep
<1> QED BY <1>1, InitIInv, NextIInv, PTL DEF Spec, UpgradesOnlyTheMissing

-----------------------------------------------------------------------------
(* Sequences of representations.                                           *)

\* A finite set of numbers is counted by its ranks: each number of places is
\* the rank of one of them.
LEMMA RanksCount ==
    ASSUME NEW kept, IsFiniteSet(kept), kept \subseteq Nat
    PROVE  \A k \in 1 .. Cardinality(kept) :
              \E i \in kept : Cardinality({j \in kept : j <= i}) = k
<1> DEFINE Upto(i) == {j \in kept : j <= i}
           ranks == 1 .. Cardinality(kept)
           rank == [i \in kept |-> Cardinality(Upto(i))]
<1>1. ASSUME NEW i \in kept
      PROVE  /\ IsFiniteSet(Upto(i)) /\ Cardinality(Upto(i)) \in ranks
  <2>1. IsFiniteSet(Upto(i)) /\ Cardinality(Upto(i)) <= Cardinality(kept)
    BY FS_Subset
  <2>2. Upto(i) # {}
    BY <1>1
  <2>3. Cardinality(Upto(i)) \in Nat /\ Cardinality(Upto(i)) # 0
        /\ Cardinality(kept) \in Nat
    BY <2>1, <2>2, FS_CardinalityType, FS_EmptySet
  <2> QED BY <2>1, <2>3
<1>2. ASSUME NEW i \in kept, NEW j \in kept, i < j
      PROVE  Cardinality(Upto(i)) # Cardinality(Upto(j))
  <2>1. Upto(i) \in SUBSET Upto(j) /\ j \in Upto(j) /\ j \notin Upto(i)
    <3>1. i \in Nat /\ j \in Nat /\ \A l \in kept : l \in Nat
      OBVIOUS
    <3>2. (\A l \in kept : l <= i => l <= j) /\ j <= j /\ ~ (j <= i)
      BY <1>2, <3>1
    <3> QED BY <3>2, Zenon
  <2> HIDE DEF Upto
  <2> QED BY <1>1, <2>1, FS_Subset
<1>3. rank \in Injection(kept, ranks)
  <2>1. rank \in [kept -> ranks]
    BY <1>1
  <2>2. ASSUME NEW i \in kept, NEW j \in kept, rank[i] = rank[j]
        PROVE  i = j
    <3>1. Cardinality(Upto(i)) = Cardinality(Upto(j))
      BY <2>2
    <3>2. i \in Nat /\ j \in Nat
      OBVIOUS
    <3> HIDE DEF Upto
    <3> QED BY <1>2, <3>1, <3>2
  <2> HIDE DEF rank
  <2> QED BY <2>1, <2>2 DEF Injection, IsInjective
<1>4. IsFiniteSet(ranks) /\ Cardinality(ranks) = Cardinality(kept)
  BY FS_CardinalityType, FS_Interval
<1>5. rank \in Surjection(kept, ranks)
  BY <1>3, <1>4, FS_Injection
<1> QED
  <2>1. ASSUME NEW k \in ranks
        PROVE  \E i \in kept : Cardinality(Upto(i)) = k
    <3>1. \E i \in kept : rank[i] = k
      BY <1>5 DEF Surjection
    <3> QED BY <3>1
  <2> QED BY <2>1

LEMMA WithoutElements ==
    ASSUME NEW E, NEW s \in Seq(E), NEW S
    PROVE  Without(s, S) \in Seq(E) /\ Elements(Without(s, S)) = Elements(s) \ S
<1> DEFINE kept == {i \in DOMAIN s : s[i] \notin S}
           Rank(i) == Cardinality({j \in kept : j <= i})
           Place(k) == CHOOSE i \in kept : Rank(i) = k
           n == Cardinality(kept)
<1>1. DOMAIN s = 1 .. Len(s) /\ Len(s) \in Nat /\ \A i \in DOMAIN s : s[i] \in E
  OBVIOUS
<1>2. kept \subseteq Nat /\ IsFiniteSet(kept) /\ n \in Nat
  <2>1. IsFiniteSet(1 .. Len(s)) /\ kept \in SUBSET (1 .. Len(s))
    BY <1>1, FS_Interval
  <2>2. kept \subseteq Nat
    BY <1>1
  <2> HIDE DEF kept
  <2>3. IsFiniteSet(kept)
    BY <2>1, FS_Subset
  <2> QED BY <2>2, <2>3, FS_CardinalityType
<1>3. \A i \in kept : i \in DOMAIN s /\ s[i] \notin S /\ s[i] \in E
  BY <1>1
<1>4. \A i \in DOMAIN s : s[i] \notin S => i \in kept
  OBVIOUS
<1>5. Without(s, S) = [k \in 1 .. n |-> s[Place(k)]]
  BY DEF Without
<1> HIDE DEF kept
<1>6. \A k \in 1 .. n : Place(k) \in kept /\ Rank(Place(k)) = k
  <2>1. \A k \in 1 .. n : \E i \in kept : Rank(i) = k
    BY <1>2, RanksCount
  <2> HIDE DEF Rank
  <2> QED BY <2>1
<1>7. \A i \in kept : \E k \in 1 .. n : Place(k) = i
  <2>1. ASSUME NEW i \in kept
        PROVE  /\ Rank(i) \in 1 .. n
               /\ \A j \in kept : Rank(j) = Rank(i) => j = i
    <3> DEFINE Upto(j) == {l \in kept : l <= j}
    <3>1. \A j \in kept : j \in Nat /\ j \in Upto(j)
      BY <1>2
    <3>2. ASSUME NEW j \in kept
          PROVE  IsFiniteSet(Upto(j)) /\ Cardinality(Upto(j)) \in Nat
                 /\ Cardinality(Upto(j)) <= n
      BY <1>2, FS_Subset, FS_CardinalityType
    <3>3. Cardinality(Upto(i)) # 0
      BY <3>1, <3>2, FS_EmptySet
    <3>4. ASSUME NEW j \in kept, Rank(j) = Rank(i)
          PROVE  j = i
      <4>1. Upto(i) \subseteq Upto(j) \/ Upto(j) \subseteq Upto(i)
        BY <3>1
      <4>2. Upto(i) = Upto(j)
        <5>1. IsFiniteSet(Upto(i)) /\ IsFiniteSet(Upto(j))
          BY <3>2
        <5>2. Cardinality(Upto(i)) = Cardinality(Upto(j))
          BY <3>4
        <5> HIDE DEF Upto
        <5> QED BY <4>1, <5>1, <5>2, FS_Subset
      <4> QED BY <3>1, <4>2
    <3>5. Rank(i) = Cardinality(Upto(i))
      OBVIOUS
    <3> HIDE DEF Upto, Rank
    <3> QED BY <1>2, <3>2, <3>3, <3>4, <3>5
  <2> HIDE DEF Rank
  <2> QED BY <1>6, <2>1
<1> HIDE DEF Place
<1>8. Without(s, S) \in Seq(E)
  <2>1. [k \in 1 .. n |-> s[Place(k)]] \in [1 .. n -> E]
    BY <1>3, <1>6
  <2> HIDE DEF n
  <2> QED BY <1>2, <1>5, <2>1, IsASeq
<1>9. DOMAIN Without(s, S) = 1 .. n /\ \A k \in 1 .. n : Without(s, S)[k] = s[Place(k)]
  BY <1>5
<1> HIDE DEF n
<1>10. Elements(Without(s, S)) = {s[Place(k)] : k \in 1 .. n}
  BY <1>9 DEF Elements
<1>11. ASSUME NEW x \in Elements(s), x \notin S
       PROVE  x \in {s[Place(k)] : k \in 1 .. n}
  <2>1. PICK i \in kept : x = s[i]
    BY <1>4, <1>11 DEF Elements
  <2> QED BY <1>7, <2>1
<1>12. ASSUME NEW k \in 1 .. n
       PROVE  s[Place(k)] \in Elements(s) \ S
  BY <1>3, <1>6 DEF Elements
<1> QED BY <1>8, <1>10, <1>11, <1>12

LEMMA AppendElements ==
    ASSUME NEW E, NEW s \in Seq(E), NEW x \in E
    PROVE  /\ Append(s, x) \in Seq(E)
           /\ Elements(Append(s, x)) = Elements(s) \cup {x}
<1>1. /\ Append(s, x) \in Seq(E) /\ Len(s) \in Nat
      /\ DOMAIN s = 1 .. Len(s)
      /\ DOMAIN Append(s, x) = 1 .. Len(s) + 1
      /\ \A i \in 1 .. Len(s) : Append(s, x)[i] = s[i]
      /\ Append(s, x)[Len(s) + 1] = x
  BY AppendProperties
<1> DEFINE t == Append(s, x)
<1> HIDE DEF t
<1>2. ASSUME NEW i \in DOMAIN t
      PROVE  t[i] \in Elements(s) \cup {x}
  <2>1. i \in 1 .. Len(s) \/ i = Len(s) + 1
    BY <1>1 DEF t
  <2> QED BY <1>1, <2>1 DEF t, Elements
<1>3. Elements(s) \subseteq Elements(t)
  <2>1. \A i \in 1 .. Len(s) : i \in DOMAIN t /\ t[i] = s[i]
    BY <1>1 DEF t
  <2> QED BY <1>1, <2>1 DEF Elements
<1>4. x \in Elements(t)
  <2>1. Len(s) + 1 \in DOMAIN t /\ t[Len(s) + 1] = x
    BY <1>1 DEF t
  <2> QED BY <2>1 DEF Elements
<1>5. Elements(t) \subseteq Elements(s) \cup {x}
  BY <1>2 DEF Elements
<1> QED BY <1>1, <1>3, <1>4, <1>5 DEF t

LEMMA NewestElements ==
    ASSUME NEW E, NEW s \in Seq(E), NEW n \in Nat
    PROVE  Newest(s, n) \in Seq(E) /\ Elements(Newest(s, n)) \subseteq Elements(s)
<1>1. CASE Len(s) <= n
  BY <1>1 DEF Newest
<1>2. CASE ~ (Len(s) <= n)
  <2> DEFINE t == SubSeq(s, Len(s) - n + 1, Len(s))
  <2>1. Len(s) \in Nat /\ Len(s) - n \in Nat /\ DOMAIN s = 1 .. Len(s)
    BY <1>2
  <2>2. \A i \in Len(s) - n + 1 .. Len(s) : s[i] \in E
    BY <2>1, ElementOfSeq
  <2>3. t \in Seq(E) /\ Len(t) = n /\ \A i \in 1 .. n : t[i] = s[Len(s) - n + i]
    BY <2>1, <2>2, SubSeqProperties
  <2>4. DOMAIN t = 1 .. n
    BY <2>3
  <2>5. \A i \in 1 .. n : Len(s) - n + i \in DOMAIN s
    BY <2>1
  <2>6. Newest(s, n) = t
    BY <1>2 DEF Newest
  <2> HIDE DEF t
  <2> QED BY <2>3, <2>4, <2>5, <2>6 DEF Elements
<1> QED BY <1>1, <1>2

LEMMA HeadTailElements ==
    ASSUME NEW E, NEW s \in Seq(E), s # <<>>
    PROVE  /\ Tail(s) \in Seq(E) /\ Elements(Tail(s)) \subseteq Elements(s)
           /\ Head(s) \in Elements(s) /\ Head(s) \in E
<1>1. /\ Tail(s) \in Seq(E) /\ Len(s) \in Nat /\ Len(s) # 0 /\ DOMAIN s = 1 .. Len(s)
      /\ DOMAIN Tail(s) = 1 .. Len(s) - 1
      /\ \A i \in 1 .. Len(s) - 1 : Tail(s)[i] = s[i + 1]
      /\ Head(s) = s[1]
  BY HeadTailProperties, EmptySeq
<1> DEFINE t == Tail(s)
<1> HIDE DEF t
<1>2. ASSUME NEW i \in DOMAIN t
      PROVE  t[i] \in Elements(s)
  <2>1. i + 1 \in DOMAIN s /\ t[i] = s[i + 1]
    BY <1>1 DEF t
  <2> QED BY <2>1 DEF Elements
<1>3. Elements(t) \subseteq Elements(s)
  BY <1>2 DEF Elements
<1>4. s[1] \in Elements(s) /\ s[1] \in E
  BY <1>1 DEF Elements
<1> QED BY <1>1, <1>3, <1>4 DEF t

-----------------------------------------------------------------------------
(* The types of the store.                                                 *)

Workers == [at : WorkerSteps, rep : Rep \cup {NoRep}, attempt : 1 .. MaxAttempts,
            bytes : Bytes]

StoreTypes ==
    /\ cache \in Seq(Rep) /\ spool \in Seq(Rep)
    /\ ledger \in Seq(Rep) /\ queue \in Seq(Rep)
    /\ old \subseteq Rep /\ evicted \subseteq Rep /\ todo \subseteq Rep
    /\ worker \in Workers
    /\ janitor \in Rep \cup {NoRep} /\ reader \in Rep \cup {NoRep}
    /\ life \in {"scan", "reconcile", "running"}
    /\ faults \in 0 .. MaxFaults
    /\ misled \subseteq Content /\ swept \subseteq Capture

LEMMA TypesImply == TypeInv /\ StoreTypes => TypeOK
<1> SUFFICES ASSUME TypeInv, StoreTypes PROVE TypeOK
  OBVIOUS
<1>1. \A s \in Seq(Rep) : Elements(s) \in SUBSET Rep
  BY DEF Elements
<1>2. {Elements(cache), Elements(spool), Elements(ledger), Elements(queue)}
         \subseteq SUBSET Rep
  BY <1>1 DEF StoreTypes
<1> QED BY <1>2 DEF TypeInv, StoreTypes, Workers, TypeOK, Rows, RowType, Jobs

LEMMA NotifyAdds ==
    ASSUME queue \in Seq(Rep), NEW r \in Rep, Notify(r)
    PROVE  queue' \in Seq(Rep) /\ Elements(queue') \subseteq Elements(queue) \cup {r}
BY AppendElements DEF Notify

LEMMA FaultTyped == faults \in 0 .. MaxFaults /\ Fault => faults' \in 0 .. MaxFaults
BY StoreAssumption DEF Fault

\* What the worker does to everything but the rows.
LEMMA WorkerStores ==
    ASSUME StoreTypes, WorkerNext
    PROVE  /\ worker' \in Workers
           /\ cache' \in Seq(Rep) /\ Elements(cache') \subseteq Elements(cache)
           /\ spool' \in Seq(Rep) /\ Elements(spool') \subseteq Elements(spool)
           /\ Elements(spool) \ Elements(spool') \subseteq
                 {r \in Rep : worker.at = "unspool" /\ worker.rep = r}
           /\ ledger' \in Seq(Rep)
           /\ queue' \in Seq(Rep) /\ Elements(queue') \subseteq Elements(queue)
           /\ worker'.at # "idle" =>
                 \/ worker'.rep \in Elements(queue)
                 \/ worker.at # "idle" /\ worker'.rep = worker.rep
           /\ worker'.at = "unspool" => WorkerFinishes /\ worker'.rep = worker.rep
           /\ faults' \in 0 .. MaxFaults
           /\ UNCHANGED <<old, evicted, janitor, reader, life, todo>>
<1> USE DEF WorkerSteps
<1>0. /\ worker \in Workers
      /\ \A at \in WorkerSteps : WorkerGoes(at) =>
            worker' \in Workers /\ worker'.at = at /\ worker'.rep = worker.rep
  BY DEF StoreTypes, Workers, WorkerGoes
<1>00. WorkerIdle \in Workers /\ WorkerIdle.at = "idle"
  BY StoreAssumption DEF WorkerIdle, Workers, Bytes
<1>1. CASE WorkerTakes
  <2>1. /\ Tail(queue) \in Seq(Rep) /\ Elements(Tail(queue)) \subseteq Elements(queue)
        /\ Head(queue) \in Elements(queue) /\ Head(queue) \in Rep
    BY <1>1, HeadTailElements DEF StoreTypes, WorkerTakes
  <2> DEFINE taken == [WorkerIdle EXCEPT !.at = "claim", !.rep = Head(queue)]
  <2>2. taken \in Workers /\ taken.rep = Head(queue) /\ taken.at = "claim"
    BY <1>00, <2>1 DEF Workers
  <2> HIDE DEF taken
  <2>3. worker' = taken
    BY <1>1 DEF WorkerTakes, taken
  <2>4. queue' = Tail(queue)
    BY <1>1 DEF WorkerTakes
  <2>5. UNCHANGED <<cache, spool, ledger, evicted, old, janitor, reader, life, todo, faults>>
    BY <1>1 DEF WorkerTakes, filesVars, workerRest, startVars
  <2> QED BY <2>1, <2>2, <2>3, <2>4, <2>5 DEF StoreTypes
<1>2. CASE \/ WorkerClaims \/ WorkerFetches \/ WorkerMisses \/ WorkerRelabels
           \/ WorkerFinishes \/ WorkerFails \/ WorkerGivesUp
  <2>1. /\ worker' \in Workers
        /\ worker.at # "idle" /\ worker'.rep = worker.rep
        /\ worker'.at = "unspool" => WorkerFinishes
    <3>1. CASE WorkerClaims \/ WorkerMisses \/ WorkerRelabels \/ WorkerGivesUp
      BY <1>0, <3>1 DEF WorkerClaims, WorkerMisses, WorkerRelabels, WorkerGivesUp, WorkerAt
    <3>2. CASE WorkerFinishes
      BY <1>0, <3>2 DEF WorkerFinishes, WorkerAt
    <3>3. CASE WorkerFetches
      <4>1. /\ worker.at = "fetch"
            /\ \E b \in Bytes, s \in {"relabel", "finish"} :
                  worker' = [worker EXCEPT !.at = s, !.bytes = b]
        BY <3>3 DEF WorkerFetches, WorkerAt, Bytes
      <4> QED BY <1>0, <4>1 DEF Workers
    <3>4. CASE WorkerFails
      <4>1. /\ worker.at \in {"claim", "fetch", "finish"}
            /\ \/ /\ worker.attempt < MaxAttempts
                  /\ worker' = [worker EXCEPT !.at = "claim",
                                              !.attempt = worker.attempt + 1]
               \/ worker' = [worker EXCEPT !.at = "giveUp"]
        BY <3>4 DEF WorkerFails
      <4>2. worker.attempt < MaxAttempts => worker.attempt + 1 \in 1 .. MaxAttempts
        BY <1>0, StoreAssumption DEF Workers
      <4> QED BY <1>0, <4>1, <4>2 DEF Workers
    <3> QED BY <1>2, <3>1, <3>2, <3>3, <3>4
  <2>2. UNCHANGED <<cache, spool, ledger, evicted, queue, old, janitor, reader, life, todo>>
    BY <1>2 DEF WorkerClaims, WorkerFetches, WorkerMisses, WorkerRelabels,
       WorkerFinishes, WorkerFails, WorkerGivesUp, filesVars, workerRest, startVars
  <2>3. UNCHANGED faults \/ Fault
    BY <1>2 DEF WorkerClaims, WorkerFetches, WorkerMisses, WorkerRelabels,
       WorkerFinishes, WorkerFails, WorkerGivesUp
  <2> QED BY <2>1, <2>2, <2>3, FaultTyped DEF StoreTypes
<1>3. CASE WorkerUnspools
  <2>1. /\ worker.at = "unspool" /\ WorkerGoes("release")
        /\ ledger' = Without(ledger, {worker.rep})
        /\ spool' \in {spool, Without(spool, {worker.rep})}
        /\ UNCHANGED faults \/ Fault
        /\ UNCHANGED <<cache, evicted, queue, old, janitor, reader, life, todo>>
    BY <1>3 DEF WorkerUnspools, WorkerAt, workerRest, startVars
  <2>2. /\ Without(ledger, {worker.rep}) \in Seq(Rep)
        /\ Without(spool, {worker.rep}) \in Seq(Rep)
        /\ Elements(Without(spool, {worker.rep})) = Elements(spool) \ {worker.rep}
    BY WithoutElements DEF StoreTypes
  <2>3. Elements(spool) \subseteq Rep
    BY DEF StoreTypes, Elements
  <2> QED BY <1>0, <2>1, <2>2, <2>3, FaultTyped DEF StoreTypes
<1>4. CASE WorkerReleases
  <2>1. /\ worker' = WorkerIdle /\ cache' = Without(cache, {worker.rep})
        /\ UNCHANGED <<spool, ledger, evicted, queue, old, janitor, reader, life, todo, faults>>
    BY <1>4 DEF WorkerReleases, workerRest, startVars
  <2>2. /\ Without(cache, {worker.rep}) \in Seq(Rep)
        /\ Elements(Without(cache, {worker.rep})) \subseteq Elements(cache)
    BY WithoutElements DEF StoreTypes
  <2> QED BY <1>00, <2>1, <2>2 DEF StoreTypes
<1> QED BY <1>1, <1>2, <1>3, <1>4 DEF WorkerNext


\* What the sweeps of a start, the janitor and the readers do to everything but
\* the rows.
LEMMA TasksStore ==
    ASSUME TypeInv, EntryInv, StoreTypes, StoreNext, ~WorkerNext
    PROVE  /\ spool' \in Seq(Rep) /\ Elements(spool') \subseteq Elements(spool)
           /\ Elements(spool) \ Elements(spool') \subseteq
                 {r \in Rep : \/ janitor = r
                              \/ life = "scan" /\ row[r].state \notin Pending}
           /\ queue' \in Seq(Rep)
           /\ Elements(queue') \subseteq Elements(queue) \cup
                 {r \in Rep : reader = r \/ (life = "scan" /\ r \in todo)}
           /\ reader' # NoRep => reader' = reader \/ reader' \in {entry[e] : e \in LiveEntries}
           /\ janitor' # NoRep =>
                 \/ janitor' = janitor
                 \/ janitor' \in old /\ row'[janitor'].state \in Missing
           /\ janitor' \in Rep \cup {NoRep} /\ reader' \in Rep \cup {NoRep}
           /\ life' \in {"scan", "reconcile", "running"} /\ todo' \subseteq Rep
           /\ life' = "scan" => life = "scan" /\ todo' \subseteq todo
           /\ life = "running" => life' = "running"
           /\ faults' \in 0 .. MaxFaults
           /\ UNCHANGED <<cache, ledger, evicted, old, worker>>
<1>0. \A r : /\ Without(spool, {r}) \in Seq(Rep)
             /\ Elements(Without(spool, {r})) = Elements(spool) \ {r}
  BY WithoutElements DEF StoreTypes
<1>1. CASE \E r \in Rep : ScanVisits(r)
  <2>1. PICK r \in Rep : ScanVisits(r)
    BY <1>1
  <2>2. /\ life = "scan" /\ r \in todo /\ todo' = todo \ {r}
        /\ UNCHANGED <<life, cache, ledger, evicted, old, worker, janitor, reader, faults>>
    BY <2>1 DEF ScanVisits, startRest
  <2>3. CASE Notify(r) /\ UNCHANGED spool
    BY <2>2, <2>3, NotifyAdds DEF StoreTypes
  <2>4. CASE row[r].state \notin Pending /\ spool' = Without(spool, {r}) /\ UNCHANGED queue
    BY <1>0, <2>2, <2>4 DEF StoreTypes
  <2> QED BY <2>1, <2>3, <2>4 DEF ScanVisits
<1>2. CASE ScanEnds \/ StartTasks \/ \E r \in Rep : ReconcileVisits(r)
  <2>1. /\ UNCHANGED <<spool, queue, cache, ledger, evicted, old, worker, janitor, reader>>
        /\ UNCHANGED faults \/ Fault
        /\ todo' \subseteq Rep /\ life' \in {"reconcile", "running"}
        /\ life # "running"
    BY <1>2 DEF ScanEnds, StartTasks, ReconcileVisits, startRest, StoreTypes
  <2> QED BY <2>1, FaultTyped DEF StoreTypes
<1>3. CASE \E r \in Rep : JanitorMarks(r)
  <2>1. PICK r \in Rep : JanitorMarks(r)
    BY <1>3
  <2>2. /\ r \in old /\ janitor' = r
        /\ row[r].state \in Pending \cup {"Absent"} /\ Swap(r, Pending, "Lost")
        /\ UNCHANGED <<queue, cache, spool, ledger, evicted, old, worker, reader, life, todo, faults>>
    BY <2>1 DEF JanitorMarks, filesVars, startVars
  <2>3. row'[r].state \in Missing
    BY <2>2 DEF Swap, TypeInv, Rows, Missing
  <2> QED BY <2>2, <2>3 DEF StoreTypes
<1>4. CASE JanitorRemoves
  <2>1. /\ janitor # NoRep /\ janitor' = NoRep
        /\ spool' \in {spool, Without(spool, {janitor})}
        /\ UNCHANGED faults \/ Fault
        /\ UNCHANGED <<queue, cache, ledger, evicted, old, worker, reader, life, todo>>
    BY <1>4 DEF JanitorRemoves, startVars
  <2>2. janitor \in Rep
    BY <2>1 DEF StoreTypes
  <2> QED BY <1>0, <2>1, <2>2, FaultTyped DEF StoreTypes
<1>5. CASE \E e \in LiveEntries : ReaderLooks(entry[e])
  <2>1. PICK e \in LiveEntries : ReaderLooks(entry[e])
    BY <1>5
  <2>2. entry[e] \in Rep
    BY DEF EntryInv, Capture
  <2>3. /\ reader' = entry[e]
        /\ UNCHANGED <<queue, cache, spool, ledger, evicted, old, worker, janitor, life, todo, faults>>
    BY <2>1 DEF ReaderLooks, filesVars, startVars
  <2> QED BY <2>2, <2>3 DEF StoreTypes
<1>6. CASE ReaderServes \/ ReaderDemotes
  <2>1. /\ reader # NoRep /\ reader' = NoRep
        /\ UNCHANGED queue \/ Notify(reader)
        /\ UNCHANGED <<cache, spool, ledger, evicted, old, worker, janitor, life, todo, faults>>
    BY <1>6 DEF ReaderServes, ReaderDemotes, filesVars, startVars
  <2>2. reader \in Rep
    BY <2>1 DEF StoreTypes
  <2> QED BY <2>1, <2>2, NotifyAdds DEF StoreTypes
<1> QED BY <1>1, <1>2, <1>3, <1>4, <1>5, <1>6 DEF StoreNext, StartNext

\* What a capture, a frame or an upgrade does to everything but the rows.
LEMMA WriterStores ==
    ASSUME IInv, StoreTypes, NEW c \in Capture, JobNext(c)
    PROVE  /\ cache' \in Seq(Rep)
           /\ Elements(cache') \subseteq Elements(cache) \cup {r \in {c} : At(c, "cache")}
           /\ spool' \in Seq(Rep)
           /\ Elements(spool') \subseteq Elements(spool) \cup {r \in {c} : At(c, "spool")}
           /\ Elements(spool) \ Elements(spool') \subseteq evicted'
           /\ At(c, "spool") /\ job'[c].at = "save" => c \in Elements(spool')
           /\ evicted \subseteq evicted' /\ evicted' \subseteq Rep
           /\ ledger' \in Seq(Rep) /\ queue' \in Seq(Rep)
           /\ Elements(queue') \subseteq
                 Elements(queue) \cup {r \in {c} : Spool(c)} \cup {entry[e] : e \in LiveEntries}
           /\ todo' \subseteq Rep /\ faults' \in 0 .. MaxFaults /\ misled' \subseteq Content
           /\ UNCHANGED <<old, worker, janitor, reader, life>>
<1>0. c \in Rep /\ faults' \in 0 .. MaxFaults
  BY FaultTyped DEF Capture, StoreTypes, JobNext, Lock, LookupFinds, LookupMisses,
     LookupStrays, LookupFails, Touch, TouchFails, CheckHeld, RapidDuplicate,
     Resurface, ResurfaceFails, Fetch, FetchFails, Insert, Cache, Spool, Save,
     StoreFails, Replace, ReplaceVanished, onlyJob, storeVars
<1>1. CASE \/ Lock(c) \/ LookupFinds(c) \/ LookupMisses(c) \/ LookupStrays(c)
           \/ LookupFails(c) \/ Touch(c) \/ TouchFails(c)
  <2>1. /\ UNCHANGED <<cache, spool, ledger, queue, evicted, todo, old, worker,
                       janitor, reader, life>>
        /\ job[c].at \in {"lock", "lookup", "touch"}
        /\ UNCHANGED misled \/ Misses(c)
    BY <1>1 DEF Lock, LookupFinds, LookupMisses, LookupStrays, LookupFails, Touch,
       TouchFails, onlyJob, storeVars, filesVars, storeRest, jobRest, At
  <2>2. job[c].content \in Content
    BY <2>1 DEF IInv, WriterInv, TargetOf, At, Over, Ended
  <2>3. misled' \subseteq Content
    BY <2>1, <2>2 DEF Misses, StoreTypes
  <2>4. ~Spool(c)
    BY <2>1 DEF Spool, At
  <2> QED BY <1>0, <2>1, <2>3, <2>4 DEF StoreTypes, At
<1>2. CASE \/ CheckHeld(c) \/ RapidDuplicate(c) \/ ResurfaceFails(c) \/ Fetch(c)
           \/ FetchFails(c) \/ Insert(c) \/ Save(c) \/ Replace(c) \/ ReplaceVanished(c)
  <2>1. /\ UNCHANGED <<cache, spool, ledger, queue, evicted, todo, old, worker,
                       janitor, reader, life, misled>>
        /\ job[c].at \in {"held", "resurface", "fetch", "insert", "save"}
    BY <1>2 DEF CheckHeld, RapidDuplicate, ResurfaceFails, Fetch, FetchFails, Insert,
       Save, Replace, ReplaceVanished, onlyJob, storeVars, filesVars, storeRest,
       jobRest, At
  <2> QED BY <1>0, <2>1 DEF StoreTypes, At, Spool
<1>3. CASE Resurface(c)
  <2> DEFINE r == entry[job[c].target]
  <2>1. /\ At(c, "resurface") /\ Live(job[c].target)
        /\ Notify(r) \/ UNCHANGED queue
        /\ UNCHANGED <<cache, spool, ledger, evicted, todo, old, worker, janitor,
                       reader, life, misled>>
    BY <1>3 DEF Resurface, filesVars, storeRest, jobRest
  <2>2. job[c].target \in LiveEntries /\ r \in Rep
    BY <2>1 DEF IInv, EntryInv, LiveEntries, Live, Capture
  <2>3. queue' \in Seq(Rep) /\ Elements(queue') \subseteq Elements(queue) \cup {r}
    BY <2>1, <2>2, NotifyAdds DEF StoreTypes
  <2>4. r \in {entry[e] : e \in LiveEntries}
    BY <2>2
  <2> HIDE DEF r
  <2> QED BY <1>0, <2>1, <2>3, <2>4 DEF StoreTypes, At, Spool
<1>4. CASE Cache(c)
  <2> DEFINE kept == Newest(ledger, SpoolSlots - 1)
             victims == Elements(ledger) \ Elements(kept)
             fresh == Append(Without(cache, {c}), c)
  <2>1. /\ At(c, "cache") /\ cache' = Newest(fresh, CacheSlots)
        /\ ledger' = kept /\ spool' = Without(spool, victims)
        /\ evicted' = evicted \cup victims
        /\ UNCHANGED <<queue, todo, old, worker, janitor, reader, life, misled>>
    BY <1>4 DEF Cache, CachePut, MakeRoom, storeRest, jobRest
  <2>2. kept \in Seq(Rep)
    <3>1. SpoolSlots - 1 \in Nat
      BY StoreAssumption
    <3> QED BY <3>1, NewestElements DEF StoreTypes
  <2>3. victims \subseteq Rep
    BY DEF StoreTypes, Elements
  <2>4. cache' \in Seq(Rep) /\ Elements(cache') \subseteq Elements(cache) \cup {c}
    <3>1. /\ Without(cache, {c}) \in Seq(Rep)
          /\ Elements(Without(cache, {c})) \subseteq Elements(cache)
      BY WithoutElements DEF StoreTypes
    <3>2. fresh \in Seq(Rep) /\ Elements(fresh) \subseteq Elements(cache) \cup {c}
      <4> DEFINE w == Without(cache, {c})
      <4> HIDE DEF w
      <4>1. w \in Seq(Rep) /\ Elements(w) \subseteq Elements(cache)
        BY <3>1 DEF w
      <4>2. Append(w, c) \in Seq(Rep) /\ Elements(Append(w, c)) = Elements(w) \cup {c}
        BY <1>0, <4>1, AppendElements
      <4> QED BY <4>1, <4>2 DEF w
    <3> HIDE DEF fresh
    <3>3. /\ Newest(fresh, CacheSlots) \in Seq(Rep)
          /\ Elements(Newest(fresh, CacheSlots)) \subseteq Elements(fresh)
      BY <3>2, NewestElements, StoreAssumption
    <3> QED BY <2>1, <3>2, <3>3
  <2> HIDE DEF kept, victims, fresh
  <2>5. spool' \in Seq(Rep) /\ Elements(spool') = Elements(spool) \ victims
    BY <2>1, WithoutElements DEF StoreTypes
  <2> QED BY <1>0, <2>1, <2>2, <2>3, <2>4, <2>5 DEF StoreTypes, At, Spool
<1>5. CASE Spool(c)
  <2>1. /\ At(c, "spool") /\ spool' = Append(spool, c) /\ ledger' = Append(ledger, c)
        /\ Notify(c) /\ todo' \in {todo, todo \cup {c}}
        /\ UNCHANGED <<cache, evicted, old, worker, janitor, reader, life, misled>>
    BY <1>5 DEF Spool, SpoolWrite, storeRest, jobRest
  <2>2. /\ spool' \in Seq(Rep) /\ Elements(spool') = Elements(spool) \cup {c}
        /\ ledger' \in Seq(Rep)
    BY <1>0, <2>1, AppendElements DEF StoreTypes
  <2>3. queue' \in Seq(Rep) /\ Elements(queue') \subseteq Elements(queue) \cup {c}
    BY <1>0, <2>1, NotifyAdds DEF StoreTypes
  <2> QED BY <1>0, <1>5, <2>1, <2>2, <2>3 DEF StoreTypes, At
<1>6. CASE StoreFails(c)
  <2>1. /\ job[c].at \in {"insert", "spool", "save"} /\ Go(c, "done")
        /\ spool' \in IF At(c, "spool") THEN {spool, Append(spool, c)} ELSE {spool}
        /\ UNCHANGED <<cache, ledger, evicted, queue, todo, old, worker, janitor,
                       reader, life, misled>>
    BY <1>6 DEF StoreFails, storeRest, jobRest
  <2>2. /\ Append(spool, c) \in Seq(Rep)
        /\ Elements(Append(spool, c)) = Elements(spool) \cup {c}
    BY <1>0, AppendElements DEF StoreTypes
  <2>3. job'[c].at = "done"
    <3>1. job'[c] = [job[c] EXCEPT !.at = "done"] /\ job[c] \in Jobs
      BY <2>1, Goes DEF IInv, TypeInv, Steps
    <3> QED BY <3>1 DEF Jobs
  <2> QED BY <1>0, <2>1, <2>2, <2>3 DEF StoreTypes
<1> QED BY <1>1, <1>2, <1>3, <1>4, <1>5, <1>6 DEF JobNext

\* A writer sweeps nothing; the scanner may come across the file it writes.
LEMMA WriterSweeps ==
    ASSUME NEW c \in Capture, JobNext(c)
    PROVE  /\ UNCHANGED swept
           /\ todo' \subseteq todo \cup {r \in {c} : Spool(c)}
<1>1. UNCHANGED swept
  BY DEF JobNext, Lock, LookupFinds, LookupMisses, LookupStrays, LookupFails, Touch,
     TouchFails, CheckHeld, RapidDuplicate, Resurface, ResurfaceFails, Fetch, FetchFails,
     Insert, Cache, Spool, Save, StoreFails, Replace, ReplaceVanished, onlyJob, jobRest
<1>2. CASE Spool(c)
  BY <1>1, <1>2 DEF Spool, SpoolWrite
<1>3. CASE ~Spool(c)
  <2>1. UNCHANGED todo
    BY <1>3 DEF JobNext, Lock, LookupFinds, LookupMisses, LookupStrays, LookupFails,
       Touch, TouchFails, CheckHeld, RapidDuplicate, Resurface, ResurfaceFails, Fetch,
       FetchFails, Insert, Cache, Save, StoreFails, Replace, ReplaceVanished, onlyJob,
       storeVars
  <2> QED BY <1>1, <2>1
<1> QED BY <1>2, <1>3

\* A crash empties what is in memory.
LEMMA CrashStores ==
    ASSUME StoreTypes, Crash
    PROVE  StoreTypes' /\ Elements(cache') = {} /\ Elements(queue') = {}
<1>1. /\ faults' \in 0 .. MaxFaults /\ cache' = <<>> /\ queue' = <<>> /\ ledger' = spool
      /\ worker' = WorkerIdle /\ janitor' = NoRep /\ reader' = NoRep
      /\ life' = "scan" /\ todo' = Elements(spool)
      /\ UNCHANGED <<row, spool, old, evicted, misled, swept>>
  BY FaultTyped DEF Crash, StoreCrash, StoreTypes
<1>2. WorkerIdle \in Workers
  BY StoreAssumption DEF WorkerIdle, Workers, WorkerSteps, Bytes
<1>3. <<>> \in Seq(Rep) /\ Elements(<<>>) = {}
  BY EmptySeq DEF Elements
<1>4. Elements(spool) \subseteq Rep
  BY DEF StoreTypes, Elements
<1> QED BY <1>1, <1>2, <1>3, <1>4 DEF StoreTypes

LEMMA TypesKept ==
    ASSUME IInv, StoreTypes, [Next]_vars
    PROVE  StoreTypes'
<1>1. CASE \E c \in Capture : JobNext(c)
  BY <1>1, WriterStores, WriterSweeps DEF StoreTypes
<1>2. CASE StoreNext
  <2>0. UNCHANGED misled /\ swept' \subseteq Capture
    BY <1>2 DEF StoreNext, IntakeWaits, StoreTypes
  <2>1. CASE WorkerNext
    BY <2>0, <2>1, WorkerStores DEF StoreTypes
  <2>2. CASE ~WorkerNext
    <3>1. /\ spool' \in Seq(Rep) /\ queue' \in Seq(Rep)
          /\ janitor' \in Rep \cup {NoRep} /\ reader' \in Rep \cup {NoRep}
          /\ life' \in {"scan", "reconcile", "running"} /\ todo' \subseteq Rep
          /\ faults' \in 0 .. MaxFaults
          /\ UNCHANGED <<cache, ledger, evicted, old, worker>>
      BY <1>2, <2>2, TasksStore DEF IInv
    <3> QED BY <2>0, <3>1 DEF StoreTypes, Capture
  <2> QED BY <2>1, <2>2
<1>3. CASE Crash
  BY <1>3, CrashStores
<1>4. CASE DaysPass
  <2>1. Elements(spool) \subseteq Rep
    BY DEF StoreTypes, Elements
  <2> QED BY <1>4, <2>1 DEF DaysPass, filesVars, startVars, intakeVars, StoreTypes
<1>5. CASE \/ \E c \in Capture, h \in Content, o \in {"local", "frame"} : Copy(c, h, o)
           \/ \E e \in Capture : DeleteBegins(e)
           \/ DeleteEntry \/ DeleteEvent \/ DeleteFails \/ UNCHANGED vars
  <2>1. /\ UNCHANGED <<cache, spool, ledger, queue, old, evicted, worker, janitor,
                       reader, life, todo, misled, swept>>
        /\ UNCHANGED faults \/ Fault
    BY <1>5 DEF Copy, DeleteBegins, DeleteEntry, DeleteEvent, DeleteFails, vars,
       storeVars, intakeVars, onlyJob, jobRest, storeRest, filesVars
  <2> QED BY <2>1, FaultTyped DEF StoreTypes
<1> QED BY <1>1, <1>2, <1>3, <1>4, <1>5 DEF Next

LEMMA InitTyped == Init => StoreTypes
<1> SUFFICES ASSUME Init PROVE StoreTypes
  OBVIOUS
<1>1. WorkerIdle \in Workers /\ <<>> \in Seq(Rep)
  BY StoreAssumption, EmptySeq DEF WorkerIdle, Workers, WorkerSteps, Bytes
<1>2. 0 \in 0 .. MaxFaults
  BY StoreAssumption
<1> QED BY <1>1, <1>2 DEF Init, StoreInit, StoreTypes

\* Every row, file, message, task and writer stays what the code's types say, and
\* the bounds on attempts and faults are kept.
THEOREM TypeCorrect == Spec => []TypeOK
<1>1. IInv /\ StoreTypes => TypeOK
  BY TypesImply DEF IInv
<1>2. IInv /\ StoreTypes /\ [Next]_vars => IInv' /\ StoreTypes'
  BY NextIInv, TypesKept
<1> QED BY <1>1, <1>2, InitIInv, InitTyped, PTL DEF Spec

-----------------------------------------------------------------------------
(* Bytes are kept until they are not needed.                               *)

\* The file of the capture is written, or was to be.
Told(c) == job[c].at \in {"save"} \cup Ended

\* Files, messages and tasks are about representations whose capture got that far.
ToldInv ==
    /\ \A r \in Elements(spool) \cup Elements(queue) : Told(r)
    /\ worker.at # "idle" => worker.rep \in Rep /\ Told(worker.rep)
    /\ life = "scan" => \A r \in todo : Told(r)
    /\ \A r \in old : Over(r)
    /\ reader # NoRep => Over(reader)
    /\ janitor # NoRep => Over(janitor) /\ row[janitor].state \in Missing

\* The row of a capture that has not written its file is nobody else's yet; only
\* the reconciler may have taken it.
FreshInv ==
    \A c \in Capture :
        /\ job[c].at \notin {"cache", "spool"} \cup {"save"} \cup Ended =>
              row[c].state = "Absent"
        /\ job[c].at \in {"cache", "spool"} =>
              row[c].state \in {"Absent", "Staged"} \/ c \in swept
        /\ ~Over(c) /\ Replaces(c) => row[c].state = "Absent"

\* What is about to be an entry's has its file, or a scanner took it.
SaveInv ==
    \A c \in Capture :
        At(c, "save") /\ (Replaces(c) \/ row[c].state \in Pending) =>
            c \in Elements(spool) \cup evicted \cup swept

\* The worker removes the file of what has become a blob.
UnspoolInv ==
    worker.at = "unspool" =>
        /\ row[worker.rep].state \notin Pending
        /\ ~ (At(worker.rep, "save") /\ Replaces(worker.rep))

HeldInv ==
    /\ ToldInv /\ FreshInv /\ SaveInv /\ UnspoolInv
    /\ NoPhantomEntry /\ LostIsGone

\* Rows change for good: what is not pending never is again, only what has no
\* bytes or is old is given up, and what is not yet told of is left alone, unless
\* a sweep takes it.
RowsHeld ==
    \A r \in Rep :
        /\ row[r].state \notin Pending => row'[r].state \notin Pending
        /\ row[r].state = "Absent" => row'[r].state = "Absent"
        /\ row'[r].state = "Lost" =>
              row[r].state = "Lost" \/ r \in old \/ ~HasBytes(r) \/ r \in swept'
        /\ ~Told(r) => row'[r] = row[r] \/ r \in swept'

\* Steps in which no capture moves.
LEMMA StillHeld ==
    ASSUME IInv, IInv', HeldInv, UNCHANGED job, RowsHeld,
           Elements(spool') \subseteq Elements(spool),
           Elements(cache') \subseteq Elements(cache),
           old \subseteq old', evicted \subseteq evicted', swept \subseteq swept',
           LiveEntries' \subseteq LiveEntries,
           \A e \in LiveEntries' : entry'[e] = entry[e],
           \A r \in Elements(spool) \ Elements(spool') :
              \/ row[r].state \notin Pending /\ ~ (At(r, "save") /\ Replaces(r))
              \/ r \in swept'
    PROVE  FreshInv' /\ SaveInv' /\ NoPhantomEntry' /\ LostIsGone'
<1>0. Capture = Rep /\ \A c : (At(c, "save") <=> At(c, "save")') /\ (Replaces(c) <=> Replaces(c)')
  BY DEF Capture, At, Replaces
<1>1. FreshInv'
  <2>1. ASSUME NEW c \in Capture
        PROVE  /\ job[c].at \notin {"cache", "spool"} \cup {"save"} \cup Ended =>
                     row'[c].state = "Absent"
               /\ job[c].at \in {"cache", "spool"} =>
                     row'[c].state \in {"Absent", "Staged"} \/ c \in swept'
               /\ ~Over(c) /\ Replaces(c) => row'[c].state = "Absent"
    BY <1>0 DEF HeldInv, FreshInv, RowsHeld, Told, Ended
  <2> QED BY <1>0, <2>1 DEF FreshInv, Over
<1>2. SaveInv'
  BY <1>0 DEF HeldInv, SaveInv, RowsHeld
<1>3. NoPhantomEntry'
  <2>1. ASSUME NEW e \in LiveEntries'
        PROVE  /\ row'[entry'[e]].state # "Absent"
               /\ row'[entry'[e]].state \in Pending =>
                     entry'[e] \in Elements(spool') \cup evicted' \cup swept'
    <3>1. row'[entry'[e]].state # "Absent"
      BY DEF IInv, EntryInv
    <3>2. entry[e] \in Rep
      BY <1>0 DEF IInv, EntryInv
    <3> QED BY <3>1, <3>2 DEF HeldInv, NoPhantomEntry, RowsHeld
  <2> QED BY <2>1 DEF NoPhantomEntry
<1>4. LostIsGone'
  BY DEF HeldInv, LostIsGone, RowsHeld, HasBytes
<1> QED BY <1>1, <1>2, <1>3, <1>4

LEMMA SwapHolds ==
    ASSUME TypeInv, NEW r, NEW from, NEW to,
           from \subseteq Pending \cup {"Failed"},
           to \in {"Staged", "Processing", "Failed", "Lost"},
           to \in Pending => from \subseteq Pending,
           r \in Rep => Told(r),
           to = "Lost" /\ r \in Rep /\ row[r].state \in from => r \in old \/ ~HasBytes(r),
           Swap(r, from, to)
    PROVE  RowsHeld
<1>1. row \in [Rep -> Rows]
  BY DEF TypeInv
<1>2. CASE r \in Rep /\ row[r].state \in from
  <2>1. row' = [row EXCEPT ![r] = [@ EXCEPT !.state = to]]
    BY <1>2 DEF Swap
  <2>2. [row[r] EXCEPT !.state = to].state = to
    BY <1>1, <1>2 DEF Rows
  <2>3. row'[r].state = to /\ \A s \in Rep : s # r => row'[s] = row[s]
    BY <1>1, <1>2, <2>1, <2>2
  <2>4. /\ row[r].state \notin Pending => to \notin Pending
        /\ row[r].state # "Absent"
    BY <1>2 DEF Pending
  <2> QED BY <1>2, <2>3, <2>4 DEF RowsHeld
<1>3. CASE ~ (r \in Rep /\ row[r].state \in from)
  <2>1. row' = row
    BY <1>1, <1>3 DEF Swap
  <2> QED BY <2>1 DEF RowsHeld
<1> QED BY <1>2, <1>3

LEMMA SameRowsHold == ASSUME UNCHANGED row PROVE RowsHeld
BY DEF RowsHeld

LEMMA WorkerRows ==
    ASSUME TypeInv, ToldInv, WorkerNext
    PROVE  /\ RowsHeld
           /\ WorkerFinishes /\ worker'.at = "unspool" =>
                 row[worker.rep].state = "Processing" /\ row'[worker.rep].state \notin Pending
<1>0. row \in [Rep -> Rows] /\ \A at, s : WorkerGoes(at) /\ at = s => worker'.at = s
  BY DEF TypeInv, WorkerGoes
<1>1. CASE UNCHANGED row /\ ~WorkerFinishes
  BY <1>1, SameRowsHold
<1>2. CASE WorkerClaims \/ WorkerMisses \/ WorkerGivesUp
  <2>1. worker.at # "idle" /\ ~WorkerFinishes
    BY <1>2 DEF WorkerClaims, WorkerMisses, WorkerGivesUp, WorkerFinishes, WorkerAt
  <2>2. \/ UNCHANGED row
        \/ Swap(worker.rep, Pending, "Processing")
        \/ Swap(worker.rep, {"Processing"}, "Staged")
        \/ Swap(worker.rep, Pending, "Failed")
    BY <1>2 DEF WorkerClaims, WorkerMisses, WorkerGivesUp
  <2>3. Told(worker.rep)
    BY <2>1 DEF ToldInv
  <2>4. RowsHeld
    BY <2>2, <2>3, SwapHolds, SameRowsHold DEF Pending
  <2> QED BY <2>1, <2>4
<1>3. CASE WorkerRelabels
  <2>1. worker.rep \in Rep /\ Told(worker.rep) /\ ~WorkerFinishes
    BY <1>3 DEF WorkerRelabels, WorkerFinishes, WorkerAt, ToldInv
  <2>2. CASE UNCHANGED row
    BY <2>1, <2>2, SameRowsHold
  <2>3. CASE row' = [row EXCEPT ![worker.rep].label = "png"]
    <3>1. /\ row'[worker.rep].state = row[worker.rep].state
          /\ \A s \in Rep : s # worker.rep => row'[s] = row[s]
      BY <1>0, <2>1, <2>3 DEF Rows
    <3> QED BY <2>1, <3>1 DEF RowsHeld
  <2> QED BY <1>3, <2>2, <2>3 DEF WorkerRelabels
<1>4. CASE WorkerFinishes
  <2>1. worker.rep \in Rep /\ Told(worker.rep)
    BY <1>4 DEF WorkerFinishes, WorkerAt, ToldInv
  <2>2. CASE row[worker.rep].state = "Processing"
    <3> DEFINE new == [row[worker.rep] EXCEPT !.state = "BlobReady", !.blob = worker.bytes]
    <3>1. row' = [row EXCEPT ![worker.rep] = new]
      BY <1>4, <2>2 DEF WorkerFinishes
    <3>2. new.state = "BlobReady"
      BY <1>0, <2>1 DEF Rows
    <3> HIDE DEF new
    <3>3. /\ row'[worker.rep].state = "BlobReady"
          /\ \A s \in Rep : s # worker.rep => row'[s] = row[s]
      BY <1>0, <2>1, <3>1, <3>2
    <3> QED BY <2>1, <2>2, <3>3 DEF RowsHeld, Pending
  <2>3. CASE row[worker.rep].state # "Processing"
    <3>1. UNCHANGED row /\ worker'.at # "unspool"
      BY <1>4, <2>3 DEF WorkerFinishes, WorkerGoes, TypeInv
    <3> QED BY <3>1, SameRowsHold
  <2> QED BY <2>2, <2>3
<1> QED
  BY <1>1, <1>2, <1>3, <1>4 DEF WorkerNext, WorkerTakes, WorkerFetches,
     WorkerUnspools, WorkerReleases, WorkerFails, WorkerFinishes, WorkerAt

LEMMA TaskRows ==
    ASSUME IInv, StoreTypes, HeldInv, StoreNext, ~WorkerNext
    PROVE  RowsHeld
<1>0. TypeInv /\ \A r \in Rep : HasBytes(r) <=> r \in Elements(cache) \/ r \in Elements(spool)
  BY DEF IInv, HasBytes
<1>1. CASE UNCHANGED row
  BY <1>1, SameRowsHold
<1>2. CASE \E r \in Rep : JanitorMarks(r)
  <2>1. PICK r \in Rep : r \in old /\ Swap(r, Pending, "Lost")
    BY <1>2 DEF JanitorMarks
  <2>2. Told(r)
    BY <2>1 DEF HeldInv, ToldInv, Told, Over
  <2> QED BY <1>0, <2>1, <2>2, SwapHolds
<1>3. CASE ReaderDemotes
  <2>1. /\ reader # NoRep /\ ~HasBytes(reader)
        /\ UNCHANGED row \/ Swap(reader, Pending \cup {"Failed"}, "Lost")
    BY <1>3 DEF ReaderDemotes
  <2>2. Told(reader)
    BY <2>1 DEF HeldInv, ToldInv, Told, Over
  <2>3. "Lost" \notin Pending
    BY DEF Pending
  <2> QED BY <1>0, <2>1, <2>2, <2>3, SwapHolds, SameRowsHold
<1>4. CASE \E r \in Rep : ReconcileVisits(r)
  <2>1. PICK r \in Rep : ReconcileVisits(r)
    BY <1>4
  <2>2. CASE r \notin Elements(spool) /\ Swap(r, Pending, "Lost")
    <3>1. CASE row[r].state \notin Pending
      <4>1. UNCHANGED row
        BY <2>2, <3>1 DEF Swap
      <4> QED BY <4>1, SameRowsHold
    <3>2. CASE row[r].state \in Pending
      <4>1. /\ row'[r].state = "Lost" /\ row'[r] # row[r]
            /\ \A s \in Rep \ {r} : row'[s] = row[s]
        BY <1>0, <2>2, <3>2 DEF Swap, TypeInv, Rows, Pending
      <4>2. HasBytes(r) \/ ~Told(r) => Takes(r)
        <5>1. ~Told(r) => At(r, "cache") \/ At(r, "spool")
          BY <3>2 DEF HeldInv, FreshInv, Told, Ended, Pending, Capture, At
        <5> QED BY <1>0, <2>1, <2>2, <4>1, <5>1 DEF Takes, ReconcileVisits
      <4>3. HasBytes(r) \/ ~Told(r) => r \in swept'
        BY <4>2 DEF StoreNext, IntakeWaits, Capture
      <4> QED BY <3>2, <4>1, <4>3 DEF RowsHeld, Pending
    <3> QED BY <3>1, <3>2
  <2>3. CASE UNCHANGED row
    BY <2>3, SameRowsHold
  <2> QED BY <2>1, <2>2, <2>3 DEF ReconcileVisits
<1> QED
  BY <1>1, <1>2, <1>3, <1>4 DEF StoreNext, StartNext, ScanVisits, ScanEnds,
     StartTasks, startRest, JanitorRemoves, ReaderLooks, ReaderServes

LEMMA StoreHolds ==
    ASSUME IInv, IInv', StoreTypes, HeldInv, StoreNext
    PROVE  HeldInv'
<1>0. /\ UNCHANGED <<entry, job>> /\ LiveEntries' = LiveEntries
      /\ \A c : (At(c, "save") <=> At(c, "save")') /\ (Replaces(c) <=> Replaces(c)')
      /\ \A c : (Told(c) <=> Told(c)') /\ (Over(c) <=> Over(c)')
      /\ swept \subseteq swept'
  BY DEF StoreNext, IntakeWaits, LiveEntries, Live, At, Replaces, Told, Over
<1>1. ToldInv /\ UnspoolInv /\ FreshInv /\ RowsKept({})
  BY StoreKeeps DEF IInv, HeldInv
<1>2. CASE WorkerNext
  <2>1. /\ Elements(cache') \subseteq Elements(cache)
        /\ Elements(spool') \subseteq Elements(spool)
        /\ Elements(spool) \ Elements(spool') \subseteq
                 {r \in Rep : worker.at = "unspool" /\ worker.rep = r}
        /\ Elements(queue') \subseteq Elements(queue)
        /\ worker'.at # "idle" =>
              \/ worker'.rep \in Elements(queue)
              \/ worker.at # "idle" /\ worker'.rep = worker.rep
        /\ worker'.at = "unspool" => WorkerFinishes /\ worker'.rep = worker.rep
        /\ UNCHANGED <<old, evicted, janitor, reader, life, todo>>
    BY <1>2, WorkerStores
  <2>2. /\ RowsHeld
        /\ WorkerFinishes /\ worker'.at = "unspool" =>
              row[worker.rep].state = "Processing" /\ row'[worker.rep].state \notin Pending
    BY <1>1, <1>2, WorkerRows DEF IInv
  <2>3. FreshInv' /\ SaveInv' /\ NoPhantomEntry' /\ LostIsGone'
    BY <1>0, <1>1, <2>1, <2>2, StillHeld DEF UnspoolInv
  <2>4. ToldInv'
    <3>1. Elements(queue) \subseteq Rep
      BY DEF StoreTypes, Elements
    <3>2. janitor # NoRep => row'[janitor].state \in Missing
      BY <1>1 DEF ToldInv, RowsKept, StoreTypes
    <3> QED BY <1>0, <1>1, <2>1, <3>1, <3>2 DEF ToldInv
  <2>5. UnspoolInv'
    <3>1. SUFFICES ASSUME worker'.at = "unspool"
                   PROVE  /\ row'[worker.rep].state \notin Pending
                          /\ ~ (At(worker.rep, "save") /\ Replaces(worker.rep))
      BY <1>0, <2>1 DEF UnspoolInv
    <3>2. worker.rep \in Capture
      BY <2>1, <3>1 DEF WorkerFinishes, WorkerAt, Capture, ToldInv, HeldInv
    <3> QED BY <1>1, <2>1, <2>2, <3>1, <3>2 DEF FreshInv, Over, At, Ended
  <2> QED BY <2>3, <2>4, <2>5 DEF HeldInv
<1>3. CASE ~WorkerNext
  <2>1. /\ Elements(spool') \subseteq Elements(spool)
        /\ Elements(spool) \ Elements(spool') \subseteq
              {r \in Rep : \/ janitor = r
                           \/ life = "scan" /\ row[r].state \notin Pending}
        /\ Elements(queue') \subseteq Elements(queue) \cup
              {r \in Rep : reader = r \/ (life = "scan" /\ r \in todo)}
        /\ reader' # NoRep => reader' = reader \/ reader' \in {entry[e] : e \in LiveEntries}
        /\ janitor' # NoRep =>
              \/ janitor' = janitor
              \/ janitor' \in old /\ row'[janitor'].state \in Missing
        /\ janitor' \in Rep \cup {NoRep}
        /\ life' = "scan" => life = "scan" /\ todo' \subseteq todo
        /\ life = "running" => life' = "running"
        /\ UNCHANGED <<cache, ledger, evicted, old, worker>>
    BY <1>3, TasksStore DEF IInv
  <2>2. RowsHeld
    BY <1>3, TaskRows
  <2>3. \A r \in Elements(spool) \ Elements(spool') :
           \/ row[r].state \notin Pending /\ ~ (At(r, "save") /\ Replaces(r))
           \/ r \in swept'
    <3>1. ASSUME NEW r \in Rep, janitor = r
          PROVE  row[r].state \notin Pending /\ ~At(r, "save")
      <4>1. janitor # NoRep
        BY <3>1, StoreAssumption
      <4> QED BY <1>1, <3>1, <4>1 DEF ToldInv, Missing, Pending, Over, Ended, At
    <3>2. ASSUME NEW r \in Elements(spool) \ Elements(spool'), life = "scan", r \in Rep,
                 At(r, "save"), Replaces(r)
          PROVE  r \in swept'
      BY <3>2 DEF StoreNext, IntakeWaits, Takes, Capture
    <3> QED BY <2>1, <3>1, <3>2
  <2>4. FreshInv' /\ SaveInv' /\ NoPhantomEntry' /\ LostIsGone'
    BY <1>0, <2>1, <2>2, <2>3, StillHeld
  <2>5. ToldInv'
    <3>1. janitor # NoRep => row'[janitor].state \in Missing
      BY <1>1 DEF ToldInv, RowsKept, StoreTypes
    <3>2. \A e \in LiveEntries : Over(entry[e])
      BY DEF IInv, EntryInv
    <3>3. \A r : Over(r) => Told(r)
      BY DEF Over, Told
    <3>4. \A r \in Elements(spool') \cup Elements(queue') : Told(r)
      <4>1. reader \in Rep => Told(reader)
        BY <1>1, <3>3, StoreAssumption DEF ToldInv
      <4> QED BY <1>1, <2>1, <4>1 DEF ToldInv
    <3>5. worker'.at # "idle" => worker'.rep \in Rep /\ Told(worker'.rep)
      BY <1>1, <2>1 DEF ToldInv
    <3>6. life' = "scan" => \A r \in todo' : Told(r)
      BY <1>1, <2>1 DEF ToldInv
    <3>7. reader' # NoRep => Over(reader')
      BY <1>1, <2>1, <3>2 DEF ToldInv
    <3>8. janitor' # NoRep => Over(janitor') /\ row'[janitor'].state \in Missing
      BY <1>1, <2>1, <3>1 DEF ToldInv
    <3> QED BY <1>0, <1>1, <2>1, <3>4, <3>5, <3>6, <3>7, <3>8 DEF ToldInv
  <2>6. UnspoolInv'
    <3>1. worker.at = "unspool" => worker.rep \in Rep
      BY <1>1 DEF ToldInv
    <3> QED BY <1>0, <1>1, <2>1, <2>2, <3>1 DEF UnspoolInv, RowsHeld
  <2> QED BY <2>4, <2>5, <2>6 DEF HeldInv
<1> QED BY <1>2, <1>3

-----------------------------------------------------------------------------
(* The steps of a writer: what WriterStep asks, and that each gives it.     *)

\* A step of the one capture c that keeps what HeldInv asks: of the rows of
\* others it only gives up what has no bytes, it tells of c from its spool
\* write on, and an entry that gets an event gets c.
WriterStep(c) ==
    /\ ~Over(c) /\ ~At(c, "idle")
    /\ \A d \in Capture \ {c} : job'[d] = job[d]
    /\ \A r \in Rep \ {c} :
          /\ row[r].state \notin Pending => row'[r].state \notin Pending
          /\ row[r].state \in Missing => row'[r].state \in Missing
          /\ row'[r].state = "Lost" => row[r].state = "Lost" \/ ~HasBytes(r)
          /\ ~Over(r) => row'[r] = row[r]
    /\ row'[c].state = "Lost" => row[c].state = "Lost"
    /\ At(c, "spool") => Told(c)'
    /\ At(c, "save") => Over(c)' /\ (~Replaces(c) => row'[c] = row[c])
    /\ job'[c].at \notin {"cache", "spool"} \cup {"save"} \cup Ended =>
          row'[c].state = "Absent"
    /\ job'[c].at \in {"cache", "spool"} =>
          row'[c].state \in {"Absent", "Staged"} \/ c \in swept
    /\ ~Over(c)' /\ Replaces(c)' => row'[c].state = "Absent"
    /\ At(c, "save")' =>
          \/ At(c, "spool")
          \/ row'[c].state \notin Pending /\ ~Replaces(c)'
    /\ \A e \in LiveEntries' :
          \/ e \in LiveEntries /\ entry'[e] = entry[e]
          \/ entry'[e] = c /\ At(c, "save") /\ (Replaces(c) \/ row'[c] = row[c])

LEMMA WriterHolds ==
    ASSUME IInv, IInv', StoreTypes, HeldInv, NEW c \in Capture, JobNext(c),
           WriterStep(c)
    PROVE  HeldInv'
<1>0. /\ ToldInv /\ FreshInv /\ SaveInv /\ UnspoolInv
      /\ NoPhantomEntry /\ LostIsGone /\ Capture = Rep /\ c \in Rep
      /\ ~Over(c) /\ ~At(c, "idle")
      /\ \A d \in Capture \ {c} : job'[d] = job[d]
  BY DEF HeldInv, Capture, WriterStep
<1>1. /\ Elements(cache') \subseteq Elements(cache) \cup {r \in {c} : At(c, "cache")}
      /\ Elements(spool') \subseteq Elements(spool) \cup {r \in {c} : At(c, "spool")}
      /\ Elements(spool) \ Elements(spool') \subseteq evicted'
      /\ At(c, "spool") /\ job'[c].at = "save" => c \in Elements(spool')
      /\ evicted \subseteq evicted'
      /\ Elements(queue') \subseteq
            Elements(queue) \cup {r \in {c} : Spool(c)} \cup {entry[e] : e \in LiveEntries}
      /\ UNCHANGED <<old, worker, janitor, reader, life>>
  BY WriterStores
<1>2. UNCHANGED swept /\ todo' \subseteq todo \cup {r \in {c} : Spool(c)}
  BY WriterSweeps
<1>3. /\ Told(c) => At(c, "save") /\ Over(c)'
      /\ Told(c) \/ At(c, "spool") => Told(c)'
  BY <1>0 DEF Told, Over, At, WriterStep
<1>4. \A r : /\ Over(r) /\ r \in Capture => Over(r)' /\ r # c
             /\ Told(r) /\ r \in Capture => Told(r)'
  BY <1>0, <1>3 DEF Over, Told
<1>5. \A e \in LiveEntries : entry[e] \in Capture /\ Over(entry[e])
  BY DEF IInv, EntryInv
<1>6. ToldInv'
  <2>1. /\ Elements(spool) \subseteq Rep /\ Elements(queue) \subseteq Rep
        /\ old \subseteq Rep /\ reader \in Rep \cup {NoRep} /\ janitor \in Rep \cup {NoRep}
    BY DEF StoreTypes, Elements
  <2>2. \A r \in Elements(spool') : Told(r)'
    BY <1>0, <1>1, <1>3, <1>4, <2>1 DEF ToldInv
  <2>3. Spool(c) => Told(c)'
    BY <1>3 DEF Spool
  <2>4. \A r : Over(r) => Told(r)
    BY DEF Over, Told
  <2>5. \A r \in Elements(queue') : Told(r)'
    BY <1>0, <1>1, <1>4, <1>5, <2>1, <2>3, <2>4 DEF ToldInv
  <2>6. worker.at # "idle" => worker.rep \in Rep /\ Told(worker.rep)'
    BY <1>0, <1>1, <1>4 DEF ToldInv
  <2>7. \A r \in old : Over(r)'
    BY <1>0, <1>4, <2>1 DEF ToldInv
  <2>8. reader # NoRep => Over(reader)'
    BY <1>0, <1>1, <1>4, <2>1 DEF ToldInv
  <2>9. janitor # NoRep => Over(janitor)' /\ row'[janitor].state \in Missing
    BY <1>0, <1>1, <1>4, <2>1 DEF ToldInv, WriterStep
  <2>10. life = "scan" => \A r \in todo' : Told(r)'
    BY <1>0, <1>2, <1>4, <2>1, <2>3 DEF ToldInv, StoreTypes
  <2> QED BY <1>1, <2>2, <2>5, <2>6, <2>7, <2>8, <2>9, <2>10 DEF ToldInv
<1>7. FreshInv'
  <2>1. ASSUME NEW d \in Capture, d # c
        PROVE  /\ job'[d] = job[d] /\ (At(d, "save")' <=> At(d, "save"))
               /\ Replaces(d)' <=> Replaces(d)
               /\ ~Over(d) => row'[d] = row[d]
    BY <1>0, <2>1 DEF At, Replaces, WriterStep
  <2>2. ASSUME NEW d \in Capture
        PROVE  /\ job'[d].at \notin {"cache", "spool"} \cup {"save"} \cup Ended =>
                     row'[d].state = "Absent"
               /\ job'[d].at \in {"cache", "spool"} =>
                     row'[d].state \in {"Absent", "Staged"} \/ d \in swept'
               /\ ~Over(d)' /\ Replaces(d)' => row'[d].state = "Absent"
    <3>1. CASE d = c
      BY <1>2, <3>1 DEF WriterStep
    <3>2. CASE d # c
      BY <1>0, <1>2, <2>1, <3>2 DEF FreshInv, Over, Ended, At
    <3> QED BY <3>1, <3>2
  <2> QED BY <2>2 DEF FreshInv
<1>8. SaveInv'
  <2>1. ASSUME NEW d \in Capture, At(d, "save")',
               Replaces(d)' \/ row'[d].state \in Pending
        PROVE  d \in Elements(spool') \cup evicted' \cup swept'
    <3>1. CASE d = c
      BY <1>1, <2>1, <3>1 DEF WriterStep, At
    <3>2. CASE d # c
      <4>1. At(d, "save") /\ (Replaces(d) <=> Replaces(d)') /\ ~Over(d)
        BY <1>0, <2>1, <3>2 DEF At, Replaces, Over, Ended
      <4>2. row'[d] = row[d]
        BY <1>0, <3>2, <4>1 DEF WriterStep
      <4> QED BY <1>0, <1>1, <1>2, <2>1, <4>1, <4>2 DEF SaveInv
    <3> QED BY <3>1, <3>2
  <2> QED BY <2>1 DEF SaveInv
<1>9. UnspoolInv'
  <2>1. SUFFICES ASSUME worker.at = "unspool"
                 PROVE  /\ row'[worker.rep].state \notin Pending
                        /\ ~ (At(worker.rep, "save")' /\ Replaces(worker.rep)')
    BY <1>1 DEF UnspoolInv, At, Replaces
  <2>2. /\ worker.rep \in Rep /\ Told(worker.rep)
        /\ row[worker.rep].state \notin Pending
        /\ ~ (At(worker.rep, "save") /\ Replaces(worker.rep))
    BY <1>0, <2>1 DEF ToldInv, UnspoolInv
  <2>3. CASE worker.rep = c
    BY <1>1, <1>3, <2>2, <2>3 DEF WriterStep, At, Over, Ended
  <2>4. CASE worker.rep # c
    BY <1>0, <1>1, <2>2, <2>4 DEF WriterStep, At, Replaces
  <2> QED BY <2>3, <2>4
<1>10. NoPhantomEntry'
  <2>1. ASSUME NEW e \in LiveEntries', row'[entry'[e]].state \in Pending
        PROVE  entry'[e] \in Elements(spool') \cup evicted' \cup swept'
    <3>1. CASE e \in LiveEntries /\ entry'[e] = entry[e]
      <4>1. entry[e] \in Rep \ {c}
        BY <1>0, <1>4, <1>5, <3>1
      <4>2. row[entry[e]].state \in Pending
        BY <2>1, <3>1, <4>1 DEF WriterStep
      <4>3. entry[e] \in Elements(spool) \cup evicted \cup swept
        BY <1>0, <3>1, <4>2 DEF NoPhantomEntry
      <4> QED BY <1>1, <1>2, <3>1, <4>3
    <3>2. CASE entry'[e] = c /\ At(c, "save") /\ (Replaces(c) \/ row'[c] = row[c])
      <4>1. c \in Elements(spool) \cup evicted \cup swept
        BY <1>0, <2>1, <3>2 DEF SaveInv
      <4> QED BY <1>1, <1>2, <3>2, <4>1
    <3> QED BY <3>1, <3>2 DEF WriterStep
  <2>2. \A e \in LiveEntries' : row'[entry'[e]].state # "Absent"
    BY DEF IInv, EntryInv
  <2> QED BY <2>1, <2>2 DEF NoPhantomEntry
<1>11. LostIsGone'
  <2>1. ASSUME NEW r \in Rep \ swept, row'[r].state = "Lost"
        PROVE  r \in old \/ ~HasBytes(r)'
    <3>1. CASE r = c
      <4>1. row[c].state = "Lost"
        BY <2>1, <3>1 DEF WriterStep
      <4>2. ~At(c, "cache") /\ ~At(c, "spool")
        BY <1>0, <2>1, <3>1, <4>1 DEF FreshInv, At
      <4>3. HasBytes(c)' => HasBytes(c)
        BY <1>1, <4>2 DEF HasBytes
      <4> QED BY <1>0, <2>1, <3>1, <4>1, <4>3 DEF LostIsGone
    <3>2. CASE r # c
      <4>1. HasBytes(r)' => HasBytes(r)
        BY <1>1, <3>2 DEF HasBytes
      <4>2. row[r].state = "Lost" \/ ~HasBytes(r)
        BY <2>1, <3>2 DEF WriterStep
      <4> QED BY <1>0, <2>1, <4>1, <4>2 DEF LostIsGone
    <3> QED BY <3>1, <3>2
  <2> QED BY <1>1, <1>2, <2>1 DEF LostIsGone, HasBytes
<1> QED BY <1>6, <1>7, <1>8, <1>9, <1>10, <1>11 DEF HeldInv

\* A step of c that leaves the rows and the entries alone.
LEMMA QuietStep ==
    ASSUME IInv, HeldInv, NEW c \in Capture,
           ~Over(c), ~At(c, "idle"),
           \A d \in Capture \ {c} : job'[d] = job[d],
           UNCHANGED <<row, entry>>,
           \/ job[c].at \notin {"cache", "spool", "save"} /\ job'[c].at # "save"
           \/ /\ Replaces(c)' <=> Replaces(c)
              /\ \/ At(c, "cache") /\ At(c, "spool")'
                 \/ At(c, "spool") /\ (At(c, "save") \/ Over(c))'
                 \/ At(c, "save") /\ Over(c)'
    PROVE  WriterStep(c)
<1>0. c \in Rep /\ FreshInv
  BY DEF HeldInv, Capture
<1>1. LiveEntries' = LiveEntries
  BY DEF LiveEntries, Live
<1>2. CASE job[c].at \notin {"cache", "spool", "save"} /\ job'[c].at # "save"
  <2>1. row[c].state = "Absent"
    BY <1>2 DEF FreshInv, HeldInv, Over
  <2> QED BY <1>1, <1>2, <2>1 DEF WriterStep, At
<1>3. CASE /\ Replaces(c)' <=> Replaces(c)
           /\ \/ At(c, "cache") /\ At(c, "spool")'
              \/ At(c, "spool") /\ (At(c, "save") \/ Over(c))'
              \/ At(c, "save") /\ Over(c)'
  <2>1. /\ At(c, "cache") \/ At(c, "spool") =>
              row[c].state \in {"Absent", "Staged"} \/ c \in swept
        /\ ~Over(c) /\ Replaces(c) => row[c].state = "Absent"
    BY <1>0 DEF FreshInv, At
  <2>2. ~Over(c)' /\ Replaces(c)' => row'[c].state = "Absent"
    BY <1>3, <2>1
  <2>3. /\ job'[c].at \in {"spool", "save"} \cup Ended
        /\ At(c, "spool") => Told(c)'
        /\ At(c, "save") => Over(c)'
        /\ At(c, "save")' => At(c, "spool")
    BY <1>3 DEF At, Over, Ended, Told
  <2>4. job'[c].at = "spool" => At(c, "cache")
    BY <1>3 DEF At, Over, Ended
  <2>5. /\ job'[c].at \notin {"cache", "spool"} \cup {"save"} \cup Ended =>
              row'[c].state = "Absent"
        /\ job'[c].at \in {"cache", "spool"} =>
              row'[c].state \in {"Absent", "Staged"} \/ c \in swept
    BY <2>1, <2>3, <2>4 DEF Ended
  <2> QED BY <1>1, <2>2, <2>3, <2>5 DEF WriterStep
<1> QED BY <1>2, <1>3

LEMMA QuietSteps ==
    ASSUME IInv, HeldInv, NEW c \in Capture,
           \/ Lock(c) \/ LookupFinds(c) \/ LookupMisses(c) \/ LookupStrays(c)
           \/ LookupFails(c) \/ Touch(c) \/ TouchFails(c) \/ CheckHeld(c)
           \/ RapidDuplicate(c) \/ Resurface(c) \/ Fetch(c) \/ FetchFails(c)
    PROVE  WriterStep(c)
<1>0. job \in [Capture -> Jobs]
  BY DEF IInv, TypeInv
<1>1. /\ job[c].at \in {"lock", "lookup", "touch", "held", "resurface", "fetch"}
      /\ UNCHANGED <<row, entry>>
  BY DEF Lock, LookupFinds, LookupMisses, LookupStrays, LookupFails, Touch, TouchFails,
     CheckHeld, RapidDuplicate, Resurface, Fetch, FetchFails, At, onlyJob, storeVars,
     jobRest, storeRest
<1>2. \/ \E at \in Steps \ {"save"} : Go(c, at)
      \/ LookupFinds(c) \/ Fetch(c)
  BY DEF Lock, LookupMisses, LookupStrays, LookupFails, Touch, TouchFails, NotFound,
     CheckHeld, RapidDuplicate, Resurface, FetchFails, Steps
<1>3. job'[c].at # "save" /\ \A d \in Capture \ {c} : job'[d] = job[d]
  <2>1. CASE \E at \in Steps \ {"save"} : Go(c, at)
    <3>1. PICK at \in Steps \ {"save"} : Go(c, at)
      BY <2>1
    <3>2. /\ job'[c] = [job[c] EXCEPT !.at = at]
          /\ \A d \in Capture \ {c} : job'[d] = job[d]
      BY <3>1, Goes DEF IInv
    <3> QED BY <1>0, <3>1, <3>2 DEF Jobs
  <2>2. CASE LookupFinds(c)
    <3>1. PICK e, at : /\ at \in {"touch", "held"}
                       /\ job' = [job EXCEPT ![c].target = e, ![c].at = at]
      BY <2>2 DEF LookupFinds
    <3>2. [job[c] EXCEPT !.target = e, !.at = at].at = at
      BY <1>0 DEF Jobs
    <3> QED BY <1>0, <3>1, <3>2
  <2>3. CASE Fetch(c)
    <3>1. PICK w, at : /\ at \in {"insert", "cache", "done"}
                       /\ job' = [job EXCEPT ![c].whole = w, ![c].at = at]
      BY <2>3 DEF Fetch
    <3>2. [job[c] EXCEPT !.whole = w, !.at = at].at = at
      BY <1>0 DEF Jobs
    <3> QED BY <1>0, <3>1, <3>2
  <2> QED BY <1>2, <2>1, <2>2, <2>3
<1> QED BY <1>1, <1>3, QuietStep DEF At, Over, Ended

LEMMA WritingSteps ==
    ASSUME IInv, HeldInv, NEW c \in Capture,
           Cache(c) \/ Spool(c) \/ StoreFails(c) \/ ReplaceVanished(c)
    PROVE  WriterStep(c)
<1>0. job \in [Capture -> Jobs]
  BY DEF IInv, TypeInv
<1>1. /\ UNCHANGED <<row, entry>>
      /\ \/ At(c, "cache") /\ Go(c, "spool")
         \/ At(c, "spool") /\ (Go(c, "save") \/ Go(c, "done"))
         \/ job[c].at \in {"insert", "save"} /\ Go(c, "done")
  BY DEF Cache, Spool, StoreFails, ReplaceVanished, At, onlyJob, storeVars, jobRest
<1>2. PICK at \in {"spool", "save", "done"} :
         /\ Go(c, at)
         /\ \/ At(c, "cache") /\ at = "spool"
            \/ At(c, "spool") /\ at \in {"save", "done"}
            \/ job[c].at \in {"insert", "save"} /\ at = "done"
  BY <1>1
<1>3. job'[c] = [job[c] EXCEPT !.at = at] /\ \A d \in Capture \ {c} : job'[d] = job[d]
  BY <1>2, Goes DEF IInv, Steps
<1>4. job'[c].at = at /\ (Replaces(c)' <=> Replaces(c))
  BY <1>0, <1>3 DEF Jobs, Replaces
<1> QED BY <1>1, <1>2, <1>3, <1>4, QuietStep DEF At, Over, Ended

LEMMA InsertStep ==
    ASSUME IInv, HeldInv, NEW c \in Capture, Insert(c)
    PROVE  WriterStep(c)
<1>0. job \in [Capture -> Jobs] /\ row \in [Rep -> Rows] /\ c \in Rep
  BY DEF IInv, TypeInv, Capture
<1>1. PICK s \in {"Staged", "Placeholder"}, at \in {"cache", "save"} :
         /\ row' = [row EXCEPT ![c] = Row(s)] /\ Go(c, at)
         /\ s = "Staged" <=> at = "cache"
  BY DEF Insert
<1>2. At(c, "insert") /\ UNCHANGED entry
  BY DEF Insert, jobRest
<1>3. job'[c] = [job[c] EXCEPT !.at = at] /\ \A d \in Capture \ {c} : job'[d] = job[d]
  BY <1>1, Goes DEF IInv, Steps
<1>4. job'[c].at = at /\ (Replaces(c)' <=> Replaces(c)) /\ ~Replaces(c)
  BY <1>0, <1>2, <1>3 DEF Jobs, Replaces, IInv, WriterInv, TargetOf
<1>5. row'[c].state = s /\ \A r \in Rep \ {c} : row'[r] = row[r]
  BY <1>0, <1>1 DEF Row
<1>6. LiveEntries' = LiveEntries
  BY <1>2 DEF LiveEntries, Live
<1> QED BY <1>1, <1>2, <1>3, <1>4, <1>5, <1>6 DEF WriterStep, At, Over, Ended, Pending

LEMMA DemotingStep ==
    ASSUME IInv, HeldInv, NEW c \in Capture, ResurfaceFails(c)
    PROVE  WriterStep(c)
<1> DEFINE v == entry[job[c].target]
<1>0. job \in [Capture -> Jobs] /\ row \in [Rep -> Rows] /\ c \in Rep /\ Capture = Rep
  BY DEF IInv, TypeInv, Capture
<1>1. At(c, "resurface") /\ Go(c, "done") /\ UNCHANGED entry
  BY DEF ResurfaceFails, jobRest
<1>2. job'[c].at = "done" /\ \A d \in Capture \ {c} : job'[d] = job[d]
  <2>1. job'[c] = [job[c] EXCEPT !.at = "done"] /\ \A d \in Capture \ {c} : job'[d] = job[d]
    BY <1>1, Goes DEF IInv, Steps
  <2> QED BY <1>0, <2>1 DEF Jobs
<1>3. CASE UNCHANGED row
  BY <1>1, <1>2, <1>3, QuietStep DEF At, Over, Ended
<1>4. CASE /\ Live(job[c].target) /\ ~HasBytes(v)
           /\ Swap(v, Pending \cup {"Failed"}, "Lost") /\ row' # row
  <2>1. v \in Capture /\ Over(v)
    BY <1>4 DEF IInv, EntryInv, LiveEntries, Live
  <2>2. v # c
    BY <1>1, <2>1 DEF At, Over, Ended
  <2>3. row' = [row EXCEPT ![v] = [@ EXCEPT !.state = "Lost"]]
    BY <1>4 DEF Swap
  <2>4. row[v].state \in Pending \cup {"Failed"}
    BY <1>4 DEF Swap
  <2> HIDE DEF v
  <2>5. row'[v].state = "Lost" /\ \A r \in Rep \ {v} : row'[r] = row[r]
    BY <1>0, <2>1, <2>3 DEF Rows
  <2>6. row[c].state = "Absent"
    BY <1>0, <1>1 DEF HeldInv, FreshInv, At, Ended
  <2>7. LiveEntries' = LiveEntries
    BY <1>1 DEF LiveEntries, Live
  <2>8. row'[c] = row[c]
    BY <1>0, <2>2, <2>5
  <2>9. \A r \in Rep \ {c} :
          /\ row[r].state \notin Pending => row'[r].state \notin Pending
          /\ row[r].state \in Missing => row'[r].state \in Missing
          /\ row'[r].state = "Lost" => row[r].state = "Lost" \/ ~HasBytes(r)
          /\ ~Over(r) => row'[r] = row[r]
    <3>1. "Lost" \notin Pending /\ "Lost" \in Missing
      BY DEF Pending, Missing
    <3> QED BY <1>4, <2>1, <2>5, <3>1 DEF v
  <2> QED BY <1>1, <1>2, <2>6, <2>7, <2>8, <2>9 DEF WriterStep, At, Over, Ended, Told
<1> QED BY <1>3, <1>4 DEF ResurfaceFails

LEMMA SaveStep ==
    ASSUME IInv, HeldInv, NEW c \in Capture, Save(c)
    PROVE  WriterStep(c)
<1>0. c \in Rep /\ Capture = Rep
  BY DEF Capture
<1>1. /\ At(c, "save") /\ ~Replaces(c) /\ entry' = [entry EXCEPT ![c] = c]
      /\ UNCHANGED row
  BY DEF Save, storeVars
<1>2. PICK at \in Ended : Go(c, at)
  BY DEF Save, Ended
<1>3. /\ ~Over(c) /\ Over(c)'
      /\ \A d \in Capture \ {c} : job'[d] = job[d]
  BY <1>1, <1>2, SaveEnds
<1>4. \A e \in LiveEntries' :
         \/ e \in LiveEntries /\ entry'[e] = entry[e]
         \/ entry'[e] = c
  BY <1>1 DEF IInv, TypeInv, LiveEntries, Live
<1> QED BY <1>1, <1>3, <1>4 DEF WriterStep, At, Over, Ended

LEMMA ReplaceStep ==
    ASSUME IInv, HeldInv, NEW c \in Capture, Replace(c)
    PROVE  WriterStep(c)
<1>0. PICK e, v : e = job[c].target /\ v = entry[e]
  OBVIOUS
<1>1. /\ At(c, "save") /\ Replaces(c) /\ Live(e) /\ Go(c, "applied")
      /\ entry' = [entry EXCEPT ![e] = c]
      /\ row' = [row EXCEPT ![c] = Row("Staged"), ![v] = Row("Absent")]
  BY <1>0 DEF Replace
<1>2. row \in [Rep -> Rows] /\ c \in Rep /\ Capture = Rep
  BY DEF IInv, TypeInv, Capture
<1>3. /\ ~Over(c) /\ Over(c)'
      /\ \A d \in Capture \ {c} : job'[d] = job[d]
  <2>1. "applied" \in Ended
    BY DEF Ended
  <2> QED BY <1>1, <2>1, SaveEnds
<1>4. v \in Rep /\ Over(v) /\ v # c
  BY <1>0, <1>1, <1>2, <1>3 DEF IInv, EntryInv, LiveEntries, Live
<1>5. /\ row'[c].state = "Staged" /\ row'[v].state = "Absent"
      /\ \A r \in Rep \ {c, v} : row'[r] = row[r]
  BY <1>1, <1>2, <1>4 DEF Row
<1>6. \A d \in LiveEntries' :
         \/ d \in LiveEntries /\ entry'[d] = entry[d]
         \/ entry'[d] = c
  BY <1>1 DEF IInv, TypeInv, LiveEntries, Live
<1>7. \A r \in Rep \ {c} :
         /\ row[r].state \notin Pending => row'[r].state \notin Pending
         /\ row[r].state \in Missing => row'[r].state \in Missing
         /\ row'[r].state = "Lost" => row[r].state = "Lost" \/ ~HasBytes(r)
         /\ ~Over(r) => row'[r] = row[r]
  <2>1. "Absent" \notin Pending /\ "Absent" \in Missing
    BY DEF Pending, Missing
  <2> QED BY <1>4, <1>5, <2>1
<1> QED BY <1>1, <1>3, <1>5, <1>6, <1>7 DEF WriterStep, At, Over, Ended

LEMMA JobHolds ==
    ASSUME IInv, IInv', StoreTypes, HeldInv, NEW c \in Capture, JobNext(c)
    PROVE  HeldInv'
<1>1. WriterStep(c)
  BY QuietSteps, WritingSteps, InsertStep, DemotingStep, SaveStep, ReplaceStep DEF JobNext
<1> QED BY <1>1, WriterHolds

-----------------------------------------------------------------------------
(* The steps of nobody's capture, and the two theorems.                    *)

\* Whatever the store names is a representation.
LEMMA Named ==
    ASSUME StoreTypes
    PROVE  /\ Elements(spool) \subseteq Rep /\ Elements(queue) \subseteq Rep
           /\ old \subseteq Rep
           /\ reader # NoRep => reader \in Rep
           /\ janitor # NoRep => janitor \in Rep
BY DEF StoreTypes, Elements

LEMMA CopyHolds ==
    ASSUME IInv, IInv', StoreTypes, HeldInv,
           NEW c \in Capture, NEW h \in Content, NEW o \in {"local", "frame"},
           Copy(c, h, o)
    PROVE  HeldInv'
<1>0. /\ ToldInv /\ FreshInv /\ SaveInv /\ UnspoolInv
      /\ NoPhantomEntry /\ LostIsGone /\ Capture = Rep /\ job \in [Capture -> Jobs]
  BY DEF HeldInv, Capture, IInv, TypeInv
<1>1. /\ At(c, "idle")
      /\ UNCHANGED <<row, cache, spool, ledger, queue, old, evicted, worker, janitor,
                     reader, life, todo, faults, entry, swept>>
  BY DEF Copy, onlyJob, storeVars, jobRest
<1>2. job'[c].at = "lock" /\ \A d \in Capture \ {c} : job'[d] = job[d]
  BY <1>0 DEF Copy, Idle
<1>3. ASSUME NEW d \in Rep
      PROVE  /\ At(d, "save")' <=> At(d, "save")
             /\ Told(d) => Told(d)'
             /\ Over(d) => Over(d)'
             /\ d # c => job'[d] = job[d] /\ (Replaces(d)' <=> Replaces(d))
  BY <1>0, <1>1, <1>2 DEF At, Told, Over, Ended, Replaces
<1>4. ToldInv'
  <2>1. life = "scan" => \A r \in todo : Told(r)'
    BY <1>0, <1>3 DEF ToldInv, StoreTypes
  <2> QED BY <1>0, <1>1, <1>3, <2>1, Named DEF ToldInv
<1>5. FreshInv'
  <2>1. row[c].state = "Absent"
    BY <1>0, <1>1 DEF FreshInv, At, Ended
  <2> QED BY <1>0, <1>1, <1>3, <2>1 DEF FreshInv, Over
<1>6. SaveInv'
  BY <1>0, <1>1, <1>2, <1>3 DEF SaveInv, At
<1>7. UnspoolInv'
  <2>1. worker.at = "unspool" => worker.rep \in Rep
    BY <1>0 DEF ToldInv
  <2>2. \A d \in Rep : At(d, "save")' /\ Replaces(d)' => At(d, "save") /\ Replaces(d)
    BY <1>2, <1>3 DEF At
  <2> QED BY <1>0, <1>1, <2>1, <2>2 DEF UnspoolInv
<1>8. NoPhantomEntry' /\ LostIsGone'
  BY <1>0, <1>1 DEF NoPhantomEntry, LostIsGone, LiveEntries, Live, HasBytes
<1> QED BY <1>4, <1>5, <1>6, <1>7, <1>8 DEF HeldInv

\* A deletion, the passing of days, nothing at all.
LEMMA RestHolds ==
    ASSUME IInv, IInv', StoreTypes, HeldInv,
           \/ \E e \in Capture : DeleteBegins(e)
           \/ DeleteEntry \/ DeleteEvent \/ DeleteFails \/ DaysPass \/ UNCHANGED vars
    PROVE  HeldInv'
<1>0. /\ ToldInv /\ FreshInv /\ UnspoolInv /\ Capture = Rep
      /\ row \in [Rep -> Rows]
  BY DEF HeldInv, Capture, IInv, TypeInv
<1>1. UNCHANGED <<job, cache, spool, queue, evicted, worker, janitor, reader, life, todo,
                  swept>>
  BY DEF DeleteBegins, DeleteEntry, DeleteEvent, DeleteFails, DaysPass, vars, storeVars,
     intakeVars, filesVars, startVars, storeRest
<1>2. \A c : /\ At(c, "save")' <=> At(c, "save")
             /\ Replaces(c)' <=> Replaces(c)
             /\ Told(c)' <=> Told(c)
             /\ Over(c)' <=> Over(c)
  BY <1>1 DEF At, Replaces, Told, Over
<1>3. RowsHeld /\ \A r \in Rep : row[r].state \in Missing => row'[r].state \in Missing
  <2>1. CASE UNCHANGED row
    BY <2>1 DEF RowsHeld
  <2>2. CASE DeleteEvent
    <3>1. deletion.event \in Rep /\ Over(deletion.event)
      BY <1>0, <2>2 DEF DeleteEvent, IInv, DeletionInv
    <3>2. /\ row'[deletion.event].state = "Absent"
          /\ \A r \in Rep \ {deletion.event} : row'[r] = row[r]
      BY <1>0, <2>2, <3>1 DEF DeleteEvent, Row
    <3>3. Told(deletion.event)
      BY <3>1 DEF Told, Over
    <3> QED BY <3>2, <3>3 DEF RowsHeld, Pending, Missing
  <2> QED BY <2>1, <2>2 DEF DeleteBegins, DeleteEntry, DeleteFails, DaysPass, vars,
             storeVars
<1>4. old \subseteq old' /\ \A r \in old' : Over(r)
  <2>1. CASE DaysPass
    <3>1. old' = old \cup Elements(spool) /\ ~Busy
      BY <2>1 DEF DaysPass
    <3>2. \A r \in Elements(spool) : r \in Capture /\ Told(r)
      BY <1>0, Named DEF ToldInv
    <3>3. \A r \in Elements(spool) : Over(r)
      BY <3>1, <3>2 DEF Busy, Locked, Told, Over, Ended
    <3> QED BY <1>0, <3>1, <3>3 DEF ToldInv
  <2>2. CASE ~DaysPass
    <3>1. UNCHANGED old
      BY <2>2 DEF DeleteBegins, DeleteEntry, DeleteEvent, DeleteFails, vars, storeVars,
         storeRest
    <3> QED BY <1>0, <3>1 DEF ToldInv
  <2> QED BY <2>1, <2>2
<1>5. /\ LiveEntries' \subseteq LiveEntries
      /\ \A e \in LiveEntries' : entry'[e] = entry[e]
  <2>1. CASE DeleteEntry
    BY <2>1 DEF DeleteEntry, IInv, TypeInv, LiveEntries, Live
  <2>2. CASE ~DeleteEntry
    <3>1. UNCHANGED entry
      BY <2>2 DEF DeleteBegins, DeleteEvent, DeleteFails, DaysPass, vars, intakeVars
    <3> QED BY <3>1 DEF LiveEntries, Live
  <2> QED BY <2>1, <2>2
<1>6. FreshInv' /\ SaveInv' /\ NoPhantomEntry' /\ LostIsGone'
  BY <1>1, <1>3, <1>4, <1>5, StillHeld
<1>7. ToldInv'
  <2>1. janitor # NoRep => row'[janitor].state \in Missing
    BY <1>0, <1>3, Named DEF ToldInv
  <2> QED BY <1>0, <1>1, <1>2, <1>4, <2>1 DEF ToldInv
<1>8. UnspoolInv'
  <2>1. worker.at = "unspool" => worker.rep \in Rep
    BY <1>0 DEF ToldInv
  <2> QED BY <1>0, <1>1, <1>2, <1>3, <2>1 DEF UnspoolInv, RowsHeld
<1> QED BY <1>6, <1>7, <1>8 DEF HeldInv

LEMMA CrashHolds ==
    ASSUME IInv, IInv', StoreTypes, HeldInv, Crash
    PROVE  HeldInv'
<1>0. /\ ToldInv /\ FreshInv /\ NoPhantomEntry /\ LostIsGone
      /\ Capture = Rep /\ job \in [Capture -> Jobs]
  BY DEF HeldInv, Capture, IInv, TypeInv
<1>1. /\ worker' = WorkerIdle /\ janitor' = NoRep /\ reader' = NoRep
      /\ life' = "scan" /\ todo' = Elements(spool)
      /\ UNCHANGED <<row, spool, old, evicted, entry, swept>>
      /\ Elements(cache') = {} /\ Elements(queue') = {}
  BY CrashStores DEF Crash, StoreCrash
<1>2. ASSUME NEW c \in Rep
      PROVE  /\ At(c, "idle") => job'[c].at = "idle"
             /\ ~At(c, "idle") => job'[c].at = "done"
  BY <1>0 DEF Crash, At, Jobs
<1>3. \A c \in Rep : /\ Told(c) => Told(c)'
                     /\ Over(c) => Over(c)'
                     /\ job'[c].at \in {"idle"} \cup Ended
                     /\ ~At(c, "save")'
  BY <1>2 DEF Told, Over, Ended, At
<1>4. ToldInv'
  BY <1>0, <1>1, <1>3, Named DEF ToldInv, WorkerIdle
<1>5. FreshInv'
  <2>1. ASSUME NEW c \in Capture, job'[c].at \notin Ended
        PROVE  row'[c].state = "Absent"
    <3>1. At(c, "idle")
      BY <1>0, <1>2, <2>1 DEF Ended
    <3> QED BY <1>0, <1>1, <3>1 DEF FreshInv, At, Ended
  <2>2. \A c \in Capture : job'[c].at \notin {"cache", "spool"}
    BY <1>0, <1>3 DEF Ended
  <2> QED BY <2>1, <2>2 DEF FreshInv, Over
<1>6. SaveInv' /\ UnspoolInv'
  BY <1>0, <1>1, <1>3 DEF SaveInv, UnspoolInv, WorkerIdle
<1>7. NoPhantomEntry'
  BY <1>0, <1>1 DEF NoPhantomEntry, LiveEntries, Live
<1>8. LostIsGone'
  BY <1>0, <1>1 DEF LostIsGone, HasBytes
<1> QED BY <1>4, <1>5, <1>6, <1>7, <1>8 DEF HeldInv

LEMMA InitHeld == Init => HeldInv
<1> SUFFICES ASSUME Init PROVE HeldInv
  OBVIOUS
<1>1. /\ Elements(spool) = {} /\ Elements(queue) = {} /\ Elements(cache) = {}
      /\ worker.at = "idle" /\ reader = NoRep /\ janitor = NoRep
      /\ old = {} /\ todo = {}
  BY DEF Init, StoreInit, Elements, WorkerIdle
<1>2. \A c \in Capture : job[c].at = "idle" /\ row[c].state = "Absent"
  BY DEF Init, StoreInit, Idle, Row, Capture
<1>3. LiveEntries = {}
  BY DEF Init, LiveEntries, Live
<1>4. ToldInv /\ FreshInv /\ SaveInv
  <2>1. \A c \in Capture : job[c].target = NoEntry
    BY DEF Init, Idle
  <2> QED BY <1>1, <1>2, <2>1 DEF ToldInv, FreshInv, SaveInv, At, Replaces
<1>5. UnspoolInv
  BY <1>1 DEF UnspoolInv
<1>6. NoPhantomEntry /\ LostIsGone
  BY <1>2, <1>3 DEF NoPhantomEntry, LostIsGone, Capture
<1> QED BY <1>4, <1>5, <1>6 DEF HeldInv

LEMMA NextHeld ==
    ASSUME IInv, IInv', StoreTypes, HeldInv, [Next]_vars
    PROVE  HeldInv'
BY CopyHolds, JobHolds, StoreHolds, RestHolds, CrashHolds DEF Next

LEMMA SpecHeld == Spec => []HeldInv
<1>1. IInv /\ StoreTypes /\ [Next]_vars => IInv' /\ StoreTypes'
  BY NextIInv, TypesKept
<1>2. IInv /\ StoreTypes /\ HeldInv /\ [Next]_vars => HeldInv'
  BY NextIInv, NextHeld
<1> QED BY <1>1, <1>2, InitIInv, InitTyped, InitHeld, PTL DEF Spec

\* clipboard_capture/usecase.rs:524-529: for every number of captures, slots,
\* crashes and failed writes, beside the sweeps of a start or not, the bytes that
\* an entry still promises are in the spool, or made room for newer ones, or are
\* those of an upgrade whose file a scanner removed before it was committed.
THEOREM PromisesAreKept == Spec => []NoPhantomEntry
<1>1. HeldInv => NoPhantomEntry
  BY DEF HeldInv
<1> QED BY <1>1, SpecHeld, PTL

\* staged_reconciler.rs:4-9: no sweep, janitor, reader or failing resurface gives
\* up a representation whose bytes are still there, except the janitor one that
\* outlived the time-to-live, and the reconciler one that was in the cache or on
\* its way to the spool when the reconciler came by.
THEOREM LostAreGone == Spec => []LostIsGone
<1>1. HeldInv => LostIsGone
  BY DEF HeldInv
<1> QED BY <1>1, SpecHeld, PTL
=============================================================================
