--------------------------- MODULE Delivery_proofs ---------------------------
(***************************************************************************)
(* What the fan-outs to peers guarantee for any peers, any number of       *)
(* fan-outs, crashes, cancellations and failing writes: the types of all   *)
(* variables, one dial per peer at a time, and that a row says delivered   *)
(* only of a peer that read a frame of the entry.                          *)
(***************************************************************************)
EXTENDS Delivery, FiniteSetTheorems, TLAPS

-----------------------------------------------------------------------------
(* The task of one fan-out for one peer *)

TaskType == task \in [Fanout -> [Peer -> TaskStep]]

FanoutsAreNumbers == Fanout \subseteq Nat \ {NoFanout}

LEMMA Numbered == FanoutsAreNumbers
BY DeliveryAssumption DEF Fanout, NoFanout, FanoutsAreNumbers

(* A step moves the task of one fan-out for one peer and no other.         *)
LEMMA StepMoves ==
    ASSUME TaskType, NEW i \in Fanout, NEW p \in Peer,
           NEW from, NEW to \in TaskStep, Step(i, p, from, to)
    PROVE  /\ TaskType'
           /\ task[i][p] = from
           /\ \A k \in Fanout, q \in Peer :
                 task'[k][q] = IF k = i /\ q = p THEN to ELSE task[k][q]
<1>1. task[i][p] = from /\ task' = [task EXCEPT ![i][p] = to]
  BY DEF Step
<1>2. TaskType'
  BY <1>1 DEF TaskType
<1>3. ASSUME NEW k \in Fanout, NEW q \in Peer
      PROVE  task'[k][q] = IF k = i /\ q = p THEN to ELSE task[k][q]
  BY <1>1, <1>3 DEF TaskType
<1> QED BY <1>1, <1>2, <1>3

(* What an abort leaves of a fan-out's tasks.                              *)
LEMMA AbortLeaves ==
    ASSUME NEW steps \in [Peer -> TaskStep], NEW spared, NEW p \in Peer
    PROVE  /\ Abort(steps, spared) \in [Peer -> TaskStep]
           /\ Abort(steps, spared)[p] \in
                 {steps[p], "aborted"}
           /\ steps[p] \in {"none", "joined"} => Abort(steps, spared)[p] = steps[p]
           /\ steps[p] \notin {"none", "joined"} \cup spared
                 => Abort(steps, spared)[p] = "aborted"
BY DEF Abort, TaskStep

(* The steps that a task can take, by what it takes them to.               *)
LEMMA Steps ==
    /\ {"none", "preflight", "claim", "follow", "announce", "refuse", "send",
        "ack", "joined", "aborted", "dial", "mark", "dead", "connected",
        "delivered", "unreachable", "failed"} = TaskStep
    /\ Outcome \subseteq TaskStep /\ Holding \subseteq TaskStep
BY DEF TaskStep, Holding, Outcome

-----------------------------------------------------------------------------
(* Types *)

LEMMA InitTyped == Init => TypeOK
BY Numbered, DeliveryAssumption
   DEF Init, TypeOK, Kind, Stage, TaskStep, FanoutsAreNumbers

LEMMA StartType ==
    ASSUME TypeOK, NEW i \in Fanout, NEW kind \in Kind, NEW targets,
           Start(i, kind, targets)
    PROVE  TypeOK'
<1>1. fanout' \in [Fanout -> [kind : Kind, fits : BOOLEAN, at : Stage]]
  BY DEF Start, TypeOK, Stage
<1>2. task' \in [Fanout -> [Peer -> TaskStep]]
  BY Steps DEF Start, TypeOK
<1> QED BY <1>1, <1>2 DEF Start, NoFault, TypeOK

LEMMA StartNextType ==
    ASSUME TypeOK, NEW i \in Fanout, StartNext(i)
    PROVE  TypeOK'
<1>1. {"capture", "resend", "text"} \subseteq Kind
  BY DEF Kind
<1> QED BY <1>1, StartType DEF StartNext, DispatchCapture, Resend, DispatchText

LEMMA TaskNextType ==
    ASSUME TypeOK, NEW i \in Fanout, NEW p \in Peer, TaskNext(i, p)
    PROVE  TypeOK'
<1> USE Steps
<1>0. TaskType
  BY DEF TypeOK, TaskType
<1>1. CASE Preflight(i, p)
  BY <1>0, <1>1, StepMoves DEF Preflight, NoFault, TypeOK, TaskType
<1>2. CASE Claim(i, p)
  <2>1. TaskType'
    BY <1>0, <1>2, StepMoves DEF Claim, Lead, Follow
  <2>2. slot' \in [Peer -> Fanout \cup {NoFanout}]
    BY <1>2 DEF Claim, Lead, Follow, TypeOK
  <2>3. leader' \in [Fanout -> [Peer -> Fanout \cup {NoFanout}]]
    <3>1. slot[p] \in Fanout \cup {NoFanout}
      BY DEF TypeOK
    <3>2. UNCHANGED leader \/ leader' = [leader EXCEPT ![i][p] = slot[p]]
      BY <1>2 DEF Claim, Lead, Follow
    <3>3. [leader[i] EXCEPT ![p] = slot[p]] \in [Peer -> Fanout \cup {NoFanout}]
      BY <3>1 DEF TypeOK
    <3> QED BY <3>2, <3>3 DEF TypeOK
  <2> QED BY <1>2, <2>1, <2>2, <2>3 DEF Claim, NoFault, TypeOK, TaskType
<1>3. CASE DialEnds(i, p)
  BY <1>0, <1>3, StepMoves DEF DialEnds, NoFault, TypeOK, TaskType
<1>4. CASE MarkOffline(i, p)
  BY <1>0, <1>4, StepMoves DEF MarkOffline, NoFault, TypeOK, TaskType
<1>5. CASE Release(i, p)
  <2>1. TaskType'
    BY <1>0, <1>5, StepMoves DEF Release
  <2> QED BY <1>5, <2>1 DEF Release, NoFault, TypeOK, TaskType
<1>6. CASE Announce(i, p)
  <2>1. task' \in [Fanout -> [Peer -> TaskStep]]
    BY <1>6 DEF Announce, TypeOK
  <2>2. leader' \in [Fanout -> [Peer -> Fanout \cup {NoFanout}]]
    BY <1>6 DEF Announce, TypeOK
  <2> QED BY <1>6, <2>1, <2>2 DEF Announce, NoFault, TypeOK
<1>7. CASE Send(i, p)
  BY SMTT(30), <1>0, <1>7, StepMoves DEF Send, NoFault, TypeOK, TaskType
<1>8. CASE Answer(i, p)
  BY <1>0, <1>8, StepMoves DEF Answer, NoFault, TypeOK, TaskType
<1> QED BY <1>1, <1>2, <1>3, <1>4, <1>5, <1>6, <1>7, <1>8 DEF TaskNext

LEMMA RecordType ==
    ASSUME TypeOK, NEW i \in Fanout, NEW p \in Peer,
           NEW outcome \in Outcome \cup {NoRow}, Record(i, p, outcome)
    PROVE  /\ row' \in [Peer -> Outcome \cup {NoRow}]
           /\ settled' \subseteq Fanout \X Peer
           /\ faults' \in Nat
<1>1. row' \in [Peer -> Outcome \cup {NoRow}]
  BY DEF Record, TypeOK
<1>2. settled' \subseteq Fanout \X Peer
  BY DEF Record, TypeOK
<1>3. faults' = faults \/ faults' = faults + 1
  BY DEF Record, Fault, NoFault
<1> QED BY <1>1, <1>2, <1>3 DEF TypeOK

LEMMA MoveToType ==
    ASSUME TypeOK, NEW i \in Fanout, NEW stage \in Stage, MoveTo(i, stage)
    PROVE  fanout' \in [Fanout -> [kind : Kind, fits : BOOLEAN, at : Stage]]
BY DEF MoveTo, TypeOK

LEMMA DrainNextType ==
    ASSUME TypeOK, NEW i \in Fanout, DrainNext(i)
    PROVE  TypeOK'
<1> USE Steps
<1>0. TaskType /\ {"flushing", "done", "deferred"} \subseteq Stage
  BY DEF TypeOK, TaskType, Stage
<1>1. CASE EndForeground(i)
  BY <1>0, <1>1, MoveToType DEF EndForeground, NoFault, TypeOK
<1>2. CASE EndFlush(i)
  BY <1>0, <1>2, MoveToType DEF EndFlush, NoFault, TypeOK
<1>3. CASE EndDeferred(i)
  BY <1>0, <1>3, MoveToType DEF EndDeferred, NoFault, TypeOK
<1>4. ASSUME NEW p \in Peer, Join(i, p)
      PROVE  TypeOK'
  <2>1. TaskType'
    BY <1>0, <1>4, StepMoves DEF Join
  <2>2. buffer' \in [Fanout -> [Peer -> Outcome \cup {NoRow}]]
    BY <1>4 DEF Join, Settled, TypeOK
  <2> QED BY <1>4, <2>1, <2>2 DEF Join, NoFault, TypeOK, TaskType
<1>5. ASSUME NEW p \in Peer, Flush(i, p)
      PROVE  TypeOK'
  <2>1. buffer[i][p] \in Outcome \cup {NoRow} /\ Record(i, p, buffer[i][p])
    BY <1>5 DEF Flush, TypeOK
  <2>2. buffer' \in [Fanout -> [Peer -> Outcome \cup {NoRow}]]
    BY <1>5 DEF Flush, TypeOK
  <2> QED BY <1>5, <2>1, <2>2, RecordType DEF Flush, TypeOK
<1>6. ASSUME NEW p \in Peer, JoinDeferred(i, p)
      PROVE  TypeOK'
  <2>1. TaskType'
    BY <1>0, <1>6, StepMoves DEF JoinDeferred
  <2>2. /\ row' \in [Peer -> Outcome \cup {NoRow}]
        /\ settled' \subseteq Fanout \X Peer
        /\ faults' \in Nat
    <3>1. CASE fanout[i].kind = "text"
      BY <1>6, <3>1 DEF JoinDeferred, NoFault, TypeOK
    <3>2. CASE fanout[i].kind # "text"
      <4>1. task[i][p] \in Outcome /\ Record(i, p, task[i][p])
        BY <1>6, <3>2 DEF JoinDeferred, Settled
      <4> QED BY <4>1, RecordType
    <3> QED BY <3>1, <3>2
  <2> QED BY <1>6, <2>1, <2>2 DEF JoinDeferred, TypeOK, TaskType
<1> QED BY <1>1, <1>2, <1>3, <1>4, <1>5, <1>6 DEF DrainNext

LEMMA HangUpType ==
    ASSUME TypeOK, NEW i \in Fanout, HangUp(i)
    PROVE  TypeOK'
<1>1. fanout' \in [Fanout -> [kind : Kind, fits : BOOLEAN, at : Stage]]
  BY MoveToType DEF HangUp, Stage
<1>2. Abort(task[i], {"announce", "refuse"}) \in [Peer -> TaskStep]
  BY Steps DEF TypeOK, Abort
<1>3. task' \in [Fanout -> [Peer -> TaskStep]]
  BY <1>2 DEF HangUp, TypeOK
<1>4. buffer' \in [Fanout -> [Peer -> Outcome \cup {NoRow}]]
  BY DEF HangUp, NoBuffer, TypeOK
<1> QED BY <1>1, <1>3, <1>4 DEF HangUp, Fault, TypeOK

LEMMA CrashType ==
    ASSUME TypeOK, Crash
    PROVE  TypeOK'
<1>1. fanout' \in [Fanout -> [kind : Kind, fits : BOOLEAN, at : Stage]]
  BY DEF Crash, TypeOK, Stage
<1>2. \A i \in Fanout : Abort(task[i], {}) \in [Peer -> TaskStep]
  BY Steps DEF TypeOK, Abort
<1>3. task' \in [Fanout -> [Peer -> TaskStep]]
  BY <1>2 DEF Crash
<1>4. buffer' \in [Fanout -> [Peer -> Outcome \cup {NoRow}]]
  BY DEF Crash, NoBuffer
<1> QED BY <1>1, <1>3, <1>4 DEF Crash, Fault, TypeOK

LEMMA NextType ==
    ASSUME TypeOK, [Next]_vars
    PROVE  TypeOK'
<1>1. ASSUME NEW p \in Peer, PresenceChanges(p)
      PROVE  TypeOK'
  BY <1>1 DEF PresenceChanges, NoFault, TypeOK
<1>2. CASE UNCHANGED vars
  BY <1>2 DEF vars, TypeOK
<1> QED BY <1>1, <1>2, StartNextType, DrainNextType, HangUpType, TaskNextType,
          CrashType DEF Next

(***************************************************************************)
(* Every reachable state of fan-outs, their tasks, the map of dials in     *)
(* flight, buffers and delivery rows is well-typed: every handler that     *)
(* writes one of them writes a value of its type.                          *)
(***************************************************************************)
THEOREM TypeCorrect == Spec => []TypeOK
<1>1. TypeOK /\ [Next]_vars => TypeOK'
  BY NextType
<1> QED BY <1>1, InitTyped, PTL DEF Spec

-----------------------------------------------------------------------------
(* One dial at a time *)

(* Whoever is between its claim and its release has its name in the map.   *)
(* The map may name one that has none of these steps left: that is what an *)
(* abort leaves behind, and it costs no second dial.                       *)
SlotInv ==
    \A i \in Fanout, p \in Peer : task[i][p] \in Holding => slot[p] = i

LEMMA SlotIsSingle ==
    ASSUME SlotInv
    PROVE  SingleDial
<1> SUFFICES ASSUME NEW p \in Peer
             PROVE  Cardinality({i \in Fanout : task[i][p] \in Holding}) <= 1
  BY DEF SingleDial
<1> DEFINE holders == {i \in Fanout : task[i][p] \in Holding}
<1>1. holders \subseteq {slot[p]}
  BY DEF SlotInv
<1>2. IsFiniteSet({slot[p]}) /\ Cardinality({slot[p]}) = 1
  BY FS_Singleton
<1> HIDE DEF holders
<1>3. Cardinality(holders) <= 1
  BY <1>1, <1>2, FS_Subset
<1> QED BY <1>3 DEF holders

(* A step that gives nobody a dial and takes nobody out of the map.        *)
NoNewHolder ==
    \A i \in Fanout, p \in Peer :
        task'[i][p] \in Holding => task[i][p] \in Holding

LEMMA NoNewHolderKeeps ==
    ASSUME SlotInv, NoNewHolder, UNCHANGED slot
    PROVE  SlotInv'
BY DEF SlotInv, NoNewHolder

LEMMA StartHoldsNone ==
    ASSUME TypeOK, NEW i \in Fanout, StartNext(i)
    PROVE  NoNewHolder /\ UNCHANGED slot
<1>1. PICK kind, targets : Start(i, kind, targets)
  BY DEF StartNext, DispatchCapture, Resend, DispatchText
<1>2. \A p \in Peer : task'[i][p] \in {"preflight", "none"}
  BY <1>1 DEF Start, TypeOK
<1>3. \A k \in Fanout : k # i => task'[k] = task[k]
  BY <1>1 DEF Start, TypeOK
<1>4. {"preflight", "none"} \cap Holding = {}
  BY DEF Holding
<1>5. NoNewHolder
  BY <1>2, <1>3, <1>4 DEF NoNewHolder
<1> QED BY <1>1, <1>5 DEF Start

LEMMA DrainHoldsNone ==
    ASSUME TypeOK, NEW i \in Fanout, DrainNext(i)
    PROVE  NoNewHolder /\ UNCHANGED slot
<1>0. TaskType /\ "joined" \in TaskStep /\ "joined" \notin Holding
  BY DEF TypeOK, TaskType, TaskStep, Holding
<1>1. CASE EndForeground(i) \/ EndFlush(i) \/ EndDeferred(i)
  BY <1>1 DEF EndForeground, EndFlush, EndDeferred, NoNewHolder
<1>2. ASSUME NEW p \in Peer, Join(i, p) \/ JoinDeferred(i, p)
      PROVE  NoNewHolder /\ UNCHANGED slot
  <2>1. Step(i, p, task[i][p], "joined") /\ UNCHANGED slot
    BY <1>2 DEF Join, JoinDeferred
  <2> QED BY <1>0, <2>1, StepMoves DEF NoNewHolder
<1>3. ASSUME NEW p \in Peer, Flush(i, p)
      PROVE  NoNewHolder /\ UNCHANGED slot
  BY <1>3 DEF Flush, NoNewHolder
<1> QED BY <1>1, <1>2, <1>3 DEF DrainNext

LEMMA AbortHoldsNone ==
    ASSUME TypeOK, NEW i \in Fanout, NEW spared, NEW p \in Peer,
           Abort(task[i], spared)[p] \in Holding
    PROVE  task[i][p] \in Holding
BY DEF Abort, Holding

LEMMA TaskNextSlots ==
    ASSUME TypeOK, SlotInv, NEW i \in Fanout, NEW p \in Peer, TaskNext(i, p)
    PROVE  SlotInv'
<1> USE Steps
<1>0. TaskType
  BY DEF TypeOK, TaskType
<1>1. ASSUME NEW from, NEW to \in TaskStep, Step(i, p, from, to), UNCHANGED slot,
             from \in Holding \/ to \notin Holding
      PROVE  SlotInv'
  <2>1. NoNewHolder
    BY <1>0, <1>1, StepMoves DEF NoNewHolder
  <2> QED BY <1>1, <2>1, NoNewHolderKeeps
<1>2. CASE Preflight(i, p)
  BY <1>1, <1>2 DEF Preflight, Holding
<1>3. CASE Lead(i, p)
  <2>1. \A k \in Fanout : task[k][p] \notin Holding
    BY <1>3, Numbered DEF Lead, SlotInv, FanoutsAreNumbers
  <2>2. slot'[p] = i /\ \A q \in Peer : q # p => slot'[q] = slot[q]
    BY <1>3 DEF Lead, TypeOK
  <2>3. \A k \in Fanout, q \in Peer :
           task'[k][q] = IF k = i /\ q = p THEN "dial" ELSE task[k][q]
    BY <1>0, <1>3, StepMoves DEF Lead
  <2> QED BY <2>1, <2>2, <2>3 DEF SlotInv
<1>4. CASE Follow(i, p)
  BY <1>1, <1>4 DEF Follow, Holding
<1>5. CASE DialEnds(i, p) \/ MarkOffline(i, p)
  BY <1>1, <1>5 DEF DialEnds, MarkOffline, Holding
<1>6. CASE Release(i, p)
  <2>1. /\ task[i][p] \in {"connected", "dead"}
        /\ \A k \in Fanout, q \in Peer :
              /\ k # i \/ q # p => task'[k][q] = task[k][q]
              /\ task'[i][p] \in {"announce", "refuse"}
    BY <1>0, <1>6, StepMoves DEF Release
  <2>2. \A q \in Peer : q # p => slot'[q] = slot[q]
    BY <1>6 DEF Release, TypeOK
  <2>3. \A k \in Fanout : k # i => task[k][p] \notin Holding
    BY <2>1 DEF SlotInv, Holding
  <2>4. {"announce", "refuse"} \cap Holding = {}
    BY DEF Holding
  <2> QED BY <2>1, <2>2, <2>3, <2>4 DEF SlotInv
<1>7. CASE Announce(i, p)
  <2>1. \A k \in Fanout, q \in Peer :
           task'[k][q] \in {task[k][q], "aborted", "send", "unreachable"}
    BY <1>7 DEF Announce, TypeOK
  <2>2. NoNewHolder /\ UNCHANGED slot
    BY <1>7, <2>1 DEF Announce, NoNewHolder, Holding
  <2> QED BY <2>2, NoNewHolderKeeps
<1>8. CASE Send(i, p) \/ Answer(i, p)
  BY <1>1, <1>8 DEF Send, Answer, Holding
<1> QED BY <1>2, <1>3, <1>4, <1>5, <1>6, <1>7, <1>8 DEF TaskNext, Claim

LEMMA SlotStep ==
    ASSUME TypeOK, SlotInv, [Next]_vars
    PROVE  SlotInv'
<1>1. ASSUME NEW i \in Fanout, StartNext(i) \/ DrainNext(i)
      PROVE  SlotInv'
  BY <1>1, StartHoldsNone, DrainHoldsNone, NoNewHolderKeeps
<1>2. ASSUME NEW i \in Fanout, HangUp(i)
      PROVE  SlotInv'
  <2>1. task' = [task EXCEPT ![i] = Abort(task[i], {"announce", "refuse"})]
        /\ UNCHANGED slot
    BY <1>2 DEF HangUp
  <2>2. NoNewHolder
    BY <2>1, AbortHoldsNone DEF NoNewHolder, TypeOK
  <2> QED BY <2>1, <2>2, NoNewHolderKeeps
<1>3. CASE Crash
  <2>1. \A i \in Fanout, p \in Peer :
           task'[i][p] \in {"none", "joined", "aborted"}
    BY <1>3 DEF Crash, Abort
  <2> QED BY <2>1 DEF SlotInv, Holding
<1>4. CASE (\E p \in Peer : PresenceChanges(p)) \/ UNCHANGED vars
  BY <1>4 DEF PresenceChanges, vars, SlotInv
<1> QED BY <1>1, <1>2, <1>3, <1>4, TaskNextSlots DEF Next

(***************************************************************************)
(* However many fan-outs want the same peer, at most one dials it: the     *)
(* map of dial_single_flight is looked up and entered in one step, a dial  *)
(* is in it until its leader frees it, and nobody frees another's.         *)
(***************************************************************************)
THEOREM DialsAreSingle == Spec => []SingleDial
<1>1. Init => SlotInv
  BY DEF Init, SlotInv, Holding
<1>2. TypeOK /\ SlotInv /\ [Next]_vars => SlotInv'
  BY SlotStep
<1>3. SlotInv => SingleDial
  BY SlotIsSingle
<1> QED BY <1>1, <1>2, <1>3, TypeCorrect, PTL DEF Spec

-----------------------------------------------------------------------------
(* What a row that says delivered rests on *)

(* A fan-out that has not started has no kind yet, so nothing may be known *)
(* of it.                                                                  *)
IdleInv ==
    \A i \in Fanout, p \in Peer :
        fanout[i].at = "idle" =>
            task[i][p] = "none" /\ buffer[i][p] = NoRow /\ <<i, p>> \notin received

(* A task that awaits or has had its acknowledgement has sent its frame.   *)
AckInv ==
    \A i \in Fanout, p \in Peer :
        task[i][p] \in {"ack", "delivered"} => <<i, p>> \in received

BufferInv ==
    \A i \in Fanout, p \in Peer :
        buffer[i][p] = "delivered" =>
            fanout[i].kind # "text" /\ <<i, p>> \in received

RecordInv == IdleInv /\ AckInv /\ BufferInv /\ DeliveredWasReceived

(* What every step keeps: a fan-out keeps its kind once it has started,    *)
(* and what was received stays so.                                         *)
Lasting ==
    /\ \A i \in Fanout : fanout[i].at # "idle" =>
          fanout'[i].at # "idle" /\ fanout'[i].kind = fanout[i].kind
    /\ received \subseteq received'

NoneStays ==
    \A i \in Fanout, p \in Peer : task[i][p] = "none" => task'[i][p] = "none"

NoNewAck ==
    \A i \in Fanout, p \in Peer :
        task'[i][p] \in {"ack", "delivered"} => task[i][p] \in {"ack", "delivered"}

KindsKept ==
    \A i \in Fanout : /\ fanout'[i].kind = fanout[i].kind
                      /\ fanout'[i].at = "idle" <=> fanout[i].at = "idle"

BuffersEmpty ==
    \A i \in Fanout, p \in Peer : buffer'[i][p] \in {buffer[i][p], NoRow}

(* A row that was right stays right.                                       *)
LEMMA RowsLast ==
    ASSUME TypeOK, IdleInv, Lasting, DeliveredWasReceived, UNCHANGED row
    PROVE  DeliveredWasReceived'
<1> SUFFICES ASSUME NEW p \in Peer, row'[p] = "delivered"
             PROVE  \E i \in Fanout :
                       fanout'[i].kind # "text" /\ <<i, p>> \in received'
  BY DEF DeliveredWasReceived
<1>1. PICK i \in Fanout : fanout[i].kind # "text" /\ <<i, p>> \in received
  BY DEF DeliveredWasReceived
<1>2. fanout[i].at # "idle"
  BY <1>1 DEF IdleInv
<1> QED BY <1>1, <1>2 DEF Lasting

LEMMA BuffersLast ==
    ASSUME TypeOK, IdleInv, Lasting, BufferInv, UNCHANGED buffer
    PROVE  BufferInv'
<1> SUFFICES ASSUME NEW i \in Fanout, NEW p \in Peer, buffer[i][p] = "delivered"
             PROVE  fanout'[i].kind # "text" /\ <<i, p>> \in received'
  BY DEF BufferInv
<1>1. fanout[i].at # "idle"
  BY DEF IdleInv, NoRow
<1> QED BY <1>1 DEF Lasting, BufferInv

LEMMA StartRecords ==
    ASSUME TypeOK, RecordInv, NEW i \in Fanout, StartNext(i)
    PROVE  RecordInv'
<1>1. PICK kind, targets : Start(i, kind, targets)
  BY DEF StartNext, DispatchCapture, Resend, DispatchText
<1>2. fanout[i].at = "idle" /\ UNCHANGED <<buffer, row, received>>
  BY <1>1 DEF Start
<1>3. /\ fanout'[i].at = "draining"
      /\ \A k \in Fanout : k # i => fanout'[k] = fanout[k] /\ task'[k] = task[k]
      /\ \A p \in Peer : task'[i][p] \in {"preflight", "none"}
  BY <1>1 DEF Start, TypeOK
<1>4. Lasting
  BY <1>2, <1>3 DEF Lasting
<1>5. IdleInv'
  BY <1>2, <1>3 DEF RecordInv, IdleInv
<1>6. AckInv'
  BY <1>2, <1>3 DEF RecordInv, AckInv
<1> QED BY <1>2, <1>4, <1>5, <1>6, RowsLast, BuffersLast DEF RecordInv

(* A task that has a next step belongs to a fan-out that has started.      *)
LEMMA TaskNextRecords ==
    ASSUME TypeOK, RecordInv, NEW i \in Fanout, NEW p \in Peer, TaskNext(i, p)
    PROVE  RecordInv'
<1> USE Steps
<1>0. TaskType
  BY DEF TypeOK, TaskType
<1>1. UNCHANGED <<fanout, buffer, row>>
  BY DEF TaskNext, Preflight, Claim, DialEnds, MarkOffline, Release, Announce,
         Send, Answer
<1>2. CASE Send(i, p)
  <2>1. fanout[i].at # "idle"
    BY <1>2 DEF Send, Step, RecordInv, IdleInv
  <2>2. \/ received' = received \cup {<<i, p>>} /\ Step(i, p, "send", "ack")
        \/ UNCHANGED received /\ Step(i, p, "send", "failed")
    BY <1>2 DEF Send
  <2>3. Lasting
    BY <1>1, <2>2 DEF Lasting
  <2>4. AckInv'
    BY <1>0, <2>2, StepMoves DEF RecordInv, AckInv
  <2>5. IdleInv'
    BY <1>0, <1>1, <2>1, <2>2, StepMoves DEF RecordInv, IdleInv
  <2> QED BY <1>1, <2>3, <2>4, <2>5, RowsLast, BuffersLast DEF RecordInv
<1>3. CASE ~ Send(i, p)
  <2>1. UNCHANGED received
    BY <1>3 DEF TaskNext, Preflight, Claim, DialEnds, MarkOffline, Release,
                Announce, Answer
  <2>2. Lasting
    BY <1>1, <2>1 DEF Lasting
  <2>3. NoneStays
    <3>1. ASSUME NEW from, NEW to \in TaskStep, Step(i, p, from, to), from # "none"
          PROVE  NoneStays
      BY <1>0, <3>1, StepMoves DEF NoneStays
    <3>2. CASE Announce(i, p)
      BY <3>2 DEF Announce, TypeOK, NoneStays
    <3> QED BY <1>3, <3>1, <3>2 DEF TaskNext, Preflight, Claim, Lead, Follow,
               DialEnds, MarkOffline, Release, Answer
  <2>4. NoNewAck
    <3>1. ASSUME NEW from, NEW to \in TaskStep, Step(i, p, from, to),
                 from = "ack" \/ to \notin {"ack", "delivered"}
          PROVE  NoNewAck
      BY <1>0, <3>1, StepMoves DEF NoNewAck
    <3>2. CASE Announce(i, p)
      BY <3>2 DEF Announce, TypeOK, NoNewAck
    <3> QED BY <1>3, <3>1, <3>2 DEF TaskNext, Preflight, Claim, Lead, Follow,
               DialEnds, MarkOffline, Release, Answer
  <2>5. AckInv'
    BY <2>1, <2>4 DEF RecordInv, AckInv, NoNewAck
  <2>6. IdleInv'
    BY <1>1, <2>1, <2>3 DEF RecordInv, IdleInv, NoneStays
  <2> QED BY <1>1, <2>2, <2>5, <2>6, RowsLast, BuffersLast DEF RecordInv
<1> QED BY <1>2, <1>3

(* A write of the recorder leaves the row as it was or with the outcome.   *)
LEMMA RecordRows ==
    ASSUME TypeOK, IdleInv, Lasting, DeliveredWasReceived,
           NEW i \in Fanout, NEW p \in Peer, NEW outcome, Record(i, p, outcome),
           outcome = "delivered" => fanout[i].kind # "text" /\ <<i, p>> \in received
    PROVE  DeliveredWasReceived'
<1>1. CASE UNCHANGED row
  BY <1>1, RowsLast
<1>2. CASE row' = [row EXCEPT ![p] = outcome]
  <2> SUFFICES ASSUME NEW q \in Peer, row'[q] = "delivered"
               PROVE  \E k \in Fanout :
                         fanout'[k].kind # "text" /\ <<k, q>> \in received'
    BY DEF DeliveredWasReceived
  <2>1. PICK k \in Fanout : fanout[k].kind # "text" /\ <<k, q>> \in received
    <3>1. CASE q = p
      BY <1>2, <3>1 DEF TypeOK
    <3>2. CASE q # p
      BY <1>2, <3>2 DEF TypeOK, DeliveredWasReceived
    <3> QED BY <3>1, <3>2
  <2>2. fanout[k].at # "idle"
    BY <2>1 DEF IdleInv
  <2> QED BY <2>1, <2>2 DEF Lasting
<1> QED BY <1>1, <1>2 DEF Record

LEMMA DrainRecords ==
    ASSUME TypeOK, RecordInv, NEW i \in Fanout, DrainNext(i)
    PROVE  RecordInv'
<1> USE Steps
<1>0. /\ TaskType
      /\ \A k \in Fanout, q \in Peer :
            buffer[k][q] \in Outcome \cup {NoRow}
  BY DEF TypeOK, TaskType
<1>1. fanout[i].at # "idle" /\ UNCHANGED received
  BY DEF DrainNext, EndForeground, EndFlush, EndDeferred, Join, Flush, JoinDeferred
<1>2. ASSUME NEW stage \in {"flushing", "done", "deferred"}, MoveTo(i, stage),
             UNCHANGED <<task, buffer, row>>
      PROVE  RecordInv'
  <2>1. /\ fanout'[i].at # "idle" /\ fanout'[i].kind = fanout[i].kind
        /\ \A k \in Fanout : k # i => fanout'[k] = fanout[k]
    BY <1>2 DEF MoveTo, TypeOK
  <2>2. Lasting
    BY <1>1, <2>1 DEF Lasting
  <2>3. IdleInv' /\ AckInv'
    BY <1>1, <1>2, <2>1 DEF RecordInv, IdleInv, AckInv
  <2> QED BY <1>2, <2>2, <2>3, RowsLast, BuffersLast DEF RecordInv
<1>3. CASE EndForeground(i) \/ EndFlush(i) \/ EndDeferred(i)
  BY <1>2, <1>3 DEF EndForeground, EndFlush, EndDeferred
<1>4. ASSUME UNCHANGED fanout
      PROVE  Lasting
  BY <1>1, <1>4 DEF Lasting
<1>5. ASSUME NEW p \in Peer, Join(i, p)
      PROVE  RecordInv'
  <2>1. Lasting /\ UNCHANGED <<fanout, row>> /\ task[i][p] # "none"
    BY <1>4, <1>5 DEF Join, Settled, Outcome
  <2>2. \A k \in Fanout, q \in Peer :
           task'[k][q] = IF k = i /\ q = p THEN "joined" ELSE task[k][q]
    BY <1>0, <1>5, StepMoves DEF Join
  <2>3. AckInv'
    BY <1>1, <2>2 DEF RecordInv, AckInv
  <2>4. \A k \in Fanout, q \in Peer : buffer'[k][q] # buffer[k][q] =>
           /\ k = i /\ q = p
           /\ buffer'[k][q] = "delivered" =>
                 fanout[i].kind # "text" /\ task[i][p] = "delivered"
    BY <1>5 DEF Join, TypeOK, NoRow
  <2>5. BufferInv'
    BY <1>1, <2>1, <2>4 DEF RecordInv, BufferInv, AckInv
  <2>6. IdleInv'
    BY <1>1, <2>1, <2>2, <2>4 DEF RecordInv, IdleInv
  <2> QED BY <2>1, <2>3, <2>5, <2>6, RowsLast DEF RecordInv
<1>6. ASSUME NEW p \in Peer, Flush(i, p)
      PROVE  RecordInv'
  <2>1. Lasting /\ UNCHANGED <<fanout, task>> /\ Record(i, p, buffer[i][p])
    BY <1>4, <1>6 DEF Flush
  <2>2. BuffersEmpty
    BY <1>6 DEF Flush, TypeOK, BuffersEmpty
  <2>3. DeliveredWasReceived'
    BY <2>1, RecordRows DEF RecordInv, BufferInv
  <2>4. BufferInv'
    BY <1>1, <2>1, <2>2 DEF RecordInv, BufferInv, BuffersEmpty, NoRow
  <2>5. IdleInv' /\ AckInv'
    BY <1>1, <2>1, <2>2 DEF RecordInv, IdleInv, AckInv, BuffersEmpty
  <2> QED BY <2>3, <2>4, <2>5 DEF RecordInv
<1>7. ASSUME NEW p \in Peer, JoinDeferred(i, p)
      PROVE  RecordInv'
  <2>1. Lasting /\ UNCHANGED <<fanout, buffer>> /\ task[i][p] # "none"
    BY <1>4, <1>7 DEF JoinDeferred, Settled, Outcome
  <2>2. \A k \in Fanout, q \in Peer :
           task'[k][q] = IF k = i /\ q = p THEN "joined" ELSE task[k][q]
    BY <1>0, <1>7, StepMoves DEF JoinDeferred
  <2>3. AckInv' /\ IdleInv'
    BY <1>1, <2>1, <2>2 DEF RecordInv, AckInv, IdleInv
  <2>4. CASE fanout[i].kind = "text"
    BY <1>7, <2>1, <2>3, <2>4, RowsLast, BuffersLast DEF JoinDeferred, RecordInv
  <2>5. CASE fanout[i].kind # "text"
    <3>1. Record(i, p, task[i][p])
      BY <1>7, <2>5 DEF JoinDeferred
    <3>2. DeliveredWasReceived'
      BY <2>1, <2>5, <3>1, RecordRows DEF RecordInv, AckInv
    <3> QED BY <2>1, <2>3, <3>2, BuffersLast DEF RecordInv
  <2> QED BY <2>4, <2>5
<1> QED BY <1>3, <1>5, <1>6, <1>7 DEF DrainNext

(* A fan-out that is dropped, alone or with the daemon, loses its buffer   *)
(* and its tasks.                                                          *)
LEMMA DropRecords ==
    ASSUME TypeOK, RecordInv, Crash \/ \E i \in Fanout : HangUp(i)
    PROVE  RecordInv'
<1>1. UNCHANGED <<row, received>>
  BY DEF Crash, HangUp
<1>2. KindsKept
  <2>1. CASE Crash
    BY <2>1 DEF Crash, TypeOK, KindsKept
  <2>2. ASSUME NEW i \in Fanout, HangUp(i)
        PROVE  KindsKept
    BY <2>2 DEF HangUp, MoveTo, TypeOK, KindsKept
  <2> QED BY <2>1, <2>2
<1>3. NoneStays /\ NoNewAck
  <2>1. CASE Crash
    BY <2>1 DEF Crash, Abort, NoneStays, NoNewAck
  <2>2. ASSUME NEW i \in Fanout, HangUp(i)
        PROVE  NoneStays /\ NoNewAck
    BY <2>2 DEF HangUp, Abort, TypeOK, NoneStays, NoNewAck
  <2> QED BY <2>1, <2>2
<1>4. BuffersEmpty
  <2>1. CASE Crash
    BY <2>1 DEF Crash, NoBuffer, BuffersEmpty
  <2>2. ASSUME NEW i \in Fanout, HangUp(i)
        PROVE  BuffersEmpty
    BY <2>2 DEF HangUp, NoBuffer, TypeOK, BuffersEmpty
  <2> QED BY <2>1, <2>2
<1>5. Lasting
  BY <1>1, <1>2 DEF Lasting, KindsKept
<1>6. IdleInv'
  BY <1>1, <1>2, <1>3, <1>4
     DEF RecordInv, IdleInv, KindsKept, NoneStays, BuffersEmpty
<1>7. AckInv'
  BY <1>1, <1>3 DEF RecordInv, AckInv, NoNewAck
<1>8. BufferInv'
  BY <1>1, <1>2, <1>4 DEF RecordInv, BufferInv, KindsKept, BuffersEmpty, NoRow
<1> QED BY <1>1, <1>5, <1>6, <1>7, <1>8, RowsLast DEF RecordInv

LEMMA RecordStep ==
    ASSUME TypeOK, RecordInv, [Next]_vars
    PROVE  RecordInv'
<1>1. CASE (\E p \in Peer : PresenceChanges(p)) \/ UNCHANGED vars
  <2>1. UNCHANGED <<fanout, task, buffer, row, received>>
    BY <1>1 DEF PresenceChanges, vars
  <2> QED BY <2>1 DEF RecordInv, IdleInv, AckInv, BufferInv, DeliveredWasReceived
<1> QED BY <1>1, StartRecords, TaskNextRecords, DrainRecords, DropRecords DEF Next

(***************************************************************************)
(* A delivery row says delivered only of a peer that has read a frame of   *)
(* the entry: not on the strength of somebody else's dial, nor of text     *)
(* sent to the peer meanwhile, nor of a frame without its acknowledgement, *)
(* in whatever order drains, deadlines, hang-ups and crashes come.         *)
(***************************************************************************)
THEOREM RowsAreTrue == Spec => []DeliveredWasReceived
<1>1. Init => RecordInv
  BY DEF Init, RecordInv, IdleInv, AckInv, BufferInv, DeliveredWasReceived, NoRow
<1>2. TypeOK /\ RecordInv /\ [Next]_vars => RecordInv'
  BY RecordStep
<1>3. RecordInv => DeliveredWasReceived
  BY DEF RecordInv
<1> QED BY <1>1, <1>2, <1>3, TypeCorrect, PTL DEF Spec
=============================================================================
