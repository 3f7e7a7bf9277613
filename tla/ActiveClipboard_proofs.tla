------------------------ MODULE ActiveClipboard_proofs ------------------------
(***************************************************************************)
(* Proofs about ActiveClipboard, for any devices, contents, links, bounds  *)
(* and clock skew.                                                         *)
(***************************************************************************)
EXTENDS ActiveClipboard, TLAPS

-----------------------------------------------------------------------------
(* The helpers the actions are built from *)

LEMMA AdvanceTyped ==
    ASSUME NEW cur \in Register, NEW a \in Activation
    PROVE  Advance(cur, a) \in Register
BY DEF Advance, Register

LEMMA PullTyped ==
    ASSUME TypeOK, NEW d \in Device, pulling[d] # NoPull
    PROVE  /\ pulling[d].from \in Device
           /\ pulling[d].act \in Activation
BY DEF TypeOK

LEMMA StampTyped ==
    ASSUME TypeOK, NEW d \in Device, NEW h \in Hash
    PROVE  Stamp(d, h) \in Activation
BY DEF TypeOK, Stamp, Activation

(* Trying the register leaves a register and a fault count. *)
LEMMA TryRegisterTyped ==
    ASSUME TypeOK, NEW d \in Device, NEW a \in Activation,
           AdvanceRegister(d, a) \/ AdvanceFails(d)
    PROVE  reg' \in [Device -> Register] /\ faults' \in Nat
<1>1. CASE AdvanceRegister(d, a)
  BY <1>1, AdvanceTyped DEF AdvanceRegister, TypeOK
<1>2. CASE AdvanceFails(d)
  BY <1>2 DEF AdvanceFails, Fault, TypeOK
<1> QED BY <1>1, <1>2

LEMMA ReadClockTyped ==
    ASSUME TypeOK, NEW d \in Device, ReadClock(d)
    PROVE  clock' \in [Device -> Nat]
BY DEF TypeOK, ReadClock

LEMMA AdvanceLocalTyped ==
    ASSUME TypeOK, NEW d \in Device, NEW a \in Activation, AdvanceLocal(d, a)
    PROVE  /\ clock' \in [Device -> Nat]
           /\ reg' \in [Device -> Register]
           /\ claims' \in SUBSET Activation
           /\ faults' \in Nat
<1>1. reg' \in [Device -> Register] /\ faults' \in Nat
  BY TryRegisterTyped DEF AdvanceLocal
<1>2. clock' \in [Device -> Nat]
  BY ReadClockTyped DEF AdvanceLocal
<1> QED BY <1>1, <1>2 DEF AdvanceLocal, TypeOK

LEMMA StateFramesTyped ==
    ASSUME NEW d \in Device, NEW targets \in SUBSET Device,
           NEW a \in Activation
    PROVE  StateFrames(d, targets, a) \in SUBSET Message
BY DEF StateFrames, Message

LEMMA ContentFramesTyped ==
    ASSUME NEW d \in Device, NEW targets \in SUBSET Device,
           NEW a \in Activation
    PROVE  ContentFrames(d, targets, a) \in SUBSET Message
BY DEF ContentFrames, Message

LEMMA PeersTyped ==
    ASSUME NEW d \in Device
    PROVE  Peers(d) \in SUBSET Device
BY DEF Peers

-----------------------------------------------------------------------------
(* Type correctness *)

(* The initial state is well typed. *)
LEMMA InitTyped == Init => TypeOK
BY DEF Init, TypeOK, Register

(* A step of device d keeps the state well typed. *)
LEMMA DeviceNextTyped ==
    ASSUME TypeOK, NEW d \in Device, DeviceNext(d)
    PROVE  TypeOK'
<1>1. CASE Tick(d)
  BY <1>1 DEF Tick, TypeOK
<1>2. CASE UserNext(d)
  <2>1. CASE Lock(d)
    BY <2>1 DEF Lock, UserOp, TypeOK
  <2>2. ASSUME NEW h \in Hash, UserCopy(d, h)
        PROVE  TypeOK'
    <3> DEFINE a == [hash |-> h, at |-> clock[d], by |-> d]
    <3>1. a \in Activation
      BY DEF TypeOK, Activation
    <3>2. CASE Up(d)
      <4>1. clock' \in [Device -> Nat]
        BY <2>2, <3>2, ReadClockTyped DEF UserCopy
      <4>2. observed' = [observed EXCEPT ![d] = Append(@, a)]
        BY <2>2, <3>2 DEF UserCopy
      <4>3. observed' \in [Device -> Seq(Activation)]
        BY <3>1, <4>2 DEF TypeOK
      <4>4. claims' \in SUBSET Activation
        BY <2>2, <3>1, <3>2 DEF UserCopy, TypeOK
      <4>5. os' \in [Device -> Hash \cup {NoHash}] /\ ops' \in Nat
        BY <2>2 DEF UserCopy, UserOp, TypeOK
      <4>6. UNCHANGED <<mode, reg, held, restoring, offer, pulling, tasks,
                        net, forgotten, faults>>
        BY <2>2 DEF UserCopy
      <4> QED BY <4>1, <4>3, <4>4, <4>5, <4>6 DEF TypeOK
    <3>3. CASE ~ Up(d)
      BY <2>2, <3>3 DEF UserCopy, UserOp, TypeOK
    <3> QED BY <3>2, <3>3
  <2>3. ASSUME NEW h \in Hash, RestoreWrite(d, h)
        PROVE  TypeOK'
    BY <2>3 DEF RestoreWrite, UserOp, TypeOK
  <2>4. ASSUME NEW h \in Hash, Forget(d, h)
        PROVE  TypeOK'
    BY <2>4 DEF Forget, UserOp, TypeOK
  <2> QED BY <1>2, <2>1, <2>2, <2>3, <2>4 DEF UserNext
<1>3. CASE LocalNext(d)
  <2>1. CASE HandleCapture(d)
    <3> DEFINE seen == Head(observed[d])
    <3>0. observed[d] \in Seq(Activation) /\ observed[d] # <<>>
      BY <2>1 DEF HandleCapture, TypeOK
    <3>1. seen \in Activation
      BY <3>0
    <3>2. seen.hash \in Hash
      BY <3>1 DEF Activation
    <3> HIDE DEF seen
    <3>3. AdvanceLocal(d, Stamp(d, seen.hash))
      BY <2>1 DEF HandleCapture, seen
    <3>4. /\ clock' \in [Device -> Nat]
          /\ reg' \in [Device -> Register]
          /\ claims' \in SUBSET Activation
          /\ faults' \in Nat
      BY <3>2, <3>3, StampTyped, AdvanceLocalTyped
    <3>5. held' \in [Device -> SUBSET Hash]
      BY <2>1, <3>2 DEF HandleCapture, Persist, TypeOK, seen
    <3>6. observed' \in [Device -> Seq(Activation)]
      BY <2>1 DEF HandleCapture, TypeOK
    <3>7. ContentFrames(d, Peers(d), seen) \in SUBSET Message
      BY <3>1, PeersTyped, ContentFramesTyped
    <3>8. net' \in SUBSET Message
      BY <2>1, <3>7 DEF HandleCapture, TypeOK, seen
    <3> QED
      BY <2>1, <3>4, <3>5, <3>6, <3>8 DEF HandleCapture, TypeOK
  <2>2. CASE DropCapture(d)
    BY <2>2 DEF DropCapture, Fault, TypeOK
  <2>3. ASSUME NEW h \in Hash, RestoreAdvance(d, h)
        PROVE  TypeOK'
    <3>1. Stamp(d, h) \in Activation
      BY StampTyped
    <3>2. CASE h \in held[d]
      <4>1. AdvanceLocal(d, Stamp(d, h))
        BY <2>3, <3>2 DEF RestoreAdvance
      <4>2. /\ clock' \in [Device -> Nat]
            /\ reg' \in [Device -> Register]
            /\ claims' \in SUBSET Activation
            /\ faults' \in Nat
        BY <3>1, <4>1, AdvanceLocalTyped
      <4>3. offer' \in [Device -> Register]
        BY <2>3, <3>1, <3>2 DEF RestoreAdvance, Register, TypeOK
      <4> QED BY <2>3, <4>2, <4>3 DEF RestoreAdvance, TypeOK
    <3>3. CASE h \notin held[d]
      BY <2>3, <3>3 DEF RestoreAdvance, TypeOK
    <3> QED BY <3>2, <3>3
  <2>4. CASE RestoreBroadcast(d)
    <3>1. offer[d] \in Activation
      BY <2>4 DEF RestoreBroadcast, TypeOK, Register
    <3>2. net' \in SUBSET Message
      BY <2>4, <3>1, PeersTyped, StateFramesTyped DEF RestoreBroadcast, TypeOK
    <3> QED BY <2>4, <3>2 DEF RestoreBroadcast, TypeOK, Register
  <2> QED BY <1>3, <2>1, <2>2, <2>3, <2>4 DEF LocalNext
<1>4. CASE ReceiveNext(d)
  <2> SUFFICES ASSUME NEW m \in net,
                      \/ ReceiveState(d, m)
                      \/ ReceiveNewContent(d, m)
                      \/ ReceiveHeldContent(d, m)
                      \/ IgnoreContent(d, m)
               PROVE  TypeOK'
    BY <1>4 DEF ReceiveNext
  <2>1. m.from \in Device /\ m.act \in Activation /\ m.act.hash \in Hash
    BY DEF TypeOK, Message, Activation
  <2>2. CASE ReceiveState(d, m)
    <3> DEFINE task == [kind |-> "converge", stage |-> "write",
                        from |-> m.from, act |-> m.act]
               pull == [from |-> m.from, act |-> m.act]
    <3>1. \/ UNCHANGED tasks
          \/ tasks' = [tasks EXCEPT ![d] = @ \cup {task}]
      BY <2>2 DEF ReceiveState, Converge
    <3>2. UNCHANGED pulling \/ pulling' = [pulling EXCEPT ![d] = pull]
      BY <2>2, Zenon DEF ReceiveState
    <3>3. task \in Task /\ pull \in [from : Device, act : Activation]
      BY <2>1 DEF Task
    <3> HIDE DEF task, pull
    <3>4. tasks' \in [Device -> SUBSET Task]
      BY <3>1, <3>3 DEF TypeOK
    <3>5. pulling' \in [Device -> [from : Device, act : Activation] \cup {NoPull}]
      BY ZenonT(40), <3>2, <3>3 DEF TypeOK
    <3> QED BY <2>2, <3>4, <3>5 DEF ReceiveState, TypeOK
  <2>3. CASE ReceiveNewContent(d, m)
    <3>1. reg' \in [Device -> Register] /\ faults' \in Nat
      BY <2>1, <2>3, TryRegisterTyped DEF ReceiveNewContent, Claimed
    <3>2. ContentTask("publish", d, m) \in Task
      BY <2>1 DEF ContentTask, Claimed, Task
    <3>3. tasks' \in [Device -> SUBSET Task]
      BY <2>3, <3>2 DEF ReceiveNewContent, TypeOK
    <3>4. held' \in [Device -> SUBSET Hash]
      BY <2>1, <2>3 DEF ReceiveNewContent, Persist, TypeOK
    <3> QED
      BY <2>3, <3>1, <3>3, <3>4 DEF ReceiveNewContent, TypeOK
  <2>4. CASE ReceiveHeldContent(d, m)
    <3>1. ContentTask("resurface", d, m) \in Task
      BY <2>1 DEF ContentTask, Claimed, Task
    <3> QED BY <2>4, <3>1 DEF ReceiveHeldContent, TypeOK
  <2>5. CASE IgnoreContent(d, m)
    BY <2>5 DEF IgnoreContent, TypeOK
  <2> QED BY <2>2, <2>3, <2>4, <2>5
<1>5. CASE PullSucceeds(d)
  <2>1. pulling[d].from \in Device /\ pulling[d].act \in Activation
    BY <1>5, PullTyped DEF PullSucceeds
  <2>2. held' \in [Device -> SUBSET Hash]
    BY <1>5, <2>1 DEF PullSucceeds, Persist, Activation, TypeOK
  <2>3. tasks' \in [Device -> SUBSET Task]
    BY <1>5, <2>1 DEF PullSucceeds, Converge, Task, TypeOK
  <2>4. pulling' \in [Device -> [from : Device, act : Activation] \cup {NoPull}]
    BY <1>5 DEF PullSucceeds, TypeOK
  <2> QED BY <1>5, <2>2, <2>3, <2>4 DEF PullSucceeds, TypeOK
<1>6. CASE PullFails(d)
  <2>1. pulling' \in [Device -> [from : Device, act : Activation] \cup {NoPull}]
    BY <1>6 DEF PullFails, TypeOK
  <2>2. faults' \in Nat
    BY <1>6 DEF PullFails, Fault, TypeOK
  <2> QED BY <1>6, <2>1, <2>2 DEF PullFails, TypeOK
<1>7. CASE WriteNext(d)
  <2> SUFFICES ASSUME NEW t \in tasks[d],
                      WriteOs(d, t) \/ WriteOsFails(d, t)
               PROVE  TypeOK'
    BY <1>7 DEF WriteNext
  <2>1. t \in Task /\ t.act.hash \in Hash
    BY DEF TypeOK, Task, Activation
  <2>2. [t EXCEPT !.stage = "advance"] \in Task
    BY <2>1 DEF Task
  <2>3. CASE WriteOs(d, t)
    <3>1. tasks' \in [Device -> SUBSET Task]
      BY <2>2, <2>3 DEF WriteOs, TypeOK
    <3> QED BY <2>1, <2>3, <3>1 DEF WriteOs, Written, TypeOK
  <2>4. CASE WriteOsFails(d, t)
    BY <2>4 DEF WriteOsFails, Fault, TypeOK
  <2> QED BY <2>3, <2>4
<1>8. CASE AdvanceNext(d)
  <2> SUFFICES ASSUME NEW t \in tasks[d],
                      AdvanceTask(d, t) \/ AdvanceTaskFails(d, t)
               PROVE  TypeOK'
    BY <1>8 DEF AdvanceNext
  <2>1. t.act \in Activation
    BY DEF TypeOK, Task
  <2>2. CASE AdvanceTask(d, t)
    <3>1. reg' \in [Device -> Register] /\ faults' \in Nat
      BY <2>1, <2>2, TryRegisterTyped DEF AdvanceTask
    <3>2. Relayed(d, t) \in SUBSET Message
      BY <2>1, PeersTyped, StateFramesTyped DEF Relayed
    <3> QED BY <2>2, <3>1, <3>2 DEF AdvanceTask, TypeOK
  <2>3. CASE AdvanceTaskFails(d, t)
    BY <2>3 DEF AdvanceTaskFails, AdvanceFails, Fault, TypeOK
  <2> QED BY <2>2, <2>3
<1>9. ASSUME NEW p \in Device, Resync(d, p)
      PROVE  TypeOK'
  <2>1. reg[d] \in Activation
    BY <1>9 DEF Resync, TypeOK, Register
  <2>2. StateFrames(d, {p}, reg[d]) \in SUBSET Message
    BY <2>1, StateFramesTyped
  <2> QED BY <1>9, <2>2 DEF Resync, TypeOK
<1>10. CASE ProcessNext(d)
  <2>1. CASE Unlock(d)
    BY <2>1 DEF Unlock, TypeOK
  <2>2. CASE Crash(d)
    BY <2>2 DEF Crash, Fault, TypeOK, Register
  <2>3. CASE Restart(d)
    <3>1. Reconciled(d) \in Register
      BY DEF Reconciled, Register, TypeOK
    <3> DEFINE row == Reconciled(d)
    <3>2. row \in Register
      BY <3>1
    <3>3. UNCHANGED reg \/ reg' = [reg EXCEPT ![d] = row]
      BY <2>3 DEF Restart
    <3>4. UNCHANGED faults \/ faults' = faults + 1
      BY <2>3 DEF Restart, Fault
    <3> HIDE DEF row
    <3>5. reg' \in [Device -> Register]
      BY <3>2, <3>3 DEF TypeOK
    <3>6. faults' \in Nat
      BY <3>4 DEF TypeOK
    <3>7. mode' \in [Device -> {"down", "locked", "ready"}]
      BY <2>3 DEF Restart, TypeOK
    <3>8. UNCHANGED <<clock, os, held, observed, restoring, offer, pulling,
                      tasks, net, claims, forgotten, ops>>
      BY <2>3 DEF Restart
    <3> QED BY <3>5, <3>6, <3>7, <3>8 DEF TypeOK
  <2> QED BY <1>10, <2>1, <2>2, <2>3 DEF ProcessNext
<1> QED
  BY <1>1, <1>2, <1>3, <1>4, <1>5, <1>6, <1>7, <1>8, <1>9, <1>10
  DEF DeviceNext

(* Every step, the loss of a frame included, keeps the state well typed. *)
LEMMA NextTyped == TypeOK /\ [Next]_vars => TypeOK'
<1> SUFFICES ASSUME TypeOK, [Next]_vars
             PROVE  TypeOK'
  OBVIOUS
<1>1. ASSUME NEW d \in Device, DeviceNext(d)
      PROVE  TypeOK'
  BY <1>1, DeviceNextTyped
<1>2. ASSUME NEW m \in net, Lose(m)
      PROVE  TypeOK'
  BY <1>2 DEF Lose, Fault, TypeOK
<1>3. CASE UNCHANGED vars
  BY <1>3 DEF vars, TypeOK
<1> QED BY <1>1, <1>2, <1>3 DEF Next

(***************************************************************************)
(* Every reachable state is well typed: registers, queues, tasks and       *)
(* frames hold whole activations through crashes, resets and failed steps. *)
(***************************************************************************)
THEOREM TypeCorrect == Spec => []TypeOK
<1>1. Init => TypeOK
  BY InitTyped
<1>2. TypeOK /\ [Next]_vars => TypeOK'
  BY NextTyped
<1> QED BY <1>1, <1>2, PTL DEF Spec
=============================================================================
