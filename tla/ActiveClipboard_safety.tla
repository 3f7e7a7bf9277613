------------------------ MODULE ActiveClipboard_safety ------------------------
(***************************************************************************)
(* Safety of ActiveClipboard, for any devices, contents, links, bounds and *)
(* clock skew: where activations come from, how a register moves, what is  *)
(* relayed, and that all of it implements LwwRegister; that what a         *)
(* register names was stored; and that a state from the far future starts  *)
(* no clipboard write.                                                     *)
(***************************************************************************)
EXTENDS ActiveClipboard_proofs

-----------------------------------------------------------------------------
(* How one step of a device changes claims and registers *)

LwwStep(d) ==
    \/ UNCHANGED <<claims, reg>>
    \/ \E a \in Activation :
         /\ a.by = d
         /\ claims' = claims \cup {a}
         /\ \/ UNCHANGED reg
            \/ reg' = [reg EXCEPT ![d] = Advance(@, a)]
    \/ /\ UNCHANGED claims
       /\ \E a \in claims : reg' = [reg EXCEPT ![d] = Advance(@, a)]
    \/ /\ UNCHANGED claims
       /\ ~ Up(d)
       /\ reg' = [reg EXCEPT ![d] = NoActivation]

(* A local activation is claimed, and the register tried with it or left. *)
LEMMA AdvanceLocalStep ==
    ASSUME NEW d \in Device, NEW a \in Activation, a.by = d,
           AdvanceLocal(d, a)
    PROVE  LwwStep(d)
<1>1. claims' = claims \cup {a}
  BY DEF AdvanceLocal
<1>2. UNCHANGED reg \/ reg' = [reg EXCEPT ![d] = Advance(@, a)]
  BY DEF AdvanceLocal, AdvanceRegister, AdvanceFails
<1> QED BY <1>1, <1>2 DEF LwwStep

(* A known activation is tried on the register. *)
LEMMA TryRegisterStep ==
    ASSUME NEW d \in Device, NEW a \in claims, UNCHANGED claims,
           AdvanceRegister(d, a) \/ AdvanceFails(d)
    PROVE  LwwStep(d)
<1>1. UNCHANGED reg \/ reg' = [reg EXCEPT ![d] = Advance(@, a)]
  BY DEF AdvanceRegister, AdvanceFails
<1> QED BY <1>1 DEF LwwStep

(***************************************************************************)
(* Every action of a device does one of these four things to registers     *)
(* and claims.                                                             *)
(***************************************************************************)
LEMMA RegisterStep ==
    ASSUME TypeOK, Genuine, NEW d \in Device, DeviceNext(d)
    PROVE  LwwStep(d)
<1>1. CASE Tick(d)
  BY <1>1 DEF Tick, LwwStep
<1>2. CASE UserNext(d)
  <2>1. CASE Lock(d)
    BY <2>1 DEF Lock, LwwStep
  <2>2. ASSUME NEW h \in Hash, UserCopy(d, h)
        PROVE  LwwStep(d)
    <3> DEFINE a == [hash |-> h, at |-> clock[d], by |-> d]
    <3>1. a \in Activation /\ a.by = d
      BY DEF TypeOK, Activation
    <3>2. UNCHANGED reg /\ (UNCHANGED claims \/ claims' = claims \cup {a})
      BY <2>2 DEF UserCopy
    <3> HIDE DEF a
    <3> QED BY <3>1, <3>2 DEF LwwStep
  <2>3. ASSUME NEW h \in Hash, RestoreWrite(d, h)
        PROVE  LwwStep(d)
    BY <2>3 DEF RestoreWrite, LwwStep
  <2>4. ASSUME NEW h \in Hash, Forget(d, h)
        PROVE  LwwStep(d)
    BY <2>4 DEF Forget, LwwStep
  <2> QED BY <1>2, <2>1, <2>2, <2>3, <2>4 DEF UserNext
<1>3. CASE LocalNext(d)
  <2>1. CASE HandleCapture(d)
    <3>1. PICK h \in Hash : AdvanceLocal(d, Stamp(d, h))
      <4>1. Head(observed[d]) \in Activation
        BY <2>1 DEF HandleCapture, TypeOK
      <4>2. Head(observed[d]).hash \in Hash
        BY <4>1 DEF Activation
      <4> QED BY <2>1, <4>2 DEF HandleCapture
    <3>2. Stamp(d, h) \in Activation /\ Stamp(d, h).by = d
      BY StampTyped DEF Stamp
    <3> QED BY <3>1, <3>2, AdvanceLocalStep
  <2>2. CASE DropCapture(d)
    BY <2>2 DEF DropCapture, LwwStep
  <2>3. ASSUME NEW h \in Hash, RestoreAdvance(d, h)
        PROVE  LwwStep(d)
    <3>1. CASE h \in held[d]
      <4>1. AdvanceLocal(d, Stamp(d, h))
        BY <2>3, <3>1 DEF RestoreAdvance
      <4>2. Stamp(d, h) \in Activation /\ Stamp(d, h).by = d
        BY StampTyped DEF Stamp
      <4> QED BY <4>1, <4>2, AdvanceLocalStep
    <3>2. CASE h \notin held[d]
      BY <2>3, <3>2 DEF RestoreAdvance, LwwStep
    <3> QED BY <3>1, <3>2
  <2>4. CASE RestoreBroadcast(d)
    BY <2>4 DEF RestoreBroadcast, LwwStep
  <2> QED BY <1>3, <2>1, <2>2, <2>3, <2>4 DEF LocalNext
<1>4. CASE ReceiveNext(d)
  <2> SUFFICES ASSUME NEW m \in net,
                      \/ ReceiveState(d, m)
                      \/ ReceiveNewContent(d, m)
                      \/ ReceiveHeldContent(d, m)
                      \/ IgnoreContent(d, m)
               PROVE  LwwStep(d)
    BY <1>4 DEF ReceiveNext
  <2>1. CASE ReceiveNewContent(d, m)
    <3>1. Claimed(d, m) \in claims
      BY DEF Claimed, Genuine
    <3>2. UNCHANGED claims
      BY <2>1 DEF ReceiveNewContent
    <3> QED BY <2>1, <3>1, <3>2, TryRegisterStep DEF ReceiveNewContent
  <2>2. CASE ReceiveState(d, m)
    BY <2>2 DEF ReceiveState, LwwStep
  <2>3. CASE ReceiveHeldContent(d, m)
    BY <2>3 DEF ReceiveHeldContent, LwwStep
  <2>4. CASE IgnoreContent(d, m)
    BY <2>4 DEF IgnoreContent, LwwStep
  <2> QED BY <2>1, <2>2, <2>3, <2>4
<1>5. CASE PullSucceeds(d) \/ PullFails(d)
  BY <1>5 DEF PullSucceeds, PullFails, LwwStep
<1>6. CASE WriteNext(d)
  BY <1>6 DEF WriteNext, WriteOs, WriteOsFails, LwwStep
<1>7. CASE AdvanceNext(d)
  <2> SUFFICES ASSUME NEW t \in tasks[d],
                      AdvanceTask(d, t) \/ AdvanceTaskFails(d, t)
               PROVE  LwwStep(d)
    BY <1>7 DEF AdvanceNext
  <2>1. t.act \in claims
    BY DEF Genuine
  <2>2. UNCHANGED claims /\ (AdvanceRegister(d, t.act) \/ AdvanceFails(d))
    BY DEF AdvanceTask, AdvanceTaskFails
  <2> QED BY <2>1, <2>2, TryRegisterStep
<1>8. ASSUME NEW p \in Device, Resync(d, p)
      PROVE  LwwStep(d)
  BY <1>8 DEF Resync, LwwStep
<1>9. CASE ProcessNext(d)
  <2>1. CASE Unlock(d) \/ Crash(d)
    BY <2>1 DEF Unlock, Crash, LwwStep
  <2>2. CASE Restart(d)
    <3>1. UNCHANGED claims /\ ~ Up(d)
      BY <2>2 DEF Restart
    <3>2. \/ UNCHANGED reg
          \/ reg' = [reg EXCEPT ![d] = reg[d]]
          \/ reg' = [reg EXCEPT ![d] = NoActivation]
      BY <2>2 DEF Restart, Reconciled
    <3>3. [reg EXCEPT ![d] = reg[d]] = reg
      BY DEF TypeOK
    <3> QED BY <3>1, <3>2, <3>3 DEF LwwStep
  <2> QED BY <1>9, <2>1, <2>2 DEF ProcessNext
<1> QED
  BY <1>1, <1>2, <1>3, <1>4, <1>5, <1>6, <1>7, <1>8, <1>9 DEF DeviceNext

(* Claims are never taken back, and a register holds only claims. *)
LEMMA RegisterGenuine ==
    ASSUME TypeOK, Genuine, NEW d \in Device, LwwStep(d)
    PROVE  /\ claims \subseteq claims'
           /\ \A e \in Device : reg'[e] \in claims' \cup {NoActivation}
<1>1. claims \subseteq claims'
  BY DEF LwwStep
<1>2. \/ UNCHANGED reg
      \/ \E a \in claims' : reg' = [reg EXCEPT ![d] = Advance(@, a)]
      \/ reg' = [reg EXCEPT ![d] = NoActivation]
  BY DEF LwwStep
<1>3. CASE UNCHANGED reg
  BY <1>1, <1>3 DEF Genuine
<1>4. ASSUME NEW a \in claims', reg' = [reg EXCEPT ![d] = Advance(@, a)]
      PROVE  \A e \in Device : reg'[e] \in claims' \cup {NoActivation}
  <2>1. Advance(reg[d], a) \in {reg[d], a}
    BY DEF Advance
  <2> QED BY <1>1, <1>4, <2>1 DEF Genuine, TypeOK
<1>5. CASE reg' = [reg EXCEPT ![d] = NoActivation]
  BY <1>1, <1>5 DEF Genuine, TypeOK
<1> QED BY <1>1, <1>2, <1>3, <1>4, <1>5

-----------------------------------------------------------------------------
(* Where activations come from *)

OfferGenuine ==
    \A d \in Device :
        offer[d] # NoActivation => offer[d] \in claims /\ offer[d].by = d

PullGenuine == \A d \in Device : pulling[d].act \in claims \cup {NoActivation}

TasksGenuine == \A d \in Device : \A t \in tasks[d] : t.act \in claims

(* The watcher's readings are stamped by their own device. *)
ObservedGenuine ==
    \A d \in Device : \A i \in DOMAIN observed[d] :
        observed[d][i] \in claims /\ observed[d][i].by = d

FramesGenuine ==
    \A m \in net :
        /\ m.act \in claims
        /\ IF m.type = "content" THEN m.act.by = m.from
                                 ELSE m.act.by # m.to

(***************************************************************************)
(* Genuine is not inductive: a content frame names its sender because the  *)
(* watcher's reading it is made of does.                                   *)
(***************************************************************************)
Carried ==
    OfferGenuine /\ PullGenuine /\ TasksGenuine /\ ObservedGenuine
    /\ FramesGenuine

GenuineInv == TypeOK /\ Genuine /\ Carried

(* State frames of a claimed activation are genuine. *)
LEMMA StateFramesGenuine ==
    ASSUME NEW d \in Device, NEW targets \in SUBSET Device, NEW a \in claims'
    PROVE  \A m \in StateFrames(d, targets, a) :
              m.act \in claims' /\ m.type = "state" /\ m.act.by # m.to
BY DEF StateFrames

(* A queue without its head holds what it held before. *)
LEMMA TailElements ==
    ASSUME NEW S, NEW s \in Seq(S), s # <<>>
    PROVE  \A i \in DOMAIN Tail(s) :
              i + 1 \in DOMAIN s /\ Tail(s)[i] = s[i + 1]
<1>1. Len(s) \in Nat /\ Len(s) > 0 /\ DOMAIN s = 1 .. Len(s)
  OBVIOUS
<1>2. DOMAIN Tail(s) = 1 .. Len(s) - 1
  BY <1>1
<1>3. ASSUME NEW i \in 1 .. Len(s) - 1
      PROVE  i + 1 \in 1 .. Len(s) /\ Tail(s)[i] = s[i + 1]
  BY <1>1
<1> QED BY <1>1, <1>2, <1>3

(* A pull or a task started from a genuine frame is genuine. *)
LEMMA ConvergeGenuine ==
    ASSUME GenuineInv, NEW d \in Device, NEW from,
           NEW a \in claims, claims \subseteq claims', Converge(d, from, a)
    PROVE  TasksGenuine'
BY DEF GenuineInv, TypeOK, Carried, TasksGenuine, Converge

(* Whatever a step of a device hands on is a claim. *)
LEMMA CarriedStep ==
    ASSUME GenuineInv, NEW d \in Device, DeviceNext(d),
           claims \subseteq claims'
    PROVE  Carried'
<1> USE DEF GenuineInv
<1>0. /\ UNCHANGED offer => OfferGenuine'
      /\ UNCHANGED pulling => PullGenuine'
      /\ UNCHANGED tasks => TasksGenuine'
      /\ UNCHANGED observed => ObservedGenuine'
      /\ net' \subseteq net => FramesGenuine'
  BY DEF Carried, OfferGenuine, PullGenuine, TasksGenuine, ObservedGenuine,
         FramesGenuine
<1>1. CASE Tick(d)
  BY <1>0, <1>1 DEF Tick, Carried
<1>2. CASE UserNext(d)
  <2>1. CASE Lock(d)
    BY <1>0, <2>1 DEF Lock, Carried
  <2>2. ASSUME NEW h \in Hash, UserCopy(d, h)
        PROVE  Carried'
    <3> DEFINE a == [hash |-> h, at |-> clock[d], by |-> d]
    <3>1. \/ UNCHANGED observed
          \/ /\ a \in claims'
             /\ observed' = [observed EXCEPT ![d] = Append(@, a)]
      BY <2>2 DEF UserCopy
    <3>2. a \in Activation /\ a.by = d
      BY DEF TypeOK, Activation
    <3> HIDE DEF a
    <3>3. ObservedGenuine'
      <4>1. ASSUME a \in claims',
                   observed' = [observed EXCEPT ![d] = Append(@, a)]
            PROVE  ObservedGenuine'
        <5>1. ASSUME NEW e \in Device, e # d
              PROVE  observed'[e] = observed[e]
          BY <4>1, <5>1 DEF TypeOK
        <5>2. observed'[d] = Append(observed[d], a)
          BY <4>1 DEF TypeOK
        <5>3. \A i \in DOMAIN observed'[d] :
                observed'[d][i] = a \/ (i \in DOMAIN observed[d]
                                        /\ observed'[d][i] = observed[d][i])
          BY <3>2, <5>2 DEF TypeOK
        <5> QED
          BY <3>2, <4>1, <5>1, <5>3 DEF Carried, ObservedGenuine
      <4> QED BY <1>0, <3>1, <4>1
    <3>4. UNCHANGED <<offer, pulling, tasks, net>>
      BY <2>2 DEF UserCopy
    <3> QED BY <1>0, <3>3, <3>4 DEF Carried
  <2>3. ASSUME NEW h \in Hash, RestoreWrite(d, h)
        PROVE  Carried'
    BY <1>0, <2>3 DEF RestoreWrite, Carried
  <2>4. ASSUME NEW h \in Hash, Forget(d, h)
        PROVE  Carried'
    BY <1>0, <2>4 DEF Forget, Carried
  <2> QED BY <1>2, <2>1, <2>2, <2>3, <2>4 DEF UserNext
<1>3. CASE LocalNext(d)
  <2>1. ASSUME observed[d] # <<>>,
               observed' = [observed EXCEPT ![d] = Tail(@)]
        PROVE  ObservedGenuine'
    <3>1. ASSUME NEW e \in Device, e # d
          PROVE  observed'[e] = observed[e]
      BY <2>1, <3>1 DEF TypeOK
    <3>2. observed[d] \in Seq(Activation) /\ observed'[d] = Tail(observed[d])
      BY <2>1 DEF TypeOK
    <3>3. \A i \in DOMAIN observed'[d] :
            i + 1 \in DOMAIN observed[d] /\ observed'[d][i] = observed[d][i + 1]
      BY <2>1, <3>2, TailElements
    <3>4. ASSUME NEW i \in DOMAIN observed'[d]
          PROVE  observed'[d][i] \in claims' /\ observed'[d][i].by = d
      <4>1. observed[d][i + 1] \in claims /\ observed[d][i + 1].by = d
        BY <3>3 DEF Carried, ObservedGenuine
      <4> QED BY <3>3, <4>1
    <3>5. ASSUME NEW e \in Device, e # d, NEW i \in DOMAIN observed'[e]
          PROVE  observed'[e][i] \in claims' /\ observed'[e][i].by = e
      BY <3>1, <3>5 DEF Carried, ObservedGenuine
    <3> QED BY <3>4, <3>5 DEF ObservedGenuine
  <2>2. CASE HandleCapture(d)
    <3> DEFINE seen == Head(observed[d])
    <3>1. seen \in claims /\ seen.by = d
      BY <2>2 DEF HandleCapture, Carried, ObservedGenuine, TypeOK
    <3>2. \A m \in ContentFrames(d, Peers(d), seen) :
            m.type = "content" /\ m.act \in claims /\ m.act.by = m.from
      BY <3>1 DEF ContentFrames
    <3>3. net' \subseteq net \cup ContentFrames(d, Peers(d), seen)
      BY <2>2 DEF HandleCapture
    <3> HIDE DEF seen
    <3>4. FramesGenuine'
      BY <3>2, <3>3 DEF Carried, FramesGenuine
    <3>5. UNCHANGED <<offer, pulling, tasks>> /\ ObservedGenuine'
      BY <2>1, <2>2 DEF HandleCapture
    <3> QED BY <1>0, <3>4, <3>5 DEF Carried
  <2>3. CASE DropCapture(d)
    BY <1>0, <2>1, <2>3 DEF DropCapture, Carried
  <2>4. ASSUME NEW h \in Hash, RestoreAdvance(d, h)
        PROVE  Carried'
    <3>1. CASE h \in held[d]
      <4> DEFINE a == Stamp(d, h)
      <4>1. a \in claims' /\ a.by = d
        BY <2>4, <3>1 DEF RestoreAdvance, AdvanceLocal, Stamp
      <4>2. offer' = [offer EXCEPT ![d] = a]
        BY <2>4, <3>1 DEF RestoreAdvance
      <4> HIDE DEF a
      <4>3. OfferGenuine'
        BY <4>1, <4>2 DEF Carried, OfferGenuine, TypeOK
      <4> QED BY <1>0, <2>4, <4>3 DEF RestoreAdvance, Carried
    <3>2. CASE h \notin held[d]
      BY <1>0, <2>4, <3>2 DEF RestoreAdvance, Carried
    <3> QED BY <3>1, <3>2
  <2>5. CASE RestoreBroadcast(d)
    <3>1. offer[d] \in claims'
      BY <2>5 DEF RestoreBroadcast, Carried, OfferGenuine
    <3>2. net' \subseteq net \cup StateFrames(d, Peers(d), offer[d])
      BY <2>5 DEF RestoreBroadcast
    <3>3. FramesGenuine'
      BY <3>1, <3>2, PeersTyped, StateFramesGenuine DEF Carried, FramesGenuine
    <3>4. OfferGenuine'
      BY <2>5 DEF RestoreBroadcast, Carried, OfferGenuine, TypeOK
    <3> QED BY <1>0, <2>5, <3>3, <3>4 DEF RestoreBroadcast, Carried
  <2> QED BY <1>3, <2>2, <2>3, <2>4, <2>5 DEF LocalNext
<1>4. CASE ReceiveNext(d)
  <2> SUFFICES ASSUME NEW m \in net,
                      \/ ReceiveState(d, m)
                      \/ ReceiveNewContent(d, m)
                      \/ ReceiveHeldContent(d, m)
                      \/ IgnoreContent(d, m)
               PROVE  Carried'
    BY <1>4 DEF ReceiveNext
  <2>1. m.act \in claims
    BY DEF Carried, FramesGenuine
  <2>2. UNCHANGED <<offer, observed>> /\ net' \subseteq net
    BY DEF ReceiveState, ReceiveNewContent, ReceiveHeldContent, IgnoreContent
  <2>3. CASE ReceiveState(d, m)
    <3>1. \/ UNCHANGED tasks
          \/ Converge(d, m.from, m.act)
      BY <2>3 DEF ReceiveState
    <3>2. \/ UNCHANGED pulling
          \/ pulling' = [pulling EXCEPT ![d] =
                           [from |-> m.from, act |-> m.act]]
      BY <2>3, Zenon DEF ReceiveState
    <3>3. PullGenuine'
      BY <1>0, <2>1, <3>2 DEF Carried, PullGenuine, TypeOK
    <3>4. TasksGenuine'
      BY <1>0, <2>1, <3>1, ConvergeGenuine
    <3> QED BY <1>0, <2>2, <3>3, <3>4 DEF Carried
  <2>4. CASE ReceiveNewContent(d, m) \/ ReceiveHeldContent(d, m)
    <3>1. PICK kind \in {"publish", "resurface"} :
            tasks' = [tasks EXCEPT ![d] = @ \cup {ContentTask(kind, d, m)}]
      BY <2>4 DEF ReceiveNewContent, ReceiveHeldContent
    <3>2. ContentTask(kind, d, m).act \in claims'
      BY <2>1 DEF ContentTask, Claimed
    <3>3. TasksGenuine'
      BY <3>1, <3>2 DEF Carried, TasksGenuine, TypeOK
    <3> QED
      BY <1>0, <2>2, <2>4, <3>3
      DEF Carried, ReceiveNewContent, ReceiveHeldContent
  <2>5. CASE IgnoreContent(d, m)
    BY <1>0, <2>5 DEF IgnoreContent, Carried
  <2> QED BY <2>3, <2>4, <2>5
<1>5. CASE PullSucceeds(d)
  <2>1. pulling[d].act \in claims
    <3>1. pulling[d].act \in Activation
      BY <1>5, PullTyped DEF PullSucceeds
    <3> QED BY <3>1, NoActivationAssumption DEF Carried, PullGenuine
  <2>2. TasksGenuine'
    BY <1>5, <2>1, ConvergeGenuine DEF PullSucceeds
  <2>3. PullGenuine'
    BY <1>5 DEF PullSucceeds, Carried, PullGenuine, NoPull, TypeOK
  <2> QED BY <1>0, <1>5, <2>2, <2>3 DEF PullSucceeds, Carried
<1>6. CASE PullFails(d)
  <2>1. PullGenuine'
    BY <1>6 DEF PullFails, Carried, PullGenuine, NoPull, TypeOK
  <2> QED BY <1>0, <1>6, <2>1 DEF PullFails, Carried
<1>7. CASE WriteNext(d)
  <2> SUFFICES ASSUME NEW t \in tasks[d],
                      WriteOs(d, t) \/ WriteOsFails(d, t)
               PROVE  Carried'
    BY <1>7 DEF WriteNext
  <2>1. tasks'[d] \subseteq tasks[d] \cup {[t EXCEPT !.stage = "advance"]}
    BY DEF WriteOs, WriteOsFails, TypeOK
  <2>2. \A e \in Device \ {d} : tasks'[e] = tasks[e]
    BY DEF WriteOs, WriteOsFails, TypeOK
  <2>3. [t EXCEPT !.stage = "advance"].act \in claims'
    BY DEF Carried, TasksGenuine, TypeOK, Task
  <2>4. TasksGenuine'
    BY <2>1, <2>2, <2>3 DEF Carried, TasksGenuine
  <2> QED BY <1>0, <2>4 DEF WriteOs, WriteOsFails, Carried
<1>8. CASE AdvanceNext(d)
  <2> SUFFICES ASSUME NEW t \in tasks[d],
                      AdvanceTask(d, t) \/ AdvanceTaskFails(d, t)
               PROVE  Carried'
    BY <1>8 DEF AdvanceNext
  <2>1. TasksGenuine'
    BY DEF AdvanceTask, AdvanceTaskFails, Carried, TasksGenuine, TypeOK
  <2>2. t.act \in claims'
    BY DEF Carried, TasksGenuine
  <2>3. net' \subseteq net \cup StateFrames(d, Peers(d), t.act)
    BY DEF AdvanceTask, AdvanceTaskFails, Relayed
  <2>4. FramesGenuine'
    BY <2>2, <2>3, PeersTyped, StateFramesGenuine DEF Carried, FramesGenuine
  <2> QED BY <1>0, <2>1, <2>4 DEF AdvanceTask, AdvanceTaskFails, Carried
<1>9. ASSUME NEW p \in Device, Resync(d, p)
      PROVE  Carried'
  <2>1. reg[d] \in claims'
    BY <1>9 DEF Resync, Genuine
  <2>2. net' = net \cup StateFrames(d, {p}, reg[d])
    BY <1>9 DEF Resync
  <2>3. FramesGenuine'
    BY <2>1, <2>2, StateFramesGenuine DEF Carried, FramesGenuine
  <2> QED BY <1>0, <1>9, <2>3 DEF Resync, Carried
<1>10. CASE ProcessNext(d)
  <2>1. CASE Unlock(d)
    BY <1>0, <2>1 DEF Unlock, Carried
  <2>2. CASE Crash(d)
    <3>1. OfferGenuine'
      BY <2>2 DEF Crash, Carried, OfferGenuine, TypeOK
    <3>2. PullGenuine'
      BY <2>2 DEF Crash, Carried, PullGenuine, NoPull, TypeOK
    <3>3. TasksGenuine'
      BY <2>2 DEF Crash, Carried, TasksGenuine, TypeOK
    <3>4. ObservedGenuine'
      BY <2>2 DEF Crash, Carried, ObservedGenuine, TypeOK
    <3> QED BY <1>0, <2>2, <3>1, <3>2, <3>3, <3>4 DEF Crash, Carried
  <2>3. CASE Restart(d)
    BY <1>0, <2>3 DEF Restart, Carried
  <2> QED BY <1>10, <2>1, <2>2, <2>3 DEF ProcessNext
<1> QED
  BY <1>1, <1>2, <1>3, <1>4, <1>5, <1>6, <1>7, <1>8, <1>9, <1>10
  DEF DeviceNext

(* Nothing is carried at first. *)
LEMMA InitGenuine == Init => GenuineInv
<1>1. Init => Genuine /\ Carried
  BY DEF Init, Genuine, Carried, OfferGenuine, PullGenuine, TasksGenuine,
         ObservedGenuine, FramesGenuine, NoPull
<1> QED BY <1>1, InitTyped DEF GenuineInv

(* Frames may disappear. *)
LEMMA LosingIsGenuine ==
    ASSUME GenuineInv, net' \subseteq net,
           UNCHANGED <<reg, offer, pulling, tasks, observed, claims>>
    PROVE  Genuine' /\ Carried'
<1>1. OfferGenuine' /\ PullGenuine' /\ TasksGenuine' /\ ObservedGenuine'
  BY DEF GenuineInv, Carried, OfferGenuine, PullGenuine, TasksGenuine,
         ObservedGenuine
<1>2. FramesGenuine'
  BY DEF GenuineInv, Carried, FramesGenuine
<1>3. \A d \in Device : reg'[d] \in claims' \cup {NoActivation}
  BY DEF GenuineInv, Genuine
<1> QED
  BY <1>1, <1>2, <1>3
  DEF Genuine, Carried, OfferGenuine, PullGenuine, TasksGenuine,
      ObservedGenuine, FramesGenuine

(* Every step keeps the inductive invariant. *)
LEMMA GenuineStep == GenuineInv /\ [Next]_vars => GenuineInv'
<1> SUFFICES ASSUME GenuineInv, [Next]_vars
             PROVE  GenuineInv'
  OBVIOUS
<1>1. TypeOK'
  BY NextTyped DEF GenuineInv
<1>2. ASSUME NEW d \in Device, DeviceNext(d)
      PROVE  Genuine' /\ Carried'
  <2>1. LwwStep(d)
    BY <1>2, RegisterStep DEF GenuineInv
  <2>2. /\ claims \subseteq claims'
        /\ \A e \in Device : reg'[e] \in claims' \cup {NoActivation}
    BY <2>1, RegisterGenuine DEF GenuineInv
  <2>3. Carried'
    BY <1>2, <2>2, CarriedStep
  <2> QED
    BY <2>2, <2>3
    DEF Genuine, Carried, OfferGenuine, PullGenuine, TasksGenuine,
        ObservedGenuine, FramesGenuine
<1>3. CASE \E m \in net : Lose(m)
  <2>1. /\ net' \subseteq net
        /\ UNCHANGED <<reg, offer, pulling, tasks, observed, claims>>
    BY <1>3 DEF Lose
  <2> QED BY <1>1, <2>1, LosingIsGenuine DEF GenuineInv
<1>4. CASE UNCHANGED vars
  <2>1. /\ net' \subseteq net
        /\ UNCHANGED <<reg, offer, pulling, tasks, observed, claims>>
    BY <1>4 DEF vars
  <2> QED BY <1>1, <2>1, LosingIsGenuine DEF GenuineInv
<1> QED BY <1>1, <1>2, <1>3, <1>4 DEF Next, GenuineInv

(***************************************************************************)
(* No hop of the protocol restamps or re-attributes an activation:         *)
(* registers, offers, pulls, tasks and frames only ever hold activations   *)
(* their device really made, on every path of apply_inbound, the content   *)
(* path, the broadcaster and the resync worker.                            *)
(***************************************************************************)
THEOREM ActivationsAreGenuine == Spec => []Genuine
<1>1. Spec => []GenuineInv
  BY InitGenuine, GenuineStep, PTL DEF Spec
<1>2. GenuineInv => Genuine
  BY DEF GenuineInv
<1> QED BY <1>1, <1>2, PTL

-----------------------------------------------------------------------------
(* How registers move *)

(* What one device does to registers and claims, in any step of the system. *)
LEMMA SystemStep ==
    ASSUME GenuineInv, [Next]_vars
    PROVE  UNCHANGED <<claims, reg>> \/ \E d \in Device : LwwStep(d)
<1>1. ASSUME NEW d \in Device, DeviceNext(d)
      PROVE  LwwStep(d)
  BY <1>1, RegisterStep DEF GenuineInv
<1>2. CASE \E m \in net : Lose(m)
  BY <1>2 DEF Lose
<1>3. CASE UNCHANGED vars
  BY <1>3 DEF vars
<1> QED BY <1>1, <1>2, <1>3 DEF Next

(* The compare-and-set leaves the register or moves it up. *)
LEMMA AdvanceMoves ==
    ASSUME NEW cur, NEW a \in Activation
    PROVE  \/ ~ ShouldAdvance(cur, a) /\ Advance(cur, a) = cur
           \/ /\ ShouldAdvance(cur, a)
              /\ Advance(cur, a) = a
              /\ a # NoActivation
BY NoActivationAssumption DEF Advance

LEMMA StepMovesUp ==
    ASSUME TypeOK, claims' \subseteq Activation, NEW d \in Device, LwwStep(d)
    PROVE  RegisterMoves
<1>1. CASE UNCHANGED reg
  BY <1>1 DEF RegisterMoves
<1>2. ASSUME NEW a \in claims', reg' = [reg EXCEPT ![d] = Advance(@, a)]
      PROVE  RegisterMoves
  <2>1. /\ reg'[d] = Advance(reg[d], a)
        /\ \A e \in Device \ {d} : reg'[e] = reg[e]
    BY <1>2 DEF TypeOK
  <2> QED BY <2>1, AdvanceMoves DEF RegisterMoves, ShouldAdvance
<1>3. CASE ~ Up(d) /\ reg' = [reg EXCEPT ![d] = NoActivation]
  BY <1>3 DEF RegisterMoves, TypeOK
<1> QED BY <1>1, <1>2, <1>3 DEF LwwStep

(***************************************************************************)
(* However long ago a task compared its activation with the register, what *)
(* it then does to the register is a move up; only a process that starts   *)
(* takes a value back (apply_inbound, advance_local, reconcile).           *)
(***************************************************************************)
THEOREM RegistersOnlyMoveUp == Spec => RegisterNeverRegresses
<1>1. GenuineInv /\ GenuineInv' /\ [Next]_vars => [RegisterMoves]_vars
  <2> SUFFICES ASSUME GenuineInv, GenuineInv', [Next]_vars
               PROVE  RegisterMoves
    OBVIOUS
  <2>1. claims' \subseteq Activation
    BY DEF GenuineInv, TypeOK
  <2>2. CASE UNCHANGED <<claims, reg>>
    BY <2>2 DEF RegisterMoves
  <2>3. ASSUME NEW d \in Device, LwwStep(d)
        PROVE  RegisterMoves
    BY <2>1, <2>3, StepMovesUp DEF GenuineInv
  <2> QED BY <2>2, <2>3, SystemStep
<1>2. Spec => []GenuineInv
  BY InitGenuine, GenuineStep, PTL DEF Spec
<1> QED BY <1>1, <1>2, PTL DEF Spec, RegisterNeverRegresses

-----------------------------------------------------------------------------
(* The refinement *)

LEMMA InitRefines == Init => Lww!LwwInit
BY DEF Init, Lww!LwwInit

LEMMA StepRefines ==
    ASSUME TypeOK, claims' \subseteq Activation, NEW d \in Device, LwwStep(d)
    PROVE  [Lww!LwwNext]_(Lww!lwwVars)
<1>1. CASE UNCHANGED <<claims, reg>>
  BY <1>1 DEF Lww!lwwVars
<1>2. ASSUME NEW a \in Activation, a.by = d, claims' = claims \cup {a},
             \/ UNCHANGED reg
             \/ reg' = [reg EXCEPT ![d] = Advance(@, a)]
      PROVE  Lww!Claim(d)
  <2>1. a \in claims' /\ a \in Lww!Activation
    BY <1>2 DEF Activation, Lww!Activation
  <2>2. \A cur : Advance(cur, a) = Lww!Advance(cur, a)
    BY DEF Advance, ShouldAdvance, Supersedes,
           Lww!Advance, Lww!ShouldAdvance, Lww!Supersedes
  <2> QED BY <1>2, <2>1, <2>2 DEF Lww!Claim
<1>3. ASSUME NEW a \in claims, UNCHANGED claims,
             reg' = [reg EXCEPT ![d] = Advance(@, a)]
      PROVE  UNCHANGED <<claims, reg>> \/ Lww!Adopt(d)
  <2>1. a \in Activation
    BY <1>3
  <2>2. CASE ShouldAdvance(reg[d], a)
    <3>1. reg' = [reg EXCEPT ![d] = a]
      BY <1>3, <2>2 DEF Advance
    <3>2. Lww!ShouldAdvance(reg[d], a)
      BY <2>2 DEF ShouldAdvance, Supersedes, Lww!ShouldAdvance, Lww!Supersedes
    <3> QED BY <1>3, <3>1, <3>2 DEF Lww!Adopt
  <2>3. CASE ~ ShouldAdvance(reg[d], a)
    <3>1. reg' = [reg EXCEPT ![d] = reg[d]]
      BY <1>3, <2>3 DEF Advance
    <3> QED BY <1>3, <3>1 DEF TypeOK
  <2> QED BY <2>2, <2>3
<1>4. ASSUME UNCHANGED claims, reg' = [reg EXCEPT ![d] = NoActivation]
      PROVE  Lww!Reset(d)
  BY <1>4 DEF Lww!Reset
<1> QED
  BY <1>1, <1>2, <1>3, <1>4 DEF LwwStep, Lww!LwwNext, Lww!lwwVars

(***************************************************************************)
(* The system of frames, pulls, detached writes, locks and crashes         *)
(* implements the abstract last-writer-wins register: each of its steps    *)
(* makes, adopts or resets an activation, or changes nothing of it.        *)
(***************************************************************************)
THEOREM RefinesLww == Spec => ImplementsLww
<1>1. GenuineInv /\ GenuineInv' /\ [Next]_vars
        => [Lww!LwwNext]_(Lww!lwwVars)
  <2> SUFFICES ASSUME GenuineInv, GenuineInv', [Next]_vars
               PROVE  [Lww!LwwNext]_(Lww!lwwVars)
    OBVIOUS
  <2>1. claims' \subseteq Activation
    BY DEF GenuineInv, TypeOK
  <2>2. CASE UNCHANGED <<claims, reg>>
    BY <2>2 DEF Lww!lwwVars
  <2>3. ASSUME NEW d \in Device, LwwStep(d)
        PROVE  [Lww!LwwNext]_(Lww!lwwVars)
    BY <2>1, <2>3, StepRefines DEF GenuineInv
  <2> QED BY <2>2, <2>3, SystemStep
<1>2. Spec => []GenuineInv
  BY InitGenuine, GenuineStep, PTL DEF Spec
<1> QED BY <1>1, <1>2, InitRefines, PTL DEF Spec, ImplementsLww, Lww!LwwSpec

-----------------------------------------------------------------------------
(* What is relayed *)

LEMMA DeviceRelays ==
    ASSUME GenuineInv, NEW d \in Device, DeviceNext(d)
    PROVE  RelayedStates
<1> USE DEF GenuineInv
<1>1. CASE net' \subseteq net
  BY <1>1 DEF RelayedStates
<1>2. CASE HandleCapture(d)
  <2>1. net' \subseteq net \cup ContentFrames(d, Peers(d), Head(observed[d]))
    BY <1>2 DEF HandleCapture
  <2>2. \A m \in ContentFrames(d, Peers(d), Head(observed[d])) :
          m.type = "content"
    BY DEF ContentFrames
  <2> QED BY <2>1, <2>2 DEF RelayedStates
<1>3. CASE RestoreBroadcast(d)
  <2>1. offer[d].by = d
    BY <1>3 DEF RestoreBroadcast, Carried, OfferGenuine
  <2>2. net' \subseteq net \cup StateFrames(d, Peers(d), offer[d])
    BY <1>3 DEF RestoreBroadcast
  <2>3. \A m \in StateFrames(d, Peers(d), offer[d]) :
          m.from = d /\ m.act = offer[d]
    BY DEF StateFrames
  <2> QED BY <2>1, <2>2, <2>3 DEF RelayedStates
<1>4. ASSUME NEW t \in tasks[d], AdvanceTask(d, t)
      PROVE  RelayedStates
  <2>1. net' \subseteq net
          \cup {m \in StateFrames(d, Peers(d), t.act) :
                  ShouldAdvance(reg[d], t.act)}
    BY <1>4 DEF AdvanceTask, Relayed
  <2>2. \A m \in StateFrames(d, Peers(d), t.act) :
          m.from = d /\ m.act = t.act
    BY DEF StateFrames
  <2>3. ShouldAdvance(reg[d], t.act) => reg'[d] = t.act
    BY <1>4 DEF AdvanceTask, AdvanceRegister, Advance, TypeOK
  <2> QED BY <2>1, <2>2, <2>3 DEF RelayedStates
<1>5. ASSUME NEW p \in Device, Resync(d, p)
      PROVE  RelayedStates
  <2>1. /\ net' = net \cup StateFrames(d, {p}, reg[d])
        /\ reg' = reg
    BY <1>5 DEF Resync
  <2>2. \A m \in StateFrames(d, {p}, reg[d]) : m.from = d /\ m.act = reg[d]
    BY DEF StateFrames
  <2> QED BY <2>1, <2>2 DEF RelayedStates
<1>6. CASE Tick(d)
  BY <1>1, <1>6 DEF Tick
<1>7. CASE UserNext(d)
  BY <1>1, <1>7 DEF UserNext, Lock, UserCopy, RestoreWrite, Forget
<1>8. CASE LocalNext(d)
  BY <1>1, <1>2, <1>3, <1>8 DEF LocalNext, DropCapture, RestoreAdvance
<1>9. CASE ReceiveNext(d)
  BY <1>1, <1>9
  DEF ReceiveNext, ReceiveState, ReceiveNewContent, ReceiveHeldContent,
      IgnoreContent
<1>10. CASE PullSucceeds(d) \/ PullFails(d)
  BY <1>1, <1>10 DEF PullSucceeds, PullFails
<1>11. CASE WriteNext(d)
  BY <1>1, <1>11 DEF WriteNext, WriteOs, WriteOsFails
<1>12. CASE AdvanceNext(d)
  BY <1>1, <1>4, <1>12 DEF AdvanceNext, AdvanceTaskFails
<1>13. CASE ProcessNext(d)
  BY <1>1, <1>13 DEF ProcessNext, Unlock, Crash, Restart
<1> QED
  BY <1>5, <1>6, <1>7, <1>8, <1>9, <1>10, <1>11, <1>12, <1>13 DEF DeviceNext

(***************************************************************************)
(* A state made elsewhere leaves a device only while it is the register of *)
(* that device; a relay leaves it in the step that adopted the state.      *)
(***************************************************************************)
THEOREM OnlyRegistersAreRelayed == Spec => RelaysOnlyItsRegister
<1>1. GenuineInv /\ [Next]_vars => [RelayedStates]_vars
  <2> SUFFICES ASSUME GenuineInv, [Next]_vars
               PROVE  RelayedStates
    OBVIOUS
  <2>1. ASSUME NEW d \in Device, DeviceNext(d)
        PROVE  RelayedStates
    BY <2>1, DeviceRelays
  <2>2. CASE \E m \in net : Lose(m)
    BY <2>2 DEF Lose, RelayedStates
  <2>3. CASE UNCHANGED vars
    BY <2>3 DEF vars, RelayedStates
  <2> QED BY <2>1, <2>2, <2>3 DEF Next
<1>2. Spec => []GenuineInv
  BY InitGenuine, GenuineStep, PTL DEF Spec
<1> QED BY <1>1, <1>2, PTL DEF Spec, RelaysOnlyItsRegister

-----------------------------------------------------------------------------
(* Persistence precedes the register *)

RegisterStored ==
    \A d \in Device : reg[d] # NoActivation => reg[d].hash \in Stored(d)

TasksStored == \A d \in Device : \A t \in tasks[d] : t.act.hash \in Stored(d)

OfferStored ==
    \A d \in Device : offer[d] # NoActivation => offer[d].hash \in Stored(d)

FramesStored ==
    \A m \in net : m.type = "state" => m.act.hash \in Stored(m.from)

(* The invariant is the conjunction of the four. *)
LEMMA StoredParts ==
    NamedContentWasStored <=>
        RegisterStored /\ TasksStored /\ OfferStored /\ FramesStored
BY DEF NamedContentWasStored, RegisterStored, TasksStored, OfferStored,
       FramesStored

(* What a device once stored stays on the record. *)
StoredGrows == \A d \in Device : Stored(d) \subseteq Stored(d)'

(* Storing an entry adds to the record, and deleting none keeps it. *)
LEMMA PersistGrows ==
    ASSUME TypeOK, NEW d \in Device, NEW h, Persist(d, h), UNCHANGED forgotten
    PROVE  StoredGrows /\ h \in Stored(d)'
BY DEF TypeOK, Persist, StoredGrows, Stored

(* A step that touches no entry keeps the record. *)
LEMMA KeptGrows ==
    ASSUME UNCHANGED <<held, forgotten>>
    PROVE  StoredGrows
BY DEF StoredGrows, Stored

(* The parts that a step which only stores more leaves alone. *)
LEMMA PartsKept ==
    ASSUME TypeOK, NamedContentWasStored, StoredGrows
    PROVE  /\ UNCHANGED reg => RegisterStored'
           /\ UNCHANGED tasks => TasksStored'
           /\ UNCHANGED offer => OfferStored'
           /\ net' \subseteq net => FramesStored'
<1>1. UNCHANGED reg => RegisterStored'
  BY DEF StoredGrows, NamedContentWasStored, RegisterStored
<1>2. UNCHANGED tasks => TasksStored'
  BY DEF StoredGrows, NamedContentWasStored, TasksStored
<1>3. UNCHANGED offer => OfferStored'
  BY DEF StoredGrows, NamedContentWasStored, OfferStored
<1>4. net' \subseteq net => FramesStored'
  BY DEF StoredGrows, NamedContentWasStored, FramesStored, TypeOK, Message
<1> QED BY <1>1, <1>2, <1>3, <1>4

(* Trying the register with stored content. *)
LEMMA TryRegisterStored ==
    ASSUME TypeOK, NamedContentWasStored, StoredGrows,
           NEW d \in Device, NEW a, a.hash \in Stored(d)',
           AdvanceRegister(d, a) \/ AdvanceFails(d)
    PROVE  RegisterStored'
<1>1. UNCHANGED reg \/ reg' = [reg EXCEPT ![d] = Advance(@, a)]
  BY DEF AdvanceRegister, AdvanceFails
<1>2. CASE UNCHANGED reg
  BY <1>2, PartsKept
<1>3. CASE reg' = [reg EXCEPT ![d] = Advance(@, a)]
  <2>1. /\ reg'[d] \in {reg[d], a}
        /\ \A e \in Device \ {d} : reg'[e] = reg[e]
    BY <1>3 DEF Advance, TypeOK
  <2> QED BY <2>1 DEF StoredGrows, NamedContentWasStored, RegisterStored
<1> QED BY <1>1, <1>2, <1>3

(* One more task, for stored content. *)
LEMMA AddTaskStored ==
    ASSUME TypeOK, NamedContentWasStored, StoredGrows,
           NEW d \in Device, NEW t, t.act.hash \in Stored(d)',
           tasks' = [tasks EXCEPT ![d] = @ \cup {t}]
    PROVE  TasksStored'
<1>1. /\ tasks'[d] = tasks[d] \cup {t}
      /\ \A e \in Device \ {d} : tasks'[e] = tasks[e]
  BY DEF TypeOK
<1> QED BY <1>1 DEF StoredGrows, NamedContentWasStored, TasksStored

(* The task that a state frame, or a pull, starts. *)
LEMMA ConvergeStored ==
    ASSUME TypeOK, NamedContentWasStored, StoredGrows, NEW d \in Device,
           NEW from, NEW a, a.hash \in Stored(d)', Converge(d, from, a)
    PROVE  TasksStored'
<1> DEFINE t == [kind |-> "converge", stage |-> "write", from |-> from,
                 act |-> a]
<1>1. t.act = a /\ tasks' = [tasks EXCEPT ![d] = @ \cup {t}]
  BY DEF Converge
<1> HIDE DEF t
<1> QED BY <1>1, AddTaskStored

(* The task that a content frame starts. *)
LEMMA AddContentTaskStored ==
    ASSUME TypeOK, NamedContentWasStored, StoredGrows, NEW d \in Device,
           NEW kind, NEW m, m.act.hash \in Stored(d)',
           tasks' = [tasks EXCEPT ![d] = @ \cup {ContentTask(kind, d, m)}]
    PROVE  TasksStored'
<1>1. ContentTask(kind, d, m).act = m.act
  BY DEF ContentTask, Claimed
<1> QED BY <1>1, AddTaskStored

(* State frames about stored content. *)
LEMMA AddFramesStored ==
    ASSUME TypeOK, NamedContentWasStored, StoredGrows,
           NEW d \in Device, NEW targets, NEW a, a.hash \in Stored(d)',
           net' \subseteq net \cup StateFrames(d, targets, a)
    PROVE  FramesStored'
<1>1. \A m \in StateFrames(d, targets, a) : m.from = d /\ m.act = a
  BY DEF StateFrames
<1>2. \A m \in net : m.from \in Device
  BY DEF TypeOK, Message
<1> QED BY <1>1, <1>2 DEF StoredGrows, NamedContentWasStored, FramesStored

(* A step of a device keeps what is named among what was stored. *)
LEMMA DeviceStored ==
    ASSUME TypeOK, NamedContentWasStored, NEW d \in Device, DeviceNext(d)
    PROVE  NamedContentWasStored'
<1> SUFFICES RegisterStored' /\ TasksStored' /\ OfferStored' /\ FramesStored'
  BY StoredParts, PTL
<1>1. CASE Tick(d)
  BY <1>1, KeptGrows, PartsKept DEF Tick
<1>2. CASE UserNext(d)
  <2>1. CASE Lock(d)
    BY <2>1, KeptGrows, PartsKept DEF Lock
  <2>2. ASSUME NEW h \in Hash, UserCopy(d, h) \/ RestoreWrite(d, h)
        PROVE  RegisterStored' /\ TasksStored' /\ OfferStored' /\ FramesStored'
    BY <2>2, KeptGrows, PartsKept DEF UserCopy, RestoreWrite
  <2>3. ASSUME NEW h \in Hash, Forget(d, h)
        PROVE  RegisterStored' /\ TasksStored' /\ OfferStored' /\ FramesStored'
    <3>1. StoredGrows
      BY <2>3 DEF Forget, StoredGrows, Stored, TypeOK
    <3> QED BY <2>3, <3>1, PartsKept DEF Forget
  <2> QED BY <1>2, <2>1, <2>2, <2>3 DEF UserNext
<1>3. CASE LocalNext(d)
  <2>1. CASE HandleCapture(d)
    <3> DEFINE seen == Head(observed[d])
    <3>1. /\ Persist(d, seen.hash)
          /\ AdvanceLocal(d, Stamp(d, seen.hash))
          /\ net' \subseteq net \cup ContentFrames(d, Peers(d), seen)
          /\ UNCHANGED <<offer, tasks, forgotten>>
      BY <2>1 DEF HandleCapture
    <3> HIDE DEF seen
    <3>2. StoredGrows /\ seen.hash \in Stored(d)'
      BY <3>1, PersistGrows
    <3>3. RegisterStored'
      BY <3>1, <3>2, TryRegisterStored DEF AdvanceLocal, Stamp
    <3>4. FramesStored'
      <4>1. \A m \in ContentFrames(d, Peers(d), seen) : m.type # "state"
        BY DEF ContentFrames
      <4> QED
        BY <3>1, <3>2, <4>1
        DEF StoredGrows, NamedContentWasStored, FramesStored, TypeOK, Message
    <3> QED BY <3>1, <3>2, <3>3, <3>4, PartsKept
  <2>2. CASE DropCapture(d)
    BY <2>2, KeptGrows, PartsKept DEF DropCapture
  <2>3. ASSUME NEW h \in Hash, RestoreAdvance(d, h)
        PROVE  RegisterStored' /\ TasksStored' /\ OfferStored' /\ FramesStored'
    <3>1. StoredGrows
      BY <2>3, KeptGrows DEF RestoreAdvance
    <3>2. CASE h \in held[d]
      <4>1. h \in Stored(d)'
        BY <2>3, <3>2 DEF RestoreAdvance, Stored
      <4>2. /\ AdvanceLocal(d, Stamp(d, h))
            /\ offer' = [offer EXCEPT ![d] = Stamp(d, h)]
            /\ UNCHANGED <<tasks, net>>
        BY <2>3, <3>2 DEF RestoreAdvance
      <4>3. RegisterStored'
        BY <3>1, <4>1, <4>2, TryRegisterStored DEF AdvanceLocal, Stamp
      <4>4. OfferStored'
        BY <3>1, <4>1, <4>2
        DEF StoredGrows, NamedContentWasStored, OfferStored, Stamp, TypeOK
      <4> QED BY <3>1, <4>2, <4>3, <4>4, PartsKept
    <3>3. CASE h \notin held[d]
      BY <2>3, <3>1, <3>3, PartsKept DEF RestoreAdvance
    <3> QED BY <3>2, <3>3
  <2>4. CASE RestoreBroadcast(d)
    <3>1. StoredGrows
      BY <2>4, KeptGrows DEF RestoreBroadcast
    <3>2. offer[d].hash \in Stored(d)'
      BY <2>4, <3>1
      DEF RestoreBroadcast, StoredGrows, NamedContentWasStored
    <3>3. net' \subseteq net \cup StateFrames(d, Peers(d), offer[d])
      BY <2>4 DEF RestoreBroadcast
    <3>4. FramesStored'
      BY <3>1, <3>2, <3>3, AddFramesStored
    <3>5. OfferStored'
      BY <2>4, <3>1
      DEF RestoreBroadcast, StoredGrows, NamedContentWasStored, OfferStored,
          TypeOK
    <3> QED BY <2>4, <3>1, <3>4, <3>5, PartsKept DEF RestoreBroadcast
  <2> QED BY <1>3, <2>1, <2>2, <2>3, <2>4 DEF LocalNext
<1>4. CASE ReceiveNext(d)
  <2> SUFFICES ASSUME NEW m \in net,
                      \/ ReceiveState(d, m)
                      \/ ReceiveNewContent(d, m)
                      \/ ReceiveHeldContent(d, m)
                      \/ IgnoreContent(d, m)
               PROVE  /\ RegisterStored' /\ TasksStored'
                      /\ OfferStored' /\ FramesStored'
    BY <1>4 DEF ReceiveNext
  <2>1. CASE ReceiveState(d, m)
    <3>1. StoredGrows
      BY <2>1, KeptGrows DEF ReceiveState
    <3>2. \/ UNCHANGED tasks
          \/ m.act.hash \in held[d] /\ Converge(d, m.from, m.act)
      BY <2>1 DEF ReceiveState
    <3>3. TasksStored'
      BY <3>1, <3>2, PartsKept, ConvergeStored DEF StoredGrows, Stored
    <3> QED BY <2>1, <3>1, <3>3, PartsKept DEF ReceiveState
  <2>2. CASE ReceiveNewContent(d, m)
    <3>1. StoredGrows /\ m.act.hash \in Stored(d)'
      BY <2>2, PersistGrows DEF ReceiveNewContent
    <3>2. RegisterStored'
      BY <2>2, <3>1, TryRegisterStored DEF ReceiveNewContent, Claimed
    <3>3. TasksStored'
      BY <2>2, <3>1, AddContentTaskStored DEF ReceiveNewContent
    <3> QED BY <2>2, <3>1, <3>2, <3>3, PartsKept DEF ReceiveNewContent
  <2>3. CASE ReceiveHeldContent(d, m)
    <3>1. StoredGrows /\ m.act.hash \in Stored(d)'
      BY <2>3 DEF ReceiveHeldContent, StoredGrows, Stored
    <3>2. TasksStored'
      BY <2>3, <3>1, AddContentTaskStored DEF ReceiveHeldContent
    <3> QED BY <2>3, <3>1, <3>2, PartsKept DEF ReceiveHeldContent
  <2>4. CASE IgnoreContent(d, m)
    BY <2>4, KeptGrows, PartsKept DEF IgnoreContent
  <2> QED BY <2>1, <2>2, <2>3, <2>4
<1>5. CASE PullSucceeds(d)
  <2>1. StoredGrows /\ pulling[d].act.hash \in Stored(d)'
    BY <1>5, PersistGrows DEF PullSucceeds
  <2>2. TasksStored'
    BY <1>5, <2>1, ConvergeStored DEF PullSucceeds
  <2> QED BY <1>5, <2>1, <2>2, PartsKept DEF PullSucceeds
<1>6. CASE PullFails(d)
  BY <1>6, KeptGrows, PartsKept DEF PullFails
<1>7. CASE WriteNext(d)
  <2> SUFFICES ASSUME NEW t \in tasks[d],
                      WriteOs(d, t) \/ WriteOsFails(d, t)
               PROVE  /\ RegisterStored' /\ TasksStored'
                      /\ OfferStored' /\ FramesStored'
    BY <1>7 DEF WriteNext
  <2>1. StoredGrows
    BY KeptGrows DEF WriteOs, WriteOsFails
  <2>2. /\ tasks'[d] \subseteq tasks[d] \cup {[t EXCEPT !.stage = "advance"]}
        /\ \A e \in Device \ {d} : tasks'[e] = tasks[e]
    BY DEF WriteOs, WriteOsFails, TypeOK
  <2>3. [t EXCEPT !.stage = "advance"].act = t.act
    BY DEF TypeOK, Task
  <2>4. TasksStored'
    BY <2>1, <2>2, <2>3 DEF StoredGrows, NamedContentWasStored, TasksStored
  <2> QED BY <2>1, <2>4, PartsKept DEF WriteOs, WriteOsFails
<1>8. CASE AdvanceNext(d)
  <2> SUFFICES ASSUME NEW t \in tasks[d],
                      AdvanceTask(d, t) \/ AdvanceTaskFails(d, t)
               PROVE  /\ RegisterStored' /\ TasksStored'
                      /\ OfferStored' /\ FramesStored'
    BY <1>8 DEF AdvanceNext
  <2>1. StoredGrows /\ t.act.hash \in Stored(d)'
    BY DEF AdvanceTask, AdvanceTaskFails, StoredGrows, Stored,
           NamedContentWasStored
  <2>2. RegisterStored'
    BY <2>1, TryRegisterStored DEF AdvanceTask, AdvanceTaskFails
  <2>3. TasksStored'
    BY <2>1
    DEF AdvanceTask, AdvanceTaskFails, StoredGrows, NamedContentWasStored,
        TasksStored, TypeOK
  <2>4. net' \subseteq net \cup StateFrames(d, Peers(d), t.act)
    BY DEF AdvanceTask, AdvanceTaskFails, Relayed
  <2>5. FramesStored'
    BY <2>1, <2>4, AddFramesStored
  <2> QED BY <2>1, <2>2, <2>3, <2>5, PartsKept DEF AdvanceTask, AdvanceTaskFails
<1>9. ASSUME NEW p \in Device, Resync(d, p)
      PROVE  RegisterStored' /\ TasksStored' /\ OfferStored' /\ FramesStored'
  <2>1. StoredGrows /\ reg[d].hash \in Stored(d)'
    BY <1>9 DEF Resync, StoredGrows, Stored, NamedContentWasStored
  <2>2. net' \subseteq net \cup StateFrames(d, {p}, reg[d])
    BY <1>9 DEF Resync
  <2> QED BY <1>9, <2>1, <2>2, AddFramesStored, PartsKept DEF Resync
<1>10. CASE ProcessNext(d)
  <2>1. CASE Unlock(d)
    BY <2>1, KeptGrows, PartsKept DEF Unlock
  <2>2. StoredGrows
    BY <1>10, KeptGrows DEF ProcessNext, Unlock, Crash, Restart
  <2>3. CASE Crash(d)
    <3>1. TasksStored'
      BY <2>2, <2>3
      DEF Crash, StoredGrows, NamedContentWasStored, TasksStored, TypeOK
    <3>2. OfferStored'
      BY <2>2, <2>3
      DEF Crash, StoredGrows, NamedContentWasStored, OfferStored, TypeOK
    <3> QED BY <2>2, <2>3, <3>1, <3>2, PartsKept DEF Crash
  <2>4. CASE Restart(d)
    <3>1. \A e \in Device : reg'[e] \in {reg[e], NoActivation}
      BY <2>4 DEF Restart, Reconciled, TypeOK
    <3>2. RegisterStored'
      BY <2>2, <3>1 DEF StoredGrows, NamedContentWasStored, RegisterStored
    <3> QED BY <2>2, <2>4, <3>2, PartsKept DEF Restart
  <2> QED BY <1>10, <2>1, <2>3, <2>4 DEF ProcessNext
<1> QED
  BY <1>1, <1>2, <1>3, <1>4, <1>5, <1>6, <1>7, <1>8, <1>9, <1>10
  DEF DeviceNext

(* So does every step of the system. *)
LEMMA StoredStep ==
    TypeOK /\ NamedContentWasStored /\ [Next]_vars => NamedContentWasStored'
<1> SUFFICES ASSUME TypeOK, NamedContentWasStored, [Next]_vars
             PROVE  NamedContentWasStored'
  OBVIOUS
<1>1. ASSUME NEW d \in Device, DeviceNext(d)
      PROVE  NamedContentWasStored'
  BY <1>1, DeviceStored
<1>2. CASE (\E m \in net : Lose(m)) \/ UNCHANGED vars
  <2>1. net' \subseteq net /\ UNCHANGED <<reg, tasks, offer, held, forgotten>>
    BY <1>2 DEF Lose, vars
  <2>2. RegisterStored' /\ TasksStored' /\ OfferStored' /\ FramesStored'
    BY <2>1, KeptGrows, PartsKept
  <2> QED BY <2>2, StoredParts, PTL
<1> QED BY <1>1, <1>2 DEF Next

(***************************************************************************)
(* Every path stores an entry before it names its content in a register, a *)
(* task, an offer or a state frame; a peer that pulls in answer to a frame *)
(* misses the content only if the user deleted it (execute persists before *)
(* it advances, handle_one pulls before it converges).                     *)
(***************************************************************************)
THEOREM NamedWasStored == Spec => []NamedContentWasStored
<1>1. Init => NamedContentWasStored
  BY DEF Init, NamedContentWasStored
<1>2. TypeOK /\ NamedContentWasStored /\ [Next]_vars => NamedContentWasStored'
  BY StoredStep
<1> QED BY <1>1, <1>2, TypeCorrect, PTL DEF Spec

-----------------------------------------------------------------------------
(* The guard against the far future *)

(***************************************************************************)
(* The guard is passed when a frame arrives; a pull separates it from the  *)
(* task, so what is pulled must satisfy it too, and clocks must not run    *)
(* backwards.                                                              *)
(***************************************************************************)
PullsWait ==
    \A d \in Device :
        pulling[d] # NoPull =>
            pulling[d].act.at <= clock[d] + FutureTolerance

FutureInv == TypeOK /\ FutureStatesWait /\ PullsWait

ClockMoves == \A d \in Device : clock[d] <= clock'[d]

(* A clock is read, or ticks, and never goes back. *)
LEMMA ReadClockMoves ==
    ASSUME TypeOK, NEW d \in Device,
           ReadClock(d) \/ clock' = [clock EXCEPT ![d] = @ + 1]
    PROVE  ClockMoves
<1>1. \A e \in Device : clock'[e] \in {clock[e], clock[e] + 1}
  BY DEF TypeOK, ReadClock
<1>2. \A e \in Device : clock[e] \in Nat
  BY DEF TypeOK
<1> QED BY <1>1, <1>2 DEF ClockMoves

(* No step of a device turns a clock back. *)
LEMMA ClocksMove ==
    ASSUME TypeOK, NEW d \in Device, DeviceNext(d)
    PROVE  ClockMoves
<1>1. CASE UNCHANGED clock
  BY <1>1 DEF ClockMoves, TypeOK
<1>2. CASE ReadClock(d) \/ clock' = [clock EXCEPT ![d] = @ + 1]
  BY <1>2, ReadClockMoves
<1>3. UNCHANGED clock \/ ReadClock(d) \/ clock' = [clock EXCEPT ![d] = @ + 1]
  <2>1. CASE Tick(d)
    BY <2>1 DEF Tick
  <2>2. CASE UserNext(d)
    BY <2>2 DEF UserNext, Lock, UserCopy, RestoreWrite, Forget
  <2>3. CASE LocalNext(d)
    BY <2>3
    DEF LocalNext, HandleCapture, DropCapture, RestoreAdvance,
        RestoreBroadcast, AdvanceLocal
  <2>4. CASE ReceiveNext(d)
    BY <2>4
    DEF ReceiveNext, ReceiveState, ReceiveNewContent, ReceiveHeldContent,
        IgnoreContent
  <2>5. CASE PullSucceeds(d) \/ PullFails(d)
    BY <2>5 DEF PullSucceeds, PullFails
  <2>6. CASE WriteNext(d) \/ AdvanceNext(d)
    BY <2>6
    DEF WriteNext, WriteOs, WriteOsFails, AdvanceNext, AdvanceTask,
        AdvanceTaskFails
  <2>7. CASE \E p \in Device : Resync(d, p)
    BY <2>7 DEF Resync
  <2>8. CASE ProcessNext(d)
    BY <2>8 DEF ProcessNext, Unlock, Crash, Restart
  <2> QED
    BY <2>1, <2>2, <2>3, <2>4, <2>5, <2>6, <2>7, <2>8 DEF DeviceNext
<1> QED BY <1>1, <1>2, <1>3

(***************************************************************************)
(* What a step may add to the tasks of a device: a task that is none of a  *)
(* state frame, a task for a state that the guard let pass, or a task of   *)
(* before in its next stage.                                               *)
(***************************************************************************)
NewTask(d, t) ==
    \/ t.kind # "converge"
    \/ t.act.at <= clock[d] + FutureTolerance
    \/ \E s \in tasks[d] : t.kind = s.kind /\ t.act = s.act

TasksPass == \A d \in Device : \A t \in tasks'[d] : t \in tasks[d] \/ NewTask(d, t)

(* Such additions keep the guard, since clocks do not go back. *)
LEMMA TasksPassWait ==
    ASSUME FutureInv, TypeOK', ClockMoves, TasksPass
    PROVE  FutureStatesWait'
<1> SUFFICES ASSUME NEW d \in Device, NEW t \in tasks'[d],
                    t.kind = "converge"
             PROVE  t.act.at <= clock'[d] + FutureTolerance
  BY DEF FutureStatesWait
<1>1. t.act.at <= clock[d] + FutureTolerance
  BY DEF FutureInv, FutureStatesWait, TasksPass, NewTask
<1>2. /\ t.act.at \in Nat /\ clock[d] \in Nat /\ clock'[d] \in Nat
      /\ FutureTolerance \in Nat
      /\ clock[d] <= clock'[d]
  BY BoundAssumption DEF FutureInv, TypeOK, Task, Activation, ClockMoves
<1> QED BY <1>1, <1>2

(* A task that passes is added. *)
LEMMA AddedTask ==
    ASSUME TypeOK, NEW d \in Device, NEW t, NewTask(d, t),
           tasks' = [tasks EXCEPT ![d] = @ \cup {t}]
    PROVE  TasksPass
<1>1. /\ tasks'[d] = tasks[d] \cup {t}
      /\ \A e \in Device \ {d} : tasks'[e] = tasks[e]
  BY DEF TypeOK
<1> QED BY <1>1 DEF TasksPass

(* A state that passed the guard is converged to. *)
LEMMA ConvergePasses ==
    ASSUME TypeOK, NEW d \in Device, NEW from, NEW a, Converge(d, from, a),
           a.at <= clock[d] + FutureTolerance
    PROVE  TasksPass
<1> DEFINE t == [kind |-> "converge", stage |-> "write", from |-> from,
                 act |-> a]
<1>1. t.act = a /\ tasks' = [tasks EXCEPT ![d] = @ \cup {t}]
  BY DEF Converge
<1> HIDE DEF t
<1> QED BY <1>1, AddedTask DEF NewTask

(* Ending tasks adds none. *)
LEMMA FewerTasks ==
    ASSUME TypeOK, NEW d \in Device, NEW rest \in SUBSET tasks[d],
           tasks' = tasks \/ tasks' = [tasks EXCEPT ![d] = rest]
    PROVE  TasksPass
BY DEF TypeOK, TasksPass

(* Every step of a device adds only tasks that pass. *)
LEMMA TasksOnlyPass ==
    ASSUME FutureInv, NEW d \in Device, DeviceNext(d)
    PROVE  TasksPass
<1> USE DEF FutureInv
<1>1. CASE UNCHANGED tasks
  BY <1>1 DEF TasksPass
<1>2. CASE Tick(d)
  BY <1>1, <1>2 DEF Tick
<1>3. CASE UserNext(d)
  BY <1>1, <1>3 DEF UserNext, Lock, UserCopy, RestoreWrite, Forget
<1>4. CASE LocalNext(d)
  BY <1>1, <1>4
  DEF LocalNext, HandleCapture, DropCapture, RestoreAdvance, RestoreBroadcast
<1>5. CASE ReceiveNext(d)
  <2> SUFFICES ASSUME NEW m \in net,
                      \/ ReceiveState(d, m)
                      \/ ReceiveNewContent(d, m)
                      \/ ReceiveHeldContent(d, m)
                      \/ IgnoreContent(d, m)
               PROVE  TasksPass
    BY <1>5 DEF ReceiveNext
  <2>1. CASE ReceiveState(d, m)
    <3>1. \/ UNCHANGED tasks
          \/ Admits(d, m.act) /\ Converge(d, m.from, m.act)
      BY <2>1 DEF ReceiveState
    <3> QED BY <1>1, <3>1, ConvergePasses DEF Admits
  <2>2. CASE ReceiveNewContent(d, m) \/ ReceiveHeldContent(d, m)
    <3>1. PICK kind \in {"publish", "resurface"} :
            tasks' = [tasks EXCEPT ![d] = @ \cup {ContentTask(kind, d, m)}]
      BY <2>2 DEF ReceiveNewContent, ReceiveHeldContent
    <3>2. ContentTask(kind, d, m).kind # "converge"
      BY DEF ContentTask
    <3> QED BY <3>1, <3>2, AddedTask DEF NewTask
  <2>3. CASE IgnoreContent(d, m)
    BY <1>1, <2>3 DEF IgnoreContent
  <2> QED BY <2>1, <2>2, <2>3
<1>6. CASE PullSucceeds(d)
  BY <1>6, ConvergePasses DEF PullSucceeds, PullsWait
<1>7. CASE PullFails(d)
  BY <1>1, <1>7 DEF PullFails
<1>8. CASE WriteNext(d)
  <2> SUFFICES ASSUME NEW t \in tasks[d],
                      WriteOs(d, t) \/ WriteOsFails(d, t)
               PROVE  TasksPass
    BY <1>8 DEF WriteNext
  <2> DEFINE next == [t EXCEPT !.stage = "advance"]
  <2>1. next.kind = t.kind /\ next.act = t.act
    BY DEF TypeOK, Task
  <2>2. /\ tasks'[d] \subseteq tasks[d] \cup {next}
        /\ \A e \in Device \ {d} : tasks'[e] = tasks[e]
    BY DEF WriteOs, WriteOsFails, TypeOK
  <2> HIDE DEF next
  <2> QED BY <2>1, <2>2 DEF TasksPass, NewTask
<1>9. CASE AdvanceNext(d)
  <2> SUFFICES ASSUME NEW t \in tasks[d],
                      AdvanceTask(d, t) \/ AdvanceTaskFails(d, t)
               PROVE  TasksPass
    BY <1>9 DEF AdvanceNext
  <2> DEFINE rest == tasks[d] \ {t}
  <2>1. rest \in SUBSET tasks[d] /\ tasks' = [tasks EXCEPT ![d] = rest]
    BY DEF AdvanceTask, AdvanceTaskFails
  <2> HIDE DEF rest
  <2> QED BY <2>1, FewerTasks
<1>10. CASE \E p \in Device : Resync(d, p)
  BY <1>1, <1>10 DEF Resync
<1>11. CASE ProcessNext(d)
  <2>1. tasks' = tasks \/ tasks' = [tasks EXCEPT ![d] = {}]
    BY <1>11 DEF ProcessNext, Unlock, Crash, Restart
  <2> QED BY <2>1, FewerTasks
<1> QED
  BY <1>2, <1>3, <1>4, <1>5, <1>6, <1>7, <1>8, <1>9, <1>10, <1>11
  DEF DeviceNext

(* Every step of a device pulls only states that pass. *)
LEMMA PullsOnlyPass ==
    ASSUME FutureInv, TypeOK', ClockMoves, NEW d \in Device, DeviceNext(d)
    PROVE  PullsWait'
<1> USE DEF FutureInv
<1>1. \/ UNCHANGED pulling
      \/ pulling' = [pulling EXCEPT ![d] = NoPull]
      \/ \E m \in net :
           /\ Admits(d, m.act)
           /\ pulling' = [pulling EXCEPT ![d] =
                            [from |-> m.from, act |-> m.act]]
  <2>1. CASE Tick(d)
    BY <2>1 DEF Tick
  <2>2. CASE UserNext(d)
    BY <2>2 DEF UserNext, Lock, UserCopy, RestoreWrite, Forget
  <2>3. CASE LocalNext(d)
    BY <2>3
    DEF LocalNext, HandleCapture, DropCapture, RestoreAdvance,
        RestoreBroadcast
  <2>4. ASSUME NEW m \in net, ReceiveState(d, m)
        PROVE  \/ UNCHANGED pulling
               \/ /\ Admits(d, m.act)
                  /\ pulling' = [pulling EXCEPT ![d] =
                                   [from |-> m.from, act |-> m.act]]
    BY <2>4, Zenon DEF ReceiveState
  <2>5. CASE ReceiveNext(d)
    BY <2>4, <2>5
    DEF ReceiveNext, ReceiveNewContent, ReceiveHeldContent, IgnoreContent
  <2>6. CASE PullSucceeds(d) \/ PullFails(d)
    BY <2>6 DEF PullSucceeds, PullFails
  <2>7. CASE WriteNext(d) \/ AdvanceNext(d)
    BY <2>7
    DEF WriteNext, WriteOs, WriteOsFails, AdvanceNext, AdvanceTask,
        AdvanceTaskFails
  <2>8. CASE \E p \in Device : Resync(d, p)
    BY <2>8 DEF Resync
  <2>9. CASE ProcessNext(d)
    BY <2>9 DEF ProcessNext, Unlock, Crash, Restart
  <2> QED
    BY <2>1, <2>2, <2>3, <2>5, <2>6, <2>7, <2>8, <2>9 DEF DeviceNext
<1>2. ASSUME NEW e \in Device, pulling'[e] # NoPull
      PROVE  pulling'[e].act.at <= clock[e] + FutureTolerance
  <2>1. CASE UNCHANGED pulling \/ pulling' = [pulling EXCEPT ![d] = NoPull]
    BY <1>2, <2>1 DEF PullsWait, TypeOK
  <2>2. ASSUME NEW m \in net, Admits(d, m.act),
               pulling' = [pulling EXCEPT ![d] =
                             [from |-> m.from, act |-> m.act]]
        PROVE  pulling'[e].act.at <= clock[e] + FutureTolerance
    <3> DEFINE pull == [from |-> m.from, act |-> m.act]
    <3>1. pull.act.at <= clock[d] + FutureTolerance
      BY <2>2 DEF Admits
    <3>2. pulling' = [pulling EXCEPT ![d] = pull]
      BY <2>2
    <3> HIDE DEF pull
    <3>3. CASE e = d
      BY <3>1, <3>2, <3>3 DEF TypeOK
    <3>4. CASE e # d
      <4>1. pulling'[e] = pulling[e]
        BY <3>2, <3>4 DEF TypeOK
      <4> QED BY <1>2, <4>1 DEF PullsWait
    <3> QED BY <3>3, <3>4
  <2> QED BY <1>1, <2>1, <2>2
<1>3. ASSUME NEW e \in Device, pulling'[e] # NoPull
      PROVE  pulling'[e].act.at <= clock'[e] + FutureTolerance
  <2>1. pulling'[e].act \in Activation
    BY <1>3 DEF TypeOK
  <2>2. /\ pulling'[e].act.at \in Nat /\ clock[e] \in Nat /\ clock'[e] \in Nat
        /\ FutureTolerance \in Nat /\ clock[e] <= clock'[e]
    BY <2>1, BoundAssumption DEF TypeOK, Activation, ClockMoves
  <2>3. pulling'[e].act.at <= clock[e] + FutureTolerance
    BY <1>2, <1>3
  <2> QED BY <2>2, <2>3
<1> QED BY <1>3 DEF PullsWait

(* Every step keeps the inductive invariant. *)
LEMMA FutureStep == FutureInv /\ [Next]_vars => FutureInv'
<1> SUFFICES ASSUME FutureInv, [Next]_vars
             PROVE  FutureInv'
  OBVIOUS
<1>1. TypeOK'
  BY NextTyped DEF FutureInv
<1>2. ASSUME NEW d \in Device, DeviceNext(d)
      PROVE  FutureStatesWait' /\ PullsWait'
  <2>1. ClockMoves
    BY <1>2, ClocksMove DEF FutureInv
  <2>2. FutureStatesWait'
    BY <1>1, <1>2, <2>1, TasksOnlyPass, TasksPassWait
  <2>3. PullsWait'
    BY <1>1, <1>2, <2>1, PullsOnlyPass
  <2> QED BY <2>2, <2>3
<1>3. CASE (\E m \in net : Lose(m)) \/ UNCHANGED vars
  <2>1. UNCHANGED <<clock, pulling, tasks>>
    BY <1>3 DEF Lose, vars
  <2> QED BY <1>1, <2>1 DEF FutureInv, FutureStatesWait, PullsWait
<1> QED BY <1>1, <1>2, <1>3 DEF Next, FutureInv

(***************************************************************************)
(* The guard of handle_one holds at the clipboard write: no detached task  *)
(* of a state frame carries an activation further ahead of the local clock *)
(* than the tolerance, whether or not a pull came first.                   *)
(***************************************************************************)
THEOREM FutureStatesStartNoWrite == Spec => []FutureStatesWait
<1>1. Init => FutureInv
  <2>1. Init => FutureStatesWait /\ PullsWait
    BY DEF Init, FutureStatesWait, PullsWait
  <2> QED BY <2>1, InitTyped DEF FutureInv
<1>2. FutureInv /\ [Next]_vars => FutureInv'
  BY FutureStep
<1>3. FutureInv => FutureStatesWait
  BY DEF FutureInv
<1> QED BY <1>1, <1>2, <1>3, PTL DEF Spec
=============================================================================
