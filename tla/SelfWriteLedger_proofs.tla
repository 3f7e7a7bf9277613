----------------------- MODULE SelfWriteLedger_proofs -----------------------
(***************************************************************************)
(* Proofs about SelfWriteLedger, for any writers, contents, limits, times  *)
(* and bounds.                                                             *)
(***************************************************************************)
EXTENDS SelfWriteLedger, FiniteSetTheorems, WellFoundedInduction, TLAPS

-----------------------------------------------------------------------------
(* Lists of records *)

(***************************************************************************)
(* A finite list that is not empty has an oldest record: the sets of       *)
(* records no younger than a given one are ordered by inclusion, and a     *)
(* minimal such set belongs to the oldest.                                 *)
(***************************************************************************)
LEMMA OldestExists ==
    ASSUME NEW T, T # {}, IsFiniteSet(T), \A r \in T : r.seq \in Nat
    PROVE  Oldest(T) \in T
<1> DEFINE Older(r) == {s \in T : s.seq <= r.seq}
           Family == {Older(r) : r \in T}
<1>1. IsWellFoundedOn(StrictSubsetOrdering(T), SUBSET T)
  BY FS_StrictSubsetOrderingWellFounded, FS_FiniteSubsetsOfFinite
<1>2. Family \subseteq SUBSET T /\ Family # {}
  OBVIOUS
<1>3. PICK S \in Family : \A U \in Family :
          ~(<<U, S>> \in StrictSubsetOrdering(T))
  BY <1>1, <1>2, WFMin
<1>4. PICK r \in T : S = Older(r)
  BY <1>3
<1>5. ASSUME NEW s \in T, ~(r.seq <= s.seq)
      PROVE  FALSE
  <2>1. Older(s) \in Family
    OBVIOUS
  <2>2. Older(s) \subseteq S /\ Older(s) # S
    BY <1>4, <1>5
  <2> QED BY <1>3, <2>1, <2>2, <1>2 DEF StrictSubsetOrdering
<1> QED BY <1>5 DEF Oldest

(* What a list of records is, whatever operations it has gone through. *)
List(records, max) ==
    /\ records \in SUBSET Record
    /\ IsFiniteSet(records)
    /\ Cardinality(records) <= max
    /\ OnePerWrite(records)

LEMMA SublistIsList ==
    ASSUME NEW max \in Nat, NEW records, List(records, max),
           NEW T \in SUBSET records
    PROVE  List(T, max) /\ Cardinality(T) <= Cardinality(records)
           /\ Cardinality(T) \in Nat /\ Cardinality(records) \in Nat
<1>1. IsFiniteSet(T) /\ Cardinality(T) <= Cardinality(records)
  BY FS_Subset DEF List
<1>2. Cardinality(T) \in Nat /\ Cardinality(records) \in Nat
  BY <1>1, FS_CardinalityType DEF List
<1> QED BY <1>1, <1>2 DEF List, OnePerWrite

(***************************************************************************)
(* Arming a record keeps a list a list; it adds at most one record, and    *)
(* none if it extends one that is there.                                   *)
(***************************************************************************)
LEMMA RememberIsList ==
    ASSUME NEW max \in Nat \ {0}, NEW records, List(records, max),
           NEW key \in Content, NEW attribution \in Attribution,
           now \in Nat, armed \in Nat
    PROVE  LET new == Remember(records, key, attribution, max)
               old == SameWrite(records, key, attribution) IN
           /\ List(new, max)
           /\ Cardinality(new) <=
                  Cardinality(records) + (IF old = {} THEN 1 ELSE 0)
           /\ Cardinality(new) \in Nat
           /\ \A r \in new : \/ r \in records
                             \/ /\ r.attribution = attribution
                                /\ r.expires_at = now + Budget[attribution]
<1> DEFINE old == SameWrite(records, key, attribution)
           seq == IF old = {} THEN armed + 1 ELSE Oldest(old).seq
           one == [key |-> key, attribution |-> attribution,
                   expires_at |-> now + Budget[attribution], seq |-> seq]
           all == (records \ old) \cup {one}
           new == Remember(records, key, attribution, max)
<1>1. old \subseteq records /\ IsFiniteSet(old)
  BY FS_Subset DEF SameWrite, List
<1>2. seq \in Nat
  <2>1. CASE old # {}
    <3>1. Oldest(old) \in old
      BY <2>1, <1>1, OldestExists DEF List, Record
    <3> QED BY <3>1, <1>1, <2>1 DEF List, Record
  <2> QED BY <2>1
<1>3. one \in Record
  BY <1>2, LimitAssumption DEF Record, Budget, Attribution
<1>4. IsFiniteSet(records \ old) /\ Cardinality(records \ old) \in Nat
      /\ Cardinality(records) \in Nat
      /\ Cardinality(records \ old) <= Cardinality(records)
      /\ (old # {} => Cardinality(records \ old) < Cardinality(records))
  <2>1. records \ old \in SUBSET records
    OBVIOUS
  <2>2. old # {} => records \ old # records
    BY <1>1
  <2> QED BY <2>1, <2>2, FS_Subset, FS_CardinalityType DEF List
<1>5. /\ IsFiniteSet(all)
      /\ Cardinality(all) \in Nat
      /\ Cardinality(all) <= Cardinality(records \ old) + 1
  <2> DEFINE rest == records \ old
  <2>1. IsFiniteSet(rest) /\ Cardinality(rest) \in Nat
    BY <1>4
  <2> HIDE DEF one, rest
  <2>2. /\ IsFiniteSet(rest \cup {one})
        /\ Cardinality(rest \cup {one}) =
               IF one \in rest THEN Cardinality(rest) ELSE Cardinality(rest) + 1
    BY <2>1, FS_AddElement
  <2>3. /\ Cardinality(rest \cup {one}) \in Nat
        /\ Cardinality(rest \cup {one}) <= Cardinality(rest) + 1
    BY <2>1, <2>2
  <2> QED BY <2>2, <2>3 DEF rest
<1>6. OnePerWrite(all)
  <2> SUFFICES ASSUME NEW r \in all, NEW s \in all,
                      r.key = s.key, r.attribution = s.attribution
               PROVE  r = s
    BY DEF OnePerWrite
  <2>1. CASE r \in records \ old /\ s \in records \ old
    BY <2>1 DEF List, OnePerWrite
  <2>2. CASE r \notin records \ old \/ s \notin records \ old
    <3>1. \A t \in records \ old : ~(t.key = key /\ t.attribution = attribution)
      BY DEF SameWrite
    <3>2. one.key = key /\ one.attribution = attribution
      OBVIOUS
    <3>3. (r \in records \ old \/ r = one) /\ (s \in records \ old \/ s = one)
      OBVIOUS
    <3> HIDE DEF one, old, all
    <3>4. CASE r = one
      BY <3>1, <3>2, <3>3, <3>4
    <3>5. CASE s = one
      BY <3>1, <3>2, <3>3, <3>5
    <3> QED BY <2>2, <3>3, <3>4, <3>5
  <2> QED BY <2>1, <2>2
<1>7. all \in SUBSET Record
  BY <1>3 DEF List
<1>8. new = IF Cardinality(all) > max THEN all \ {Oldest(all)} ELSE all
  BY DEF Remember
<1>9. Oldest(all) \in all
  <2>1. \A r \in all : r.seq \in Nat
    BY <1>7 DEF Record
  <2>2. all # {}
    OBVIOUS
  <2> HIDE DEF all
  <2> QED BY <1>5, <2>1, <2>2, OldestExists
<1>10. /\ new \subseteq all /\ IsFiniteSet(new)
       /\ Cardinality(new) \in Nat
       /\ Cardinality(new) <= Cardinality(all)
       /\ Cardinality(new) <= max
  <2>1. CASE Cardinality(all) > max
    <3> HIDE DEF all, new
    <3>1. IsFiniteSet(new) /\ Cardinality(new) = Cardinality(all) - 1
      BY <2>1, <1>5, <1>8, <1>9, FS_RemoveElement
    <3>2. Cardinality(all) <= max + 1
      BY <1>4, <1>5 DEF List
    <3> QED BY <2>1, <1>5, <1>8, <3>1, <3>2
  <2>2. CASE ~(Cardinality(all) > max)
    <3> HIDE DEF all, new
    <3> QED BY <2>2, <1>5, <1>8
  <2> QED BY <2>1, <2>2
<1>11. List(new, max)
  <2> HIDE DEF all, new
  <2> QED BY <1>6, <1>7, <1>10 DEF List, OnePerWrite
<1>12. Cardinality(new) <= Cardinality(records) + (IF old = {} THEN 1 ELSE 0)
  <2> HIDE DEF all, new, old
  <2> QED BY <1>4, <1>5, <1>10
<1>13. \A r \in new : \/ r \in records
                      \/ /\ r.attribution = attribution
                         /\ r.expires_at = now + Budget[attribution]
  <2>1. \A r \in all : r \in records \/ r = one
    OBVIOUS
  <2> HIDE DEF all, new
  <2> QED BY <1>10, <2>1
<1> QED BY <1>10, <1>11, <1>12, <1>13

-----------------------------------------------------------------------------
(* The ledger *)

(***************************************************************************)
(* No record outlives the last arming of its kind by more than the time of *)
(* that kind.                                                              *)
(***************************************************************************)
Timely(records) ==
    \A r \in records : r.expires_at <= last_armed[r.attribution] + Budget[r.attribution]

LedgerInv ==
    /\ now \in Nat /\ armed \in Nat /\ taken \in Nat
    /\ last_armed \in [Attribution -> Int]
    /\ \A a \in Attribution : last_armed[a] <= now
    /\ List(content_records, ContentRecordMax)
    /\ List(next_changes, NextChangeMax)
    /\ Timely(content_records) /\ Timely(next_changes)
    /\ EachRecordAnswersOnce

LEMMA BudgetType == \A a \in Attribution : Budget[a] \in Nat
BY LimitAssumption DEF Budget, Attribution

(* Arming a record of kind a now keeps the records of a list in time. *)
LEMMA ArmedIsTimely ==
    ASSUME LedgerInv, NEW a \in Attribution,
           last_armed' = [last_armed EXCEPT ![a] = now],
           NEW records \in SUBSET Record, Timely(records),
           NEW more, \A r \in more :
               \/ r \in records
               \/ r.attribution = a /\ r.expires_at = now + Budget[a]
    PROVE  \A r \in more : r.expires_at <= last_armed'[r.attribution] + Budget[r.attribution]
<1> SUFFICES ASSUME NEW r \in more
             PROVE  r.expires_at <= last_armed'[r.attribution] + Budget[r.attribution]
  OBVIOUS
<1>1. CASE r \in records
  <2>1. r.attribution \in Attribution /\ r.expires_at \in Nat
    BY <1>1 DEF Record
  <2>2. last_armed[r.attribution] <= last_armed'[r.attribution]
    BY <2>1 DEF LedgerInv
  <2>3. r.expires_at <= last_armed[r.attribution] + Budget[r.attribution]
    BY <1>1 DEF Timely
  <2>4. last_armed'[r.attribution] \in Int /\ last_armed[r.attribution] \in Int
    BY <2>1 DEF LedgerInv
  <2> QED BY <2>1, <2>2, <2>3, <2>4, BudgetType
<1>2. CASE r.attribution = a /\ r.expires_at = now + Budget[a]
  BY <1>2, BudgetType DEF LedgerInv
<1> QED BY <1>1, <1>2

(* Arming a record, of either sort, keeps the ledger's invariant. *)
LEMMA ContentArmed ==
    ASSUME LedgerInv, NEW key \in Content, NEW a \in Attribution,
           RecordByContent(key, a), now' = now, taken' = taken
    PROVE  LedgerInv'
<1> DEFINE live == Live(content_records)
           rest == Live(next_changes)
<1> USE LimitAssumption
<1>1. List(live, ContentRecordMax) /\ Cardinality(live) <= Cardinality(content_records)
      /\ Cardinality(live) \in Nat /\ Cardinality(content_records) \in Nat
  BY SublistIsList DEF Live, LedgerInv
<1>2. List(rest, NextChangeMax) /\ Cardinality(rest) <= Cardinality(next_changes)
      /\ Cardinality(rest) \in Nat /\ Cardinality(next_changes) \in Nat
  BY SublistIsList DEF Live, LedgerInv
<1>3. content_records' = Remember(live, key, a, ContentRecordMax)
      /\ next_changes' = rest
      /\ armed' = (IF SameWrite(live, key, a) = {} THEN armed + 1 ELSE armed)
      /\ last_armed' = [last_armed EXCEPT ![a] = now]
  BY DEF RecordByContent, Arming
<1> HIDE DEF live, rest
<1>4. /\ List(content_records', ContentRecordMax)
      /\ Cardinality(content_records') <=
             Cardinality(live) + (IF SameWrite(live, key, a) = {} THEN 1 ELSE 0)
      /\ Cardinality(content_records') \in Nat
      /\ \A r \in content_records' :
             \/ r \in live
             \/ r.attribution = a /\ r.expires_at = now + Budget[a]
  BY <1>1, <1>3, RememberIsList DEF LedgerInv
<1>5. armed' \in Nat /\ last_armed' \in [Attribution -> Int]
      /\ \A b \in Attribution : last_armed'[b] <= now'
  BY <1>3 DEF LedgerInv
<1>6. Timely(content_records)'
  <2>1. live \in SUBSET Record /\ Timely(live)
    BY <1>1 DEF List, LedgerInv, Timely, live, Live
  <2> QED BY ZenonT(40), <1>3, <1>4, <2>1, ArmedIsTimely DEF Timely
<1>7. Timely(next_changes)'
  <2>1. rest \in SUBSET Record /\ Timely(rest)
    BY <1>2 DEF List, LedgerInv, Timely, rest, Live
  <2> QED BY <1>3, <2>1, ArmedIsTimely DEF Timely
<1>8. EachRecordAnswersOnce'
  BY <1>1, <1>2, <1>3, <1>4 DEF EachRecordAnswersOnce, LedgerInv
<1>9. List(next_changes', NextChangeMax)
  BY <1>2, <1>3
<1> QED BY <1>4, <1>5, <1>6, <1>7, <1>8, <1>9 DEF LedgerInv, List, OnePerWrite

LEMMA FallbackArmed ==
    ASSUME LedgerInv, NEW key \in Content, NEW a \in Attribution,
           RecordByNextChange(key, a), now' = now, taken' = taken
    PROVE  LedgerInv'
<1> DEFINE live == Live(next_changes)
           rest == Live(content_records)
<1> USE LimitAssumption
<1>1. List(live, NextChangeMax) /\ Cardinality(live) <= Cardinality(next_changes)
      /\ Cardinality(live) \in Nat /\ Cardinality(next_changes) \in Nat
  BY SublistIsList DEF Live, LedgerInv
<1>2. List(rest, ContentRecordMax) /\ Cardinality(rest) <= Cardinality(content_records)
      /\ Cardinality(rest) \in Nat /\ Cardinality(content_records) \in Nat
  BY SublistIsList DEF Live, LedgerInv
<1>3. next_changes' = Remember(live, key, a, NextChangeMax)
      /\ content_records' = rest
      /\ armed' = (IF SameWrite(live, key, a) = {} THEN armed + 1 ELSE armed)
      /\ last_armed' = [last_armed EXCEPT ![a] = now]
  BY DEF RecordByNextChange, Arming
<1> HIDE DEF live, rest
<1>4. /\ List(next_changes', NextChangeMax)
      /\ Cardinality(next_changes') <=
             Cardinality(live) + (IF SameWrite(live, key, a) = {} THEN 1 ELSE 0)
      /\ Cardinality(next_changes') \in Nat
      /\ \A r \in next_changes' :
             \/ r \in live
             \/ r.attribution = a /\ r.expires_at = now + Budget[a]
  BY <1>1, <1>3, RememberIsList DEF LedgerInv
<1>5. armed' \in Nat /\ last_armed' \in [Attribution -> Int]
      /\ \A b \in Attribution : last_armed'[b] <= now'
  BY <1>3 DEF LedgerInv
<1>6. Timely(next_changes)'
  <2>1. live \in SUBSET Record /\ Timely(live)
    BY <1>1 DEF List, LedgerInv, Timely, live, Live
  <2> QED BY ZenonT(40), <1>3, <1>4, <2>1, ArmedIsTimely DEF Timely
<1>7. Timely(content_records)'
  <2>1. rest \in SUBSET Record /\ Timely(rest)
    BY <1>2 DEF List, LedgerInv, Timely, rest, Live
  <2> QED BY <1>3, <2>1, ArmedIsTimely DEF Timely
<1>8. EachRecordAnswersOnce'
  BY <1>1, <1>2, <1>3, <1>4 DEF EachRecordAnswersOnce, LedgerInv
<1>9. List(content_records', ContentRecordMax)
  BY <1>2, <1>3
<1> QED BY <1>4, <1>5, <1>6, <1>7, <1>8, <1>9 DEF LedgerInv, List, OnePerWrite

(***************************************************************************)
(* The ledger's answer is of a kind that has a live record, and the record *)
(* that gave it is gone afterwards.                                        *)
(***************************************************************************)
LEMMA AnswerIsLive ==
    ASSUME LedgerInv, NEW key, Origin(key) # "Capture"
    PROVE  /\ Origin(key) \in Attribution
           /\ now <= last_armed[Origin(key)] + Budget[Origin(key)]
           /\ \/ Oldest(ContentMatch(key)) \in ContentMatch(key)
              \/ /\ ContentMatch(key) = {}
                 /\ Oldest(Live(next_changes)) \in Live(next_changes)
<1>1. /\ IsFiniteSet(ContentMatch(key))
      /\ ContentMatch(key) \subseteq content_records
      /\ \A r \in ContentMatch(key) : r \in Record /\ now <= r.expires_at
  BY FS_Subset DEF ContentMatch, Live, LedgerInv, List
<1>2. /\ IsFiniteSet(Live(next_changes))
      /\ Live(next_changes) \subseteq next_changes
      /\ \A r \in Live(next_changes) : r \in Record /\ now <= r.expires_at
  BY FS_Subset DEF Live, LedgerInv, List
<1>3. CASE ContentMatch(key) # {}
  <2>1. Oldest(ContentMatch(key)) \in ContentMatch(key)
    BY <1>1, <1>3, OldestExists DEF Record
  <2>2. PICK r \in ContentMatch(key) : r = Oldest(ContentMatch(key))
    BY <2>1
  <2>3. Origin(key) = r.attribution
    BY <1>3, <2>2 DEF Origin
  <2>4. /\ r.attribution \in Attribution /\ r.expires_at \in Nat
        /\ now <= r.expires_at
        /\ r.expires_at <= last_armed[r.attribution] + Budget[r.attribution]
    BY <1>1 DEF Record, Timely, LedgerInv
  <2>5. last_armed[r.attribution] \in Int /\ Budget[r.attribution] \in Nat /\ now \in Nat
    BY <2>4, BudgetType DEF LedgerInv
  <2> QED BY <2>1, <2>3, <2>4, <2>5
<1>4. CASE ContentMatch(key) = {}
  <2>1. Live(next_changes) # {}
    BY <1>4 DEF Origin
  <2>2. Oldest(Live(next_changes)) \in Live(next_changes)
    BY <1>2, <2>1, OldestExists DEF Record
  <2>3. PICK r \in Live(next_changes) : r = Oldest(Live(next_changes))
    BY <2>2
  <2>4. Origin(key) = r.attribution
    BY <1>4, <2>1, <2>3 DEF Origin
  <2>5. /\ r.attribution \in Attribution /\ r.expires_at \in Nat
        /\ now <= r.expires_at
        /\ r.expires_at <= last_armed[r.attribution] + Budget[r.attribution]
    BY <1>2 DEF Record, Timely, LedgerInv
  <2>6. last_armed[r.attribution] \in Int /\ Budget[r.attribution] \in Nat /\ now \in Nat
    BY <2>5, BudgetType DEF LedgerInv
  <2> QED BY <1>4, <2>2, <2>4, <2>5, <2>6
<1> QED BY <1>3, <1>4

(***************************************************************************)
(* Attributing a change keeps the ledger's invariant, even if it takes a   *)
(* copy from the user: the record that answered pays for it.               *)
(***************************************************************************)
LEMMA Consumed ==
    ASSUME LedgerInv, NEW key, Consume(key), now' = now,
           taken' = taken \/ (taken' = taken + 1 /\ Origin(key) # "Capture")
    PROVE  LedgerInv'
<1> DEFINE live == Live(content_records)
           rest == Live(next_changes)
           front == Front(ContentMatch(key))
           spent == IF ContentMatch(key) # {}
                    THEN SameWrite(next_changes, key, Origin(key))
                    ELSE Front(rest)
<1> USE LimitAssumption
<1>1. /\ content_records' = live \ front /\ next_changes' = rest \ spent
      /\ armed' = armed /\ last_armed' = last_armed
  BY DEF Consume, ConsumeWith
<1>2. /\ content_records' \in SUBSET content_records
      /\ next_changes' \in SUBSET next_changes
  BY <1>1 DEF Live
<1>3. /\ List(content_records', ContentRecordMax)
      /\ Cardinality(content_records') <= Cardinality(content_records)
      /\ Cardinality(content_records') \in Nat /\ Cardinality(content_records) \in Nat
      /\ IsFiniteSet(content_records)
  BY <1>2, SublistIsList DEF LedgerInv, List
<1>4. /\ List(next_changes', NextChangeMax)
      /\ Cardinality(next_changes') <= Cardinality(next_changes)
      /\ Cardinality(next_changes') \in Nat /\ Cardinality(next_changes) \in Nat
      /\ IsFiniteSet(next_changes)
  BY <1>2, SublistIsList DEF LedgerInv, List
<1>5. Timely(content_records)' /\ Timely(next_changes)'
  BY <1>1, <1>2 DEF Timely, LedgerInv
<1>6. EachRecordAnswersOnce'
  <2>1. CASE taken' = taken
    BY <1>1, <1>3, <1>4, <2>1 DEF EachRecordAnswersOnce, LedgerInv
  <2>2. CASE taken' = taken + 1 /\ Origin(key) # "Capture"
    <3>1. CASE Oldest(ContentMatch(key)) \in ContentMatch(key)
      <4>1. front = {Oldest(ContentMatch(key))}
        BY <3>1 DEF Front
      <4>2. content_records' # content_records
        BY <1>1, <3>1, <4>1 DEF ContentMatch, Live
      <4>3. Cardinality(content_records') < Cardinality(content_records)
        BY <1>2, <1>3, <4>2, FS_Subset
      <4> QED BY <1>1, <1>3, <1>4, <2>2, <4>3 DEF EachRecordAnswersOnce, LedgerInv
    <3>2. CASE ContentMatch(key) = {} /\ Oldest(rest) \in rest
      <4>1. spent = {Oldest(rest)}
        BY <3>2 DEF Front
      <4>2. next_changes' # next_changes
        BY <1>1, <3>2, <4>1 DEF Live
      <4>3. Cardinality(next_changes') < Cardinality(next_changes)
        BY <1>2, <1>4, <4>2, FS_Subset
      <4> QED BY <1>1, <1>3, <1>4, <2>2, <4>3 DEF EachRecordAnswersOnce, LedgerInv
    <3> QED BY <2>2, <3>1, <3>2, AnswerIsLive
  <2> QED BY <2>1, <2>2
<1> HIDE DEF live, rest, front, spent
<1> QED BY <1>1, <1>3, <1>4, <1>5, <1>6 DEF LedgerInv, List, OnePerWrite

(* Time may pass; what does not touch the ledger keeps its invariant. *)
LEMMA LedgerUntouched ==
    ASSUME LedgerInv, UNCHANGED <<ledgerVars, taken>>,
           now' = now \/ now' = now + 1
    PROVE  LedgerInv'
BY DEF LedgerInv, ledgerVars, List, OnePerWrite, Timely, EachRecordAnswersOnce

-----------------------------------------------------------------------------
(* The coordinator, the clipboard and the watcher *)

(* The types of all the rest, and a change is a change to something. *)
SurroundingsInv ==
    /\ failures \in Nat
    /\ open_until \in Nat
    /\ writer \in [Writer -> Write \cup {Idle}]
    /\ os \in Put \cup {Nothing}
    /\ changed \in BOOLEAN
    /\ changed => os \in Put
    /\ last_meaningful \in [key : Content, at : Nat] \cup {Nothing}
    /\ observed \in Seq(Put)
    /\ verdict \in Attribution \cup {"Capture", "none"}
    /\ begun \in Nat
    /\ claims \in [Content -> Nat]
    /\ copied \in Nat
    /\ clean \in BOOLEAN
    /\ repeated \in BOOLEAN

(* As many failures as trip the circuit mean that a writer is tripping it. *)
Tripping ==
    failures >= FailureThreshold => \E w \in Writer : At(w, "trip") \/ At(w, "reset")

IInv == LedgerInv /\ SurroundingsInv /\ Tripping

LEMMA InvariantParts ==
    IInv => TypeOK /\ LedgerBounded /\ EachRecordAnswersOnce /\ BreakerSettles
<1> SUFFICES ASSUME IInv
             PROVE  TypeOK /\ LedgerBounded /\ EachRecordAnswersOnce /\ BreakerSettles
  OBVIOUS
<1>1. TypeOK
  BY DEF IInv, LedgerInv, SurroundingsInv, List, TypeOK
<1>2. LedgerBounded /\ EachRecordAnswersOnce
  BY DEF IInv, LedgerInv, List, LedgerBounded
<1>3. BreakerSettles
  BY LimitAssumption DEF IInv, SurroundingsInv, Tripping, BreakerSettles,
                         NothingUnderWay, At
<1> QED BY <1>1, <1>2, <1>3

LEMMA InitInv == Init => IInv
<1> SUFFICES ASSUME Init
             PROVE  IInv
  OBVIOUS
<1>1. LedgerInv
  <2>1. List({}, ContentRecordMax) /\ List({}, NextChangeMax)
    BY FS_EmptySet, LimitAssumption DEF List, OnePerWrite
  <2> QED BY <2>1, FS_EmptySet, BudgetType
          DEF Init, LedgerInv, Timely, EachRecordAnswersOnce
<1>2. SurroundingsInv
  <2>1. writer \in [Writer -> Write \cup {Idle}] /\ claims \in [Content -> Nat]
    BY DEF Init
  <2>2. observed \in Seq(Put)
    BY DEF Init
  <2> QED BY <2>1, <2>2 DEF Init, SurroundingsInv
<1>3. Tripping
  BY LimitAssumption DEF Init, Tripping
<1> QED BY <1>1, <1>2, <1>3 DEF IInv

LEMMA WriteTyped ==
    ASSUME SurroundingsInv, NEW w \in Writer, ~At(w, "idle")
    PROVE  writer[w] \in Write
<1>1. writer[w] \in Write \/ writer[w] = Idle
  BY DEF SurroundingsInv
<1>2. writer[w] # Idle
  BY DEF At, Idle
<1> QED BY <1>1, <1>2

(* A step of a writer to its next stage keeps the writers well typed. *)
LEMMA GotoTyped ==
    ASSUME SurroundingsInv, NEW w \in Writer, ~At(w, "idle"),
           NEW stage \in Stages \cup {"idle"}, Goto(w, stage)
    PROVE  writer' \in [Writer -> Write \cup {Idle}]
<1>1. [writer[w] EXCEPT !.stage = stage] \in Write \/ stage = "idle"
  BY WriteTyped DEF Write
<1> QED BY <1>1 DEF SurroundingsInv, Goto

(* What a Goto does to the other writers, and to the one that goes. *)
LEMMA GotoGoes ==
    ASSUME SurroundingsInv, NEW w \in Writer, ~At(w, "idle"),
           NEW stage \in Stages, Goto(w, stage)
    PROVE  At(w, stage)' /\ \A v \in Writer \ {w} : writer'[v] = writer[v]
<1>1. writer[w] \in Write
  BY WriteTyped
<1>2. writer' = [writer EXCEPT ![w] = [writer[w] EXCEPT !.stage = stage]]
  BY DEF Goto, Stages
<1> QED BY <1>1, <1>2 DEF SurroundingsInv, At, Write

LEMMA TrippingKept ==
    ASSUME Tripping, failures' = failures, NEW w \in Writer,
           ~At(w, "trip"), ~At(w, "reset"),
           \A v \in Writer \ {w} : writer'[v] = writer[v]
    PROVE  Tripping'
BY DEF Tripping, At

(* A step of a writer keeps the types. *)
LEMMA WriterTyped ==
    ASSUME IInv, NEW w \in Writer,
           \/ BeginWrite(w) \/ ArmContent(w) \/ OsWrite(w) \/ OsWriteFails(w)
           \/ Unwind(w) \/ CountFailure(w) \/ TripCircuit(w) \/ ResetFailures(w)
           \/ CountSuccess(w) \/ CloseCircuit(w) \/ ArmFallback(w)
    PROVE  SurroundingsInv'
<1> USE DEF IInv, circuitVars, osVars, watcherVars, userVars
<1>1. CASE BeginWrite(w)
  <2>1. PICK key \in Writes, attribution \in Attribution :
           /\ writer' = [writer EXCEPT ![w] =
                            [stage |-> "arm", write |-> begun', key |-> key,
                             attribution |-> attribution, due |-> now]]
           /\ claims' = [claims EXCEPT ![key] = @ + 1]
    BY <1>1 DEF BeginWrite
  <2>2. key \in Content /\ begun' \in Nat
    BY <1>1, ContentAssumption DEF BeginWrite, SurroundingsInv
  <2>3. [stage |-> "arm", write |-> begun', key |-> key,
         attribution |-> attribution, due |-> now] \in Write
    BY <2>2 DEF Write, Stages, LedgerInv
  <2>4. writer' \in [Writer -> Write \cup {Idle}] /\ claims' \in [Content -> Nat]
    BY <2>1, <2>2, <2>3 DEF SurroundingsInv
  <2>5. clean' \in BOOLEAN
    BY <1>1 DEF BeginWrite
  <2> QED BY <1>1, <2>2, <2>4, <2>5 DEF BeginWrite, SurroundingsInv
<1>2. CASE ArmContent(w)
  <2>1. writer[w] \in Write
    BY <1>2, WriteTyped DEF ArmContent, At
  <2>2. now + Budget[writer[w].attribution] \in Nat
    BY <2>1, BudgetType DEF Write, LedgerInv
  <2>3. writer' = [writer EXCEPT ![w] = [writer[w] EXCEPT
             !.stage = "write", !.due = now + Budget[writer[w].attribution]]]
    BY <1>2, <2>1 DEF ArmContent, SurroundingsInv, Write
  <2>4. [writer[w] EXCEPT !.stage = "write",
            !.due = now + Budget[writer[w].attribution]] \in Write
    BY <2>1, <2>2 DEF Write, Stages
  <2>5. writer' \in [Writer -> Write \cup {Idle}]
    BY <2>3, <2>4 DEF SurroundingsInv
  <2> QED BY <1>2, <2>5 DEF ArmContent, SurroundingsInv
<1>3. CASE OsWrite(w)
  <2>1. writer[w] \in Write
    BY <1>3, WriteTyped DEF OsWrite, At
  <2>2. PICK key \in {writer[w].key, Recoded[writer[w].key]} :
          /\ os' = [key |-> key, sent |-> writer[w].key,
                    write |-> writer[w].write,
                    origin |-> writer[w].attribution, due |-> writer[w].due,
                    calm |-> FALSE, late |-> FALSE]
          /\ changed' \in IF os.key = key THEN {changed, TRUE} ELSE {TRUE}
          /\ claims' = IF key = writer[w].key THEN claims
                       ELSE [claims EXCEPT ![key] = @ + 1]
    BY <1>3 DEF OsWrite
  <2>3. key \in Content /\ os' \in Put
    BY <2>1, <2>2, ContentAssumption DEF Write, Put
  <2>4. changed' \in BOOLEAN /\ claims' \in [Content -> Nat]
    <3>1. changed' \in {changed, TRUE}
      BY <2>2
    <3>2. changed' \in BOOLEAN
      BY <3>1 DEF SurroundingsInv
    <3>3. claims' \in [Content -> Nat]
      BY <2>2, <2>3 DEF SurroundingsInv
    <3> QED BY <3>2, <3>3
  <2>5. writer' \in [Writer -> Write \cup {Idle}]
    BY <1>3, GotoTyped DEF OsWrite, At, Stages
  <2>6. clean' \in BOOLEAN
    BY <1>3 DEF OsWrite
  <2> QED BY <1>3, <2>3, <2>4, <2>5, <2>6 DEF OsWrite, SurroundingsInv
<1>4. CASE OsWriteFails(w)
  <2>1. writer' \in [Writer -> Write \cup {Idle}]
    BY <1>4, GotoTyped DEF OsWriteFails, At, Stages
  <2> QED BY <1>4, <2>1 DEF OsWriteFails, SurroundingsInv
<1>5. CASE Unwind(w)
  <2>1. writer' \in [Writer -> Write \cup {Idle}]
    BY <1>5, GotoTyped DEF Unwind, At, Stages
  <2> QED BY <1>5, <2>1 DEF Unwind, SurroundingsInv
<1>6. CASE CountFailure(w)
  <2>1. writer' \in [Writer -> Write \cup {Idle}]
    BY <1>6, GotoTyped DEF CountFailure, At, Stages
  <2> QED BY <1>6, <2>1 DEF CountFailure, SurroundingsInv
<1>7. CASE TripCircuit(w)
  <2>1. writer' \in [Writer -> Write \cup {Idle}]
    BY <1>7, GotoTyped DEF TripCircuit, At, Stages
  <2>2. open_until' \in Nat
    BY <1>7, LimitAssumption DEF TripCircuit, LedgerInv
  <2> QED BY <1>7, <2>1, <2>2 DEF TripCircuit, SurroundingsInv
<1>8. CASE ResetFailures(w)
  <2>1. writer' \in [Writer -> Write \cup {Idle}]
    BY <1>8, GotoTyped DEF ResetFailures, At, Stages
  <2> QED BY <1>8, <2>1 DEF ResetFailures, SurroundingsInv
<1>9. CASE CountSuccess(w)
  <2>1. writer' \in [Writer -> Write \cup {Idle}]
    BY <1>9, GotoTyped DEF CountSuccess, At, Stages
  <2> QED BY <1>9, <2>1 DEF CountSuccess, SurroundingsInv
<1>10. CASE CloseCircuit(w)
  <2>1. writer' \in [Writer -> Write \cup {Idle}]
    BY <1>10, GotoTyped DEF CloseCircuit, At, Stages
  <2> QED BY <1>10, <2>1 DEF CloseCircuit, SurroundingsInv
<1>11. CASE ArmFallback(w)
  <2>1. writer' \in [Writer -> Write \cup {Idle}]
    BY <1>11, GotoTyped DEF ArmFallback, At, Stages
  <2> QED BY <1>11, <2>1 DEF ArmFallback, SurroundingsInv
<1> QED BY <1>1, <1>2, <1>3, <1>4, <1>5, <1>6, <1>7, <1>8, <1>9, <1>10, <1>11

(* A step of a writer keeps the ledger. *)
LEMMA WriterLedger ==
    ASSUME IInv, NEW w \in Writer,
           \/ BeginWrite(w) \/ ArmContent(w) \/ OsWrite(w) \/ OsWriteFails(w)
           \/ Unwind(w) \/ CountFailure(w) \/ TripCircuit(w) \/ ResetFailures(w)
           \/ CountSuccess(w) \/ CloseCircuit(w) \/ ArmFallback(w)
    PROVE  LedgerInv'
<1>1. CASE ArmContent(w)
  <2>1. writer[w] \in Write
    BY <1>1, WriteTyped DEF ArmContent, At, IInv
  <2> QED BY <1>1, <2>1, ContentArmed DEF ArmContent, Write, IInv, watcherVars
<1>2. CASE ArmFallback(w)
  <2>1. writer[w] \in Write
    BY <1>2, WriteTyped DEF ArmFallback, At, IInv
  <2> QED BY <1>2, <2>1, FallbackArmed DEF ArmFallback, Write, IInv, watcherVars
<1>3. CASE Unwind(w)
  BY <1>3, Consumed DEF Unwind, IInv, watcherVars
<1>4. CASE ~ArmContent(w) /\ ~ArmFallback(w) /\ ~Unwind(w)
  <2>1. UNCHANGED <<now, ledgerVars, taken>>
    BY <1>4 DEF BeginWrite, OsWrite, OsWriteFails, CountFailure, TripCircuit,
                ResetFailures, CountSuccess, CloseCircuit, watcherVars
  <2> QED BY <2>1, LedgerUntouched DEF IInv
<1> QED BY <1>1, <1>2, <1>3, <1>4

(***************************************************************************)
(* A step of a writer leaves the failures below the threshold or a writer  *)
(* about to reset them.                                                    *)
(***************************************************************************)
LEMMA WriterTripping ==
    ASSUME IInv, NEW w \in Writer,
           \/ BeginWrite(w) \/ ArmContent(w) \/ OsWrite(w) \/ OsWriteFails(w)
           \/ Unwind(w) \/ CountFailure(w) \/ TripCircuit(w) \/ ResetFailures(w)
           \/ CountSuccess(w) \/ CloseCircuit(w) \/ ArmFallback(w)
    PROVE  Tripping'
<1> USE DEF IInv
<1>1. CASE CountFailure(w)
  <2>1. CASE failures' >= FailureThreshold
    <3>1. Goto(w, "trip") /\ ~At(w, "idle") /\ "trip" \in Stages
      BY <1>1, <2>1 DEF CountFailure, At, Stages
    <3> QED BY <3>1, GotoGoes DEF Tripping
  <2>2. CASE ~(failures' >= FailureThreshold)
    BY <2>2 DEF Tripping
  <2> QED BY <2>1, <2>2
<1>2. CASE TripCircuit(w)
  <2>1. Goto(w, "reset") /\ ~At(w, "idle") /\ "reset" \in Stages
    BY <1>2 DEF TripCircuit, At, Stages
  <2> QED BY <2>1, GotoGoes DEF Tripping
<1>3. CASE ResetFailures(w) \/ CountSuccess(w)
  BY <1>3, LimitAssumption DEF ResetFailures, CountSuccess, Tripping
<1>4. CASE \/ BeginWrite(w) \/ ArmContent(w) \/ OsWrite(w) \/ OsWriteFails(w)
           \/ Unwind(w) \/ CloseCircuit(w) \/ ArmFallback(w)
  <2>1. failures' = failures /\ ~At(w, "trip") /\ ~At(w, "reset")
    BY <1>4 DEF BeginWrite, ArmContent, OsWrite, OsWriteFails, Unwind,
                CloseCircuit, ArmFallback, At, circuitVars
  <2>2. \A v \in Writer \ {w} : writer'[v] = writer[v]
    BY <1>4 DEF BeginWrite, ArmContent, OsWrite, OsWriteFails, Unwind,
                CloseCircuit, ArmFallback, Goto, SurroundingsInv
  <2> QED BY <2>1, <2>2, TrippingKept
<1> QED BY <1>1, <1>2, <1>3, <1>4

-----------------------------------------------------------------------------
(* Everything else: time, the user, the OS, the watcher and the handler *)
Surroundings ==
    Tick \/ UserCopy \/ Renotify \/ PassOn \/ DropRepeated \/ MissChange \/ HandleChange

LEMMA SurroundingsTyped ==
    ASSUME IInv, Surroundings
    PROVE  SurroundingsInv'
<1> USE DEF IInv, circuitVars, osVars, watcherVars, userVars
<1>1. CASE Tick
  BY <1>1 DEF Tick, SurroundingsInv
<1>2. CASE UserCopy
  <2>1. PICK key \in Copies :
          /\ os' = [key |-> key, sent |-> key, write |-> begun,
                    origin |-> "Capture", due |-> now, late |-> FALSE,
                    calm |-> /\ clean /\ NothingUnderWay
                             /\ ~changed /\ observed = <<>>
                             /\ claims[key] = 0]
          /\ claims' = [claims EXCEPT ![key] = @ + 1]
    BY <1>2 DEF UserCopy
  <2>2. key \in Content
    BY ContentAssumption
  <2>3. os' \in Put
    BY <2>1, <2>2 DEF Put, SurroundingsInv, LedgerInv
  <2>4. claims' \in [Content -> Nat]
    BY <2>1, <2>2 DEF SurroundingsInv
  <2> QED BY <1>2, <2>3, <2>4 DEF UserCopy, SurroundingsInv
<1>3. CASE Renotify
  BY <1>3 DEF Renotify, SurroundingsInv
<1>4. CASE PassOn
  <2> DEFINE read == [os EXCEPT !.late = SameAsLast
                         /\ now - last_meaningful.at >= RededupWindow]
  <2>1. os \in Put /\ Fingerprint[os.key] \in Content
    BY <1>4, ContentAssumption DEF PassOn, SurroundingsInv, Put
  <2>2. (SameAsLast /\ now - last_meaningful.at >= RededupWindow) \in BOOLEAN
    BY DEF SameAsLast
  <2>3. read \in Put
    BY <2>1, <2>2 DEF Put
  <2>4. observed' \in Seq(Put)
    BY <1>4, <2>3 DEF PassOn, SurroundingsInv
  <2>5. last_meaningful' \in [key : Content, at : Nat]
    BY <1>4, <2>1 DEF PassOn, LedgerInv
  <2> QED BY <1>4, <2>4, <2>5 DEF PassOn, SurroundingsInv
<1>5. CASE DropRepeated
  BY <1>5 DEF DropRepeated, SurroundingsInv
<1>6. CASE MissChange
  BY <1>6 DEF MissChange, SurroundingsInv
<1>7. CASE HandleChange
  <2>1. verdict' \in Attribution \cup {"Capture", "none"}
    BY <1>7, AnswerIsLive DEF HandleChange
  <2>2. observed' \in Seq(Put)
    BY <1>7 DEF HandleChange, SurroundingsInv
  <2>3. clean' \in BOOLEAN
    BY <1>7 DEF HandleChange
  <2> QED BY <1>7, <2>1, <2>2, <2>3 DEF HandleChange, SurroundingsInv
<1> QED BY <1>1, <1>2, <1>3, <1>4, <1>5, <1>6, <1>7 DEF Surroundings

LEMMA SurroundingsLedger ==
    ASSUME IInv, Surroundings
    PROVE  LedgerInv'
<1>1. CASE HandleChange
  BY <1>1, Consumed DEF HandleChange, IInv
<1>2. CASE ~HandleChange
  <2>1. UNCHANGED <<ledgerVars, taken>> /\ (now' = now \/ now' = now + 1)
    BY <1>2 DEF Surroundings, Tick, UserCopy, Renotify, PassOn, DropRepeated,
                MissChange, watcherVars
  <2> QED BY <2>1, LedgerUntouched DEF IInv
<1> QED BY <1>1, <1>2

LEMMA SurroundingsTripping ==
    ASSUME IInv, Surroundings
    PROVE  Tripping'
<1>1. UNCHANGED <<failures, writer>>
  BY DEF Surroundings, Tick, UserCopy, Renotify, PassOn, DropRepeated,
         MissChange, HandleChange, circuitVars
<1> QED BY <1>1 DEF IInv, Tripping, At

-----------------------------------------------------------------------------
(* The theorems *)

LEMMA StepInv == IInv /\ [Next]_vars => IInv'
<1> SUFFICES ASSUME IInv, [Next]_vars
             PROVE  IInv'
  OBVIOUS
<1>1. ASSUME NEW w \in Writer,
           \/ BeginWrite(w) \/ ArmContent(w) \/ OsWrite(w) \/ OsWriteFails(w)
           \/ Unwind(w) \/ CountFailure(w) \/ TripCircuit(w) \/ ResetFailures(w)
           \/ CountSuccess(w) \/ CloseCircuit(w) \/ ArmFallback(w)
      PROVE  IInv'
  BY <1>1, WriterTyped, WriterLedger, WriterTripping DEF IInv
<1>2. CASE Surroundings
  BY <1>2, SurroundingsTyped, SurroundingsLedger, SurroundingsTripping DEF IInv
<1>3. CASE UNCHANGED vars
  BY <1>3 DEF vars, ledgerVars, circuitVars, osVars, watcherVars, userVars,
              IInv, LedgerInv, List, OnePerWrite, Timely, EachRecordAnswersOnce,
              SurroundingsInv, Tripping, At
<1> QED BY <1>1, <1>2, <1>3 DEF Next, Surroundings

LEMMA Invariant == Spec => []IInv
BY InitInv, StepInv, PTL DEF Spec

(***************************************************************************)
(* Every reachable state of the ledger, the coordinator and the watcher is *)
(* well typed, for any writers, contents, limits and bounds.               *)
(***************************************************************************)
THEOREM LedgerTyped == Spec => []TypeOK
BY Invariant, InvariantParts, PTL

(***************************************************************************)
(* The lists keep within their caps and hold one record for a write,       *)
(* however writers, failures and readings interleave                       *)
(* (change_origin.rs:95-111, 150-164).                                     *)
(***************************************************************************)
THEOREM CapsHold == Spec => []LedgerBounded
BY Invariant, InvariantParts, PTL

(***************************************************************************)
(* A record answers for one change at most (change_origin.rs:170-218).     *)
(***************************************************************************)
THEOREM RecordsAnswerOnce == Spec => []EachRecordAnswersOnce
BY Invariant, InvariantParts, PTL

(***************************************************************************)
(* When no write is under way the failures are below the threshold, any    *)
(* number of writers failing at once (coordinator.rs:163-179).             *)
(***************************************************************************)
THEOREM BreakerComesToRest == Spec => []BreakerSettles
BY Invariant, InvariantParts, PTL

(***************************************************************************)
(* A change is taken for an echo only within the time of that kind of      *)
(* write, whatever the order of arming (change_origin.rs:81-87).           *)
(***************************************************************************)
THEOREM AnswersAreLive == Spec => OnlyLiveRecordsAnswer
<1>1. IInv /\ [Next]_vars =>
        [Handled /\ verdict' # "Capture" =>
            now <= last_armed[verdict'] + Budget[verdict']]_vars
  <2> SUFFICES ASSUME IInv, [Next]_vars, Handled, verdict' # "Capture"
               PROVE  now <= last_armed[verdict'] + Budget[verdict']
    OBVIOUS
  <2>1. HandleChange
    <3>1. observed \in Seq(Put)
      BY DEF IInv, SurroundingsInv
    <3>2. CASE PassOn
      BY <3>1, <3>2 DEF PassOn, Handled
    <3>3. CASE UNCHANGED observed
      BY <3>1, <3>3 DEF Handled
    <3>4. PassOn \/ HandleChange \/ UNCHANGED observed
      BY DEF Next, vars, watcherVars, Tick, BeginWrite, ArmContent, OsWrite,
             OsWriteFails, Unwind, CountFailure, TripCircuit, ResetFailures,
             CountSuccess, CloseCircuit, ArmFallback, UserCopy, Renotify,
             DropRepeated, MissChange
    <3> QED BY <3>2, <3>3, <3>4
  <2> QED BY <2>1, AnswerIsLive DEF HandleChange, IInv
<1> QED BY <1>1, Invariant, PTL DEF Spec, OnlyLiveRecordsAnswer
=============================================================================
