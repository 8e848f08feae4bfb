------------------------ MODULE ForeignMasters_proofs ------------------------
(***************************************************************************)
(* Theorems about the foreign master data set, for every set of masters    *)
(* and of qualities and every capacity above 1.                            *)
(***************************************************************************)
EXTENDS ForeignMasters, TLAPS

(* What % does where the code wraps an index: the result is below the      *)
(* modulus.                                                                *)
LEMMA ModRange ==
  ASSUME NEW x \in Nat, NEW n \in Nat \ {0}
  PROVE  x % n \in 0 .. n - 1
OBVIOUS

(* Its argument there is below twice the modulus: one subtraction at most. *)
LEMMA ModWrap ==
  ASSUME NEW n \in Nat \ {0}, NEW x \in 0 .. 2 * n - 1
  PROVE  x % n = IF x < n THEN x ELSE x - n
<1>1. CASE x < n
  BY <1>1, SMT
<1>2. CASE x >= n
  BY <1>2, SMT
<1> QED BY <1>1, <1>2

-----------------------------------------------------------------------------
(* Type correctness.                                                       *)
USE DEF Slots, Used

(* addForeign() writes inside the array and uses one slot of it at least.  *)
LEMMA InsertSlotType ==
  ASSUME TypeOK
  PROVE  /\ NumberAfterInsert \in 1 .. max_foreign_records
         /\ InsertSlot(NumberAfterInsert) \in Slots
<1>1. NumberAfterInsert \in 1 .. max_foreign_records
  BY CapacityAssumption DEF TypeOK, NumberAfterInsert
<1>2. (foreign_record_i + 1) % NumberAfterInsert \in 0 .. NumberAfterInsert - 1
  <2>1. foreign_record_i + 1 \in Nat /\ NumberAfterInsert \in Nat \ {0}
    BY <1>1, CapacityAssumption DEF TypeOK
  <2> QED BY <2>1, ModRange
<1>3. InsertSlot(NumberAfterInsert) \in Slots
  BY <1>1, <1>2, CapacityAssumption DEF TypeOK, InsertSlot
<1> QED BY <1>1, <1>3

(* addForeign() keeps the types, whether it knows the master or not.       *)
LEMMA AddForeignType ==
  ASSUME TypeOK, NEW m \in Masters, NEW q \in Qualities, AddForeign(m, q)
  PROVE  TypeOK'
<1>1. Announced(m, q) \in Record
  BY DEF Announced, Record
<1>2. /\ record_update' \in BOOLEAN
      /\ heard' \subseteq Masters
      /\ foreign_record_best' \in Slots
      /\ dirty' \in BOOLEAN
  BY DEF AddForeign, TypeOK
<1>3. CASE RefreshRecord(m, q)
  BY <1>1, <1>2, <1>3 DEF RefreshRecord, TypeOK
<1>4. CASE InsertRecord(m, q)
  <2> DEFINE slot == InsertSlot(NumberAfterInsert)
  <2>1. foreign' = [foreign EXCEPT ![slot] = Announced(m, q)]
    BY <1>4 DEF InsertRecord
  <2>2. foreign' \in [Slots -> Record]
    BY <1>1, <2>1 DEF TypeOK
  <2>3. number_foreign_records' \in 0 .. max_foreign_records
    BY <1>4, InsertSlotType, CapacityAssumption DEF InsertRecord
  <2>4. (slot + 1) % max_foreign_records \in Slots
    <3>1. slot + 1 \in Nat /\ max_foreign_records \in Nat \ {0}
      BY InsertSlotType, CapacityAssumption
    <3> QED BY <3>1, ModRange
  <2>5. foreign_record_i' \in Slots
    BY <1>4, <2>4 DEF InsertRecord
  <2> QED BY <1>2, <2>2, <2>3, <2>5 DEF TypeOK
<1> QED BY <1>3, <1>4 DEF AddForeign

(* The state that calloc() leaves is type correct.                         *)
LEMMA InitType == Init => TypeOK
<1> SUFFICES ASSUME Init PROVE TypeOK
  OBVIOUS
<1>1. foreign \in [Slots -> Record]
  BY DEF Init, ZeroRecord, NoMaster, Record
<1>2. 0 \in Slots /\ 0 \in 0 .. max_foreign_records
  BY CapacityAssumption
<1>3. record_update \in BOOLEAN /\ dirty \in BOOLEAN
  BY DEF Init
<1> QED BY <1>1, <1>2, <1>3 DEF Init, TypeOK

(* Every operation on the data set is type correct.                        *)
LEMMA NextType == TypeOK /\ [Next]_ringVars => TypeOK'
<1> SUFFICES ASSUME TypeOK, [Next]_ringVars PROVE TypeOK'
  OBVIOUS
<1>1. ASSUME NEW m \in Masters, NEW q \in Qualities, AddForeign(m, q)
      PROVE  TypeOK'
  BY <1>1, AddForeignType
<1>2. CASE SelectBest
  BY <1>2 DEF SelectBest, TypeOK
<1>3. CASE SelectNone
  BY <1>3 DEF SelectNone, TypeOK
<1>4. ASSUME NEW q \in Qualities, UpdateBest(q) PROVE TypeOK'
  <2>1. [foreign[foreign_record_best] EXCEPT !.quality = q] \in Record
    BY DEF TypeOK, Record
  <2>2. foreign' \in [Slots -> Record]
    BY <1>4, <2>1 DEF UpdateBest, TypeOK
  <2> QED BY <1>4, <2>2 DEF UpdateBest, TypeOK
<1>5. CASE RequestUpdate
  BY <1>5 DEF RequestUpdate, TypeOK
<1>6. CASE DisqualifyBest
  <2>1. [foreign[foreign_record_best] EXCEPT !.disqualified = TRUE] \in Record
    BY DEF TypeOK, Record
  <2>2. foreign' \in [Slots -> Record]
    BY <1>6, <2>1 DEF DisqualifyBest, TypeOK
  <2> QED BY <1>6, <2>2 DEF DisqualifyBest, TypeOK
<1>7. CASE ClearRecords
  <2>1. 0 \in Slots /\ 0 \in 0 .. max_foreign_records
    BY CapacityAssumption
  <2>2. dirty' \in BOOLEAN
    BY <1>7 DEF ClearRecords
  <2> QED BY <1>7, <2>1, <2>2 DEF ClearRecords, TypeOK
<1>8. CASE InitData
  <2>1. 0 \in Slots /\ 0 \in 0 .. max_foreign_records
    BY CapacityAssumption
  <2>2. dirty' \in BOOLEAN
    BY <1>8 DEF InitData
  <2> QED BY <1>8, <2>1, <2>2 DEF InitData, TypeOK
<1>9. CASE UNCHANGED ringVars
  BY <1>9 DEF ringVars, TypeOK
<1> QED BY <1>1, <1>2, <1>3, <1>4, <1>5, <1>6, <1>7, <1>8, <1>9 DEF Next

(* The state has its type: the array keeps its size and its records their  *)
(* shape, and the three indices of addForeign() and bmc() stay inside it.  *)
THEOREM TypeCorrect == Spec => []TypeOK
BY InitType, NextType, PTL DEF Spec

-----------------------------------------------------------------------------
(* The inductive invariant.  Neither of the two properties of the slots in *)
(* use is inductive alone: that an insertion extends the used slots by one *)
(* needs IndicesFollowCount, and that it adds no second record of a master *)
(* needs the search to have seen them all, which needs the best slot to be *)
(* in use.                                                                 *)
IInv == TypeOK /\ IndicesFollowCount /\ UsedAreHeard /\ UsedAreDistinct

(* The search of addForeign() sees every used slot if it starts at one.    *)
LEMMA SearchFromUsedSlot ==
  ASSUME TypeOK, number_foreign_records > 0, foreign_record_best \in Used
  PROVE  {Probe(k) : k \in Used} = Used
<1> DEFINE n == number_foreign_records
           b == foreign_record_best
<1>1. n \in Nat \ {0} /\ b \in 0 .. n - 1
  BY DEF TypeOK
<1>2. ASSUME NEW k \in Used
      PROVE  Probe(k) = IF b + k < n THEN b + k ELSE b + k - n
  <2>1. b + k \in 0 .. 2 * n - 1
    BY <1>1
  <2>2. (b + k) % n = IF b + k < n THEN b + k ELSE b + k - n
    BY <1>1, <2>1, ModWrap
  <2> QED BY <1>1, <2>2 DEF Probe
<1>3. ASSUME NEW k \in Used PROVE Probe(k) \in Used
  BY <1>1, <1>2, <1>3
<1>4. ASSUME NEW s \in Used PROVE \E k \in Used : Probe(k) = s
  <2>1. CASE s >= b
    <3>1. s - b \in Used
      BY <1>1, <2>1
    <3>2. Probe(s - b) = s
      BY <1>1, <1>2, <3>1
    <3> QED BY <3>1, <3>2
  <2>2. CASE s < b
    <3>1. s - b + n \in Used
      BY <1>1, <2>2
    <3>2. Probe(s - b + n) = s
      BY <1>1, <1>2, <2>2, <3>1
    <3> QED BY <3>1, <3>2
  <2> QED BY <1>1, <2>1, <2>2
<1> QED BY <1>3, <1>4

(* When no bmc() is due, the slot it selected is such a start.             *)
LEMMA SearchIsComplete == TypeOK /\ IndicesFollowCount => SearchCoversUsed
BY SearchFromUsedSlot DEF IndicesFollowCount, SearchCoversUsed

(* An Announce of an unknown master is written to a used slot of its own,  *)
(* the first free one while there is room.                                 *)
LEMMA InsertedSlot ==
  ASSUME IInv, ~record_update, ~dirty
  PROVE  LET slot == InsertSlot(NumberAfterInsert)
         IN  /\ slot \in 0 .. NumberAfterInsert - 1
             /\ number_foreign_records < max_foreign_records
                  => slot = number_foreign_records
<1>1. TypeOK
  BY DEF IInv
<1> DEFINE N == NumberAfterInsert
           i == foreign_record_i
           b == foreign_record_best
<1>2. N \in Nat \ {0} /\ i \in Nat /\ b \in Nat
  BY <1>1, InsertSlotType, CapacityAssumption DEF TypeOK
<1>3. CASE number_foreign_records < max_foreign_records
  <2>1. i = number_foreign_records /\ N = i + 1
    BY <1>3, <1>1, <1>2 DEF IInv, IndicesFollowCount, NumberAfterInsert
  <2>2. CASE i = b
    <3>1. i = 0
      BY <1>1, <1>2, <2>1, <2>2 DEF IInv, IndicesFollowCount, TypeOK
    <3>2. (i + 1) % N = 0
      BY <2>1, <3>1, ModWrap
    <3> QED BY <2>1, <2>2, <3>1, <3>2 DEF InsertSlot
  <2>3. CASE i # b
    BY <1>2, <2>1, <2>3 DEF InsertSlot
  <2> QED BY <2>2, <2>3
<1>4. CASE ~(number_foreign_records < max_foreign_records)
  <2>1. N = max_foreign_records
    BY <1>1, <1>4, CapacityAssumption DEF TypeOK, NumberAfterInsert
  <2> QED BY <1>1, <1>4, <2>1, InsertSlotType
<1> QED BY <1>3, <1>4

(* Refreshing the record of a known master keeps the identities in the     *)
(* array; the search finds it in a used slot.                              *)
LEMMA RefreshKeepsIds ==
  ASSUME IInv, ~record_update, NEW m \in Masters, NEW q \in Qualities,
         RefreshRecord(m, q)
  PROVE  /\ \A s \in Slots : foreign'[s].id = foreign[s].id
         /\ m \in {foreign[s].id : s \in Used}
<1>1. PICK k \in Hits(m) : foreign' = [foreign EXCEPT ![Probe(k)] = Announced(m, q)]
  BY DEF RefreshRecord
<1>2. k \in Used /\ foreign[Probe(k)].id = m
  BY <1>1 DEF Hits
<1>3. number_foreign_records > 0
  BY <1>2 DEF IInv, TypeOK
<1>4. Probe(k) \in Used
  BY <1>2, <1>3, SearchIsComplete DEF IInv, SearchCoversUsed
<1>5. Announced(m, q).id = m
  BY DEF Announced
<1>6. foreign \in [Slots -> Record]
  BY DEF IInv, TypeOK
<1>7. \A s \in Slots : foreign'[s].id = foreign[s].id
  BY <1>1, <1>2, <1>5, <1>6
<1> QED BY <1>2, <1>4, <1>7

(* An Announce keeps the invariant: the two cases of addForeign().         *)
LEMMA AddForeignInv ==
  ASSUME IInv, NEW m \in Masters, NEW q \in Qualities,
         ~record_update, AddForeign(m, q)
  PROVE  IInv'
<1>1. TypeOK'
  BY AddForeignType DEF IInv
<1>2. record_update' /\ heard' = heard \cup {m} /\ dirty' = dirty
  BY DEF AddForeign
<1>3. foreign \in [Slots -> Record] /\ number_foreign_records \in 0 .. max_foreign_records
  BY DEF IInv, TypeOK
<1>4. CASE RefreshRecord(m, q)
  <2>1. number_foreign_records' = number_foreign_records
        /\ foreign_record_i' = foreign_record_i
    BY <1>4 DEF RefreshRecord
  <2>2. \A s \in Slots : foreign'[s].id = foreign[s].id
    BY <1>4, RefreshKeepsIds
  <2>3. IndicesFollowCount'
    BY <1>2, <2>1 DEF IInv, IndicesFollowCount
  <2>4. \A s \in Used : s \in Slots
    BY <1>3, CapacityAssumption
  <2>5. UsedAreHeard'
    BY <1>2, <2>1, <2>2, <2>4 DEF IInv, UsedAreHeard
  <2>6. UsedAreDistinct'
    BY <1>2, <2>1, <2>2, <2>4 DEF IInv, UsedAreDistinct
  <2> QED BY <1>1, <2>3, <2>5, <2>6 DEF IInv
<1>5. CASE InsertRecord(m, q) /\ dirty
  BY <1>1, <1>2, <1>5 DEF IInv, IndicesFollowCount, UsedAreHeard, UsedAreDistinct
<1>6. CASE InsertRecord(m, q) /\ ~dirty
  <2> DEFINE n == number_foreign_records
             N == NumberAfterInsert
             slot == InsertSlot(N)
  <2>1. /\ Hits(m) = {}
        /\ n' = N
        /\ foreign' = [foreign EXCEPT ![slot] = Announced(m, q)]
        /\ foreign_record_i' = (slot + 1) % max_foreign_records
    BY <1>6 DEF InsertRecord
  <2>2. slot \in 0 .. N - 1 /\ (n < max_foreign_records => slot = n)
    BY <1>6, InsertedSlot
  <2>3. N \in 1 .. max_foreign_records /\ slot \in Slots
    BY InsertSlotType DEF IInv
  <2>4. N = IF n < max_foreign_records THEN n + 1 ELSE n
    BY DEF NumberAfterInsert
  <2>5. \A s \in 0 .. N - 1 : s # slot => s \in Used
    BY <1>3, <2>2, <2>4
  <2>6. Announced(m, q).id = m
    BY DEF Announced
  <2>7. \A s \in Slots : foreign'[s].id = IF s = slot THEN m ELSE foreign[s].id
    BY <1>3, <2>1, <2>6
  <2>8. \A s \in Used : foreign[s].id # m
    <3>1. SUFFICES ASSUME NEW s \in Used PROVE foreign[s].id # m
      OBVIOUS
    <3>2. n > 0
      BY <1>3, <3>1
    <3>3. PICK k \in Used : Probe(k) = s
      BY <3>1, <3>2, SearchIsComplete DEF IInv, SearchCoversUsed
    <3> QED BY <2>1, <3>3 DEF Hits
  <2>9. \A s \in 0 .. N - 1 : s \in Slots
    BY <2>3, CapacityAssumption
  <2>10. UsedAreHeard'
    BY <1>2, <1>6, <2>1, <2>5, <2>7, <2>9 DEF IInv, UsedAreHeard
  <2>11. UsedAreDistinct'
    <3>1. SUFFICES ASSUME NEW s \in 0 .. N - 1, NEW t \in 0 .. N - 1,
                          foreign'[s].id = foreign'[t].id
                   PROVE  s = t
      BY <2>1 DEF UsedAreDistinct
    <3>2. CASE s = slot \/ t = slot
      BY <2>5, <2>7, <2>8, <2>9, <3>1, <3>2
    <3>3. CASE s # slot /\ t # slot
      <4>1. foreign[s].id = foreign[t].id /\ s \in Used /\ t \in Used
        BY <2>5, <2>7, <2>9, <3>1, <3>3
      <4> QED BY <1>6, <4>1 DEF IInv, UsedAreDistinct
    <3> QED BY <3>2, <3>3
  <2>12. IndicesFollowCount'
    <3>1. SUFFICES ASSUME N < max_foreign_records
                   PROVE  (slot + 1) % max_foreign_records = N
      BY <1>2, <2>1 DEF IndicesFollowCount
    <3>2. n < max_foreign_records /\ slot = n /\ N = n + 1
      BY <1>3, <2>2, <2>4, <3>1
    <3>3. N \in 0 .. 2 * max_foreign_records - 1 /\ max_foreign_records \in Nat \ {0}
      BY <2>3, <3>1, CapacityAssumption
    <3>4. ASSUME NEW x \in 0 .. 2 * max_foreign_records - 1, x < max_foreign_records
          PROVE  x % max_foreign_records = x
      BY <3>3, <3>4, ModWrap
    <3>5. N % max_foreign_records = N
      BY <3>1, <3>3, <3>4
    <3> QED BY <3>2, <3>5
  <2> QED BY <1>1, <2>10, <2>11, <2>12 DEF IInv
<1> QED BY <1>4, <1>5, <1>6 DEF AddForeign

(* The invariant is inductive: every operation on the data set keeps it.   *)
THEOREM InvariantHolds == Spec => []IInv
<1>1. Init => IInv
  <2>1. Init => IndicesFollowCount /\ UsedAreHeard /\ UsedAreDistinct
    BY CapacityAssumption DEF Init, IndicesFollowCount, UsedAreHeard, UsedAreDistinct
  <2> QED BY <2>1, InitType DEF IInv
<1>2. IInv /\ [Next]_ringVars => IInv'
  <2> SUFFICES ASSUME IInv, [Next]_ringVars PROVE IInv'
    OBVIOUS
  <2>1. TypeOK'
    BY NextType DEF IInv
  <2>2. ASSUME NEW m \in Masters, NEW q \in Qualities,
               ~record_update, AddForeign(m, q)
        PROVE  IInv'
    BY <2>2, AddForeignInv
  <2>3. ASSUME UNCHANGED <<foreign, number_foreign_records, foreign_record_i,
                           heard, dirty>>,
               \/ UNCHANGED <<foreign_record_best, record_update>>
               \/ record_update'
               \/ number_foreign_records = 0
               \/ foreign_record_best' \in Used
        PROVE  IInv'
    BY <2>1, <2>3 DEF IInv, IndicesFollowCount, UsedAreHeard, UsedAreDistinct
  <2>4. CASE SelectBest
    <3>1. PICK s \in Slots : IsBest(s) /\ foreign_record_best' = s
      BY <2>4 DEF SelectBest
    <3>2. number_foreign_records = 0 \/ foreign_record_best' \in Used
      BY <3>1 DEF IsBest
    <3> QED BY <2>3, <2>4, <3>2 DEF SelectBest
  <2>5. CASE SelectNone
    BY <2>3, <2>5 DEF SelectNone
  <2>6. CASE RequestUpdate
    BY <2>3, <2>6 DEF RequestUpdate
  <2>7. ASSUME UNCHANGED <<number_foreign_records, foreign_record_i, heard, dirty,
                           foreign_record_best>>,
               record_update' \/ UNCHANGED record_update,
               \A s \in Slots : foreign'[s].id = foreign[s].id
        PROVE  IInv'
    <3>1. \A s \in Used : s \in Slots
      BY CapacityAssumption DEF IInv, TypeOK
    <3> QED BY <2>1, <2>7, <3>1 DEF IInv, IndicesFollowCount, UsedAreHeard, UsedAreDistinct
  <2>8. ASSUME NEW q \in Qualities, UpdateBest(q) PROVE IInv'
    <3>1. \A s \in Slots : foreign'[s].id = foreign[s].id
      BY <2>8 DEF UpdateBest, IInv, TypeOK, Record
    <3> QED BY <2>7, <2>8, <3>1 DEF UpdateBest
  <2>9. CASE DisqualifyBest
    <3>1. \A s \in Slots : foreign'[s].id = foreign[s].id
      BY <2>9 DEF DisqualifyBest, IInv, TypeOK, Record
    <3> QED BY <2>7, <2>9, <3>1 DEF DisqualifyBest
  <2>10. ASSUME number_foreign_records' = 0,
                ~dirty' => foreign_record_i' = 0
         PROVE  IInv'
    BY <2>1, <2>10 DEF IInv, IndicesFollowCount, UsedAreHeard, UsedAreDistinct
  <2>11. CASE ClearRecords
    BY <2>10, <2>11 DEF ClearRecords
  <2>12. CASE InitData
    BY <2>10, <2>12 DEF InitData
  <2>13. CASE UNCHANGED ringVars
    BY <2>3, <2>13 DEF ringVars
  <2> QED BY <2>2, <2>4, <2>5, <2>6, <2>8, <2>9, <2>11, <2>12, <2>13 DEF Next
<1> QED BY <1>1, <1>2, PTL DEF Spec

(* Whatever Announces arrive, masters time out and ports are reset, the    *)
(* search of addForeign() sees every slot in use.                          *)
THEOREM SearchAlwaysCoversUsed == Spec => []SearchCoversUsed
BY InvariantHolds, SearchIsComplete, PTL DEF IInv

(* As long as no initData() left foreign_record_i behind, the slots in use *)
(* hold masters that addForeign() recorded since the last reset.           *)
THEOREM UsedAreAlwaysHeard == Spec => []UsedAreHeard
BY InvariantHolds, PTL DEF IInv

(* And addForeign() gives no master a second slot.                         *)
THEOREM UsedAreAlwaysDistinct == Spec => []UsedAreDistinct
BY InvariantHolds, PTL DEF IInv

(* The indices stay tied to the count: the best slot is in use when no     *)
(* bmc() is due, and insertion goes to the first slot that is not.         *)
THEOREM IndicesAlwaysFollowCount == Spec => []IndicesFollowCount
BY InvariantHolds, PTL DEF IInv

(* addForeign() does not insert at the best slot, wherever that is.        *)
LEMMA InsertionSkipsBest ==
  ASSUME TypeOK, foreign_record_best \in Used
  PROVE  InsertSlot(NumberAfterInsert) # foreign_record_best
<1> DEFINE N == NumberAfterInsert
           i == foreign_record_i
<1>1. SUFFICES ASSUME i = foreign_record_best
               PROVE  (i + 1) % N # i
  BY DEF InsertSlot
<1>2. N \in Nat /\ N > 1 /\ i \in 0 .. N - 1
  BY <1>1, CapacityAssumption DEF TypeOK, NumberAfterInsert
<1>3. ASSUME NEW x \in 1 .. N PROVE x % N # x - 1
  <2>1. N \in Nat \ {0} /\ x \in 0 .. 2 * N - 1
    BY <1>2
  <2>2. x % N = IF x < N THEN x ELSE x - N
    BY <2>1, ModWrap
  <2> QED BY <1>2, <2>2
<1>4. PICK x \in 1 .. N : x = i + 1
  BY <1>2
<1> QED BY <1>2, <1>3, <1>4

(* So it leaves the record there alone, unless it is the one of its sender. *)
LEMMA AnnounceKeepsBest ==
  ASSUME IInv, NEW m \in Masters, NEW q \in Qualities,
         ~record_update, number_foreign_records > 0, AddForeign(m, q)
  PROVE  \/ foreign'[foreign_record_best] = foreign[foreign_record_best]
         \/ foreign[foreign_record_best].id = m
<1>1. /\ TypeOK
      /\ foreign_record_best \in Used
      /\ foreign \in [Slots -> Record]
      /\ foreign_record_best \in Slots
  BY DEF IInv, IndicesFollowCount, TypeOK
<1>2. CASE RefreshRecord(m, q)
  <2>1. PICK k \in Hits(m) : foreign' = [foreign EXCEPT ![Probe(k)] = Announced(m, q)]
    BY <1>2 DEF RefreshRecord
  <2>2. foreign[Probe(k)].id = m
    BY <2>1 DEF Hits
  <2> QED BY <1>1, <2>1, <2>2
<1>3. CASE InsertRecord(m, q)
  <2>1. foreign' = [foreign EXCEPT ![InsertSlot(NumberAfterInsert)] = Announced(m, q)]
    BY <1>3 DEF InsertRecord
  <2> QED BY <1>1, <2>1, InsertionSkipsBest
<1> QED BY <1>2, <1>3 DEF AddForeign

(* An Announce never takes the slot bmc() selected from another master.    *)
THEOREM BestIsPreserved == Spec => BestPreserved
<1> DEFINE Preserved ==
      \A m \in Masters, q \in Qualities :
        /\ ~record_update /\ number_foreign_records > 0
        /\ AddForeign(m, q)
        => \/ foreign'[foreign_record_best] = foreign[foreign_record_best]
           \/ foreign[foreign_record_best].id = m
<1>1. IInv /\ [Next]_ringVars => [Preserved]_ringVars
  BY AnnounceKeepsBest
<1>2. []IInv /\ [][Next]_ringVars => [][Preserved]_ringVars
  BY <1>1, PTL
<1> QED BY <1>2, InvariantHolds DEF Spec, BestPreserved
=============================================================================
