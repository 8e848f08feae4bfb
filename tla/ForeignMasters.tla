--------------------------- MODULE ForeignMasters ---------------------------
(***************************************************************************)
(* The foreign master data set of one PTP port: the array                  *)
(* ptpClock->foreign with its three indices, filled by addForeign()        *)
(* (protocol.c), read by bmc() (bmc.c), and emptied by the two reset paths *)
(* of the program, which are not the same: an announce receipt timeout     *)
(* (doState()) and the re-initialisation of the port (initData()).         *)
(*                                                                         *)
(* A record is abstracted to the identity of the master, the rank that the *)
(* compared fields of its last Announce give it (lower is better) and the  *)
(* disqualified flag.  Identities are numbers because memcmp() orders them.*)
(***************************************************************************)
EXTENDS Integers

CONSTANTS
  Masters,              \* clock identities of the foreign masters
  Qualities,            \* ranks an Announce can give its sender
  max_foreign_records   \* capacity of the array

ASSUME MastersAssumption   == Masters \subseteq Nat \ {0}
ASSUME QualitiesAssumption == Qualities \subseteq Nat
ASSUME CapacityAssumption  == max_foreign_records \in Nat /\ max_foreign_records > 1

VARIABLES
  foreign,                 \* the array
  number_foreign_records,  \* how many leading slots are in use
  foreign_record_i,        \* the slot the next new master is written to
  foreign_record_best,     \* the slot bmc() selected last
  record_update,           \* bmc() is due
  heard,                   \* history: masters recorded since the last reset
  dirty                    \* history: the last reset left foreign_record_i alone

ringVars == <<foreign, number_foreign_records, foreign_record_i,
              foreign_record_best, record_update, heard, dirty>>

Slots == 0 .. max_foreign_records - 1
Used  == 0 .. number_foreign_records - 1

NoMaster   == 0
ZeroRecord == [id |-> NoMaster, quality |-> 0, disqualified |-> FALSE]
Record     == [id : Masters \cup {NoMaster}, quality : Qualities \cup {0},
               disqualified : BOOLEAN]

TypeOK ==
  /\ foreign \in [Slots -> Record]
  /\ number_foreign_records \in 0 .. max_foreign_records
  /\ foreign_record_i \in Slots
  /\ foreign_record_best \in Slots
  /\ record_update \in BOOLEAN
  /\ heard \subseteq Masters
  /\ dirty \in BOOLEAN

(* calloc() in ptpdStartup() zeroes the array and the indices.             *)
Init ==
  /\ foreign = [s \in Slots |-> ZeroRecord]
  /\ number_foreign_records = 0
  /\ foreign_record_i = 0
  /\ foreign_record_best = 0
  /\ record_update = FALSE
  /\ heard = {}
  /\ dirty = FALSE

-----------------------------------------------------------------------------
(* The order of bmcDataSetComparison() between masters of different        *)
(* grandmasters: the announced data set, then the identity.  Above both a  *)
(* disqualified record compares below, that is better than, one that is    *)
(* not, although ptp_datatypes.h has it that this one always loses.        *)
Precedes(a, b) ==
  \/ a.quality < b.quality
  \/ a.quality = b.quality /\ a.id < b.id

Better(a, b) ==
  \/ a.disqualified /\ ~b.disqualified
  \/ a.disqualified = b.disqualified /\ Precedes(a, b)

(* The scan of bmc() keeps the first of the best records, slot 0 when      *)
(* there is none.                                                          *)
IsBest(s) ==
  IF number_foreign_records = 0
  THEN s = 0
  ELSE /\ s \in Used
       /\ \A t \in Used : ~Better(foreign[t], foreign[s])
       /\ \A t \in Used : t < s => Better(foreign[s], foreign[t])

\* A bug: the search wraps at the wrong number.
Probe_WrapsAtCapacity(k) ==
  IF k = 0 THEN foreign_record_best
           ELSE (foreign_record_best + k) % max_foreign_records

(* The slot that addForeign() looks at in its k-th iteration.              *)
Probe(k) ==
  IF k = 0 THEN foreign_record_best
           ELSE (foreign_record_best + k) % number_foreign_records

Hits(m) == {k \in Used : foreign[Probe(k)].id = m}

\* A bug: the slot of the best master is not skipped.
InsertSlot_OverBest(n) == foreign_record_i

(* The slot a new master is written to, once n slots are in use: the slot  *)
(* of the best master is skipped.                                          *)
InsertSlot(n) ==
  IF foreign_record_i = foreign_record_best
  THEN (foreign_record_i + 1) % n
  ELSE foreign_record_i

NumberAfterInsert ==
  IF number_foreign_records < max_foreign_records
  THEN number_foreign_records + 1
  ELSE number_foreign_records

Announced(m, q) == [id |-> m, quality |-> q, disqualified |-> FALSE]

RefreshRecord(m, q) ==
  /\ \E k \in Hits(m) :
       /\ \A l \in Hits(m) : k <= l
       /\ foreign' = [foreign EXCEPT ![Probe(k)] = Announced(m, q)]
  /\ UNCHANGED <<number_foreign_records, foreign_record_i>>

\* A bug: the index is not wrapped.
InsertRecord_NoWrap(m, q) ==
  /\ Hits(m) = {}
  /\ number_foreign_records' = NumberAfterInsert
  /\ LET slot == InsertSlot(NumberAfterInsert)
     IN  /\ foreign' = [foreign EXCEPT ![slot] = Announced(m, q)]
         /\ foreign_record_i' = slot + 1

InsertRecord(m, q) ==
  /\ Hits(m) = {}
  /\ number_foreign_records' = NumberAfterInsert
  /\ LET slot == InsertSlot(NumberAfterInsert)
     IN  /\ foreign' = [foreign EXCEPT ![slot] = Announced(m, q)]
         /\ foreign_record_i' = (slot + 1) % max_foreign_records

\* A bug: bmc() is not asked for.
AddForeign_NoDecision(m, q) ==
  /\ RefreshRecord(m, q) \/ InsertRecord(m, q)
  /\ heard' = heard \cup {m}
  /\ UNCHANGED <<foreign_record_best, record_update, dirty>>

(* addForeign() and the record_update = TRUE of its callers.               *)
AddForeign(m, q) ==
  /\ RefreshRecord(m, q) \/ InsertRecord(m, q)
  /\ record_update' = TRUE
  /\ heard' = heard \cup {m}
  /\ UNCHANGED <<foreign_record_best, dirty>>

(* bmc() without its state decision.                                       *)
SelectBest ==
  /\ \E s \in Slots : IsBest(s) /\ foreign_record_best' = s
  /\ record_update' = FALSE
  /\ UNCHANGED <<foreign, number_foreign_records, foreign_record_i, heard, dirty>>

(* bmc() of a MASTER without records returns before it selects anything.   *)
SelectNone ==
  /\ number_foreign_records = 0
  /\ record_update' = FALSE
  /\ UNCHANGED <<foreign, number_foreign_records, foreign_record_i,
                 foreign_record_best, heard, dirty>>

(* An Announce of the current parent is copied into the best record, and a *)
(* SET management message asks for bmc(); neither inserts a record.        *)
UpdateBest(q) ==
  /\ foreign' = [foreign EXCEPT ![foreign_record_best].quality = q]
  /\ record_update' = TRUE
  /\ UNCHANGED <<number_foreign_records, foreign_record_i,
                 foreign_record_best, heard, dirty>>

RequestUpdate ==
  /\ record_update' = TRUE
  /\ UNCHANGED <<foreign, number_foreign_records, foreign_record_i,
                 foreign_record_best, heard, dirty>>

(* An announce receipt timeout within the grace period.                    *)
DisqualifyBest ==
  /\ foreign' = [foreign EXCEPT ![foreign_record_best].disqualified = TRUE]
  /\ UNCHANGED <<number_foreign_records, foreign_record_i,
                 foreign_record_best, record_update, heard, dirty>>

\* A bug: the insertion index is not reset.
ClearRecords_CountOnly ==
  /\ number_foreign_records' = 0
  /\ heard' = {}
  /\ dirty' = FALSE
  /\ UNCHANGED <<foreign, foreign_record_i, foreign_record_best, record_update>>

(* The announce receipt timeout resets the count and the insertion index.  *)
ClearRecords ==
  /\ number_foreign_records' = 0
  /\ foreign_record_i' = 0
  /\ heard' = {}
  /\ dirty' = FALSE
  /\ UNCHANGED <<foreign, foreign_record_best, record_update>>

(* initData() resets the count only.                                       *)
InitData ==
  /\ number_foreign_records' = 0
  /\ heard' = {}
  /\ dirty' = (foreign_record_i # 0)
  /\ UNCHANGED <<foreign, foreign_record_i, foreign_record_best, record_update>>

-----------------------------------------------------------------------------
(* Any order of the operations in which bmc() has handled one Announce     *)
(* before the next one is recorded, the order doState() imposes.           *)
Next ==
  \/ \E m \in Masters, q \in Qualities : ~record_update /\ AddForeign(m, q)
  \/ record_update /\ (SelectBest \/ SelectNone)
  \/ \E q \in Qualities : ~record_update /\ UpdateBest(q)
  \/ RequestUpdate
  \/ DisqualifyBest
  \/ ClearRecords
  \/ InitData

Spec == Init /\ [][Next]_ringVars

-----------------------------------------------------------------------------
(* When the next Announce is recorded the search of addForeign() starts    *)
(* inside the slots in use, so that its number_foreign_records probes see  *)
(* every one of them and no known master is inserted a second time.        *)
SearchCoversUsed ==
  ~record_update /\ number_foreign_records > 0
    => {Probe(k) : k \in Used} = Used

(* Unless initData() left foreign_record_i behind, the slots in use hold   *)
(* exactly masters recorded since the last reset, each of them once.       *)
UsedAreHeard ==
  ~dirty => \A s \in Used : foreign[s].id \in heard

UsedAreDistinct ==
  ~dirty => \A s, t \in Used : foreign[s].id = foreign[t].id => s = t

(* What the two above rest on: when no bmc() is due the slot it selected   *)
(* is in use, and while there is room, unless initData() left it behind,   *)
(* foreign_record_i is the first slot that is not.                         *)
IndicesFollowCount ==
  /\ ~record_update /\ number_foreign_records > 0 => foreign_record_best \in Used
  /\ ~dirty /\ number_foreign_records < max_foreign_records
       => foreign_record_i = number_foreign_records

(* "Preserve best master record from overwriting": once a master is known, *)
(* an Announce of another one never takes over the slot bmc() selected.    *)
BestPreserved ==
  [][\A m \in Masters, q \in Qualities :
       /\ ~record_update /\ number_foreign_records > 0
       /\ AddForeign(m, q)
       => \/ foreign'[foreign_record_best] = foreign[foreign_record_best]
          \/ foreign[foreign_record_best].id = m]_ringVars
=============================================================================
