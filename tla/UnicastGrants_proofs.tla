------------------------ MODULE UnicastGrants_proofs ------------------------
(***************************************************************************)
(* That no master gives a slot away while a grant in it has time left, and *)
(* that a node never has two slots, for any number of slaves, masters and  *)
(* slots.  What makes a slot free is its own time, which                   *)
(* refreshUnicastGrants() computes from its grants before they age and a   *)
(* request raises, so that the two have to be related; and a slot that is  *)
(* found by its address, by its identity, through the index or for being   *)
(* free is the same one only while signals go between a slave and the      *)
(* masters it is configured with.  On them rests the last part: that       *)
(* unicast negotiation implements UnicastLease.                            *)
(***************************************************************************)
EXTENDS UnicastGrants, WellFoundedInduction, FiniteSetTheorems, TLAPS

GrantOK(g) ==
  /\ g = [requested |-> g.requested, granted |-> g.granted, canceled |-> g.canceled,
          cancelCount |-> g.cancelCount, timeLeft |-> g.timeLeft,
          logInterval |-> g.logInterval, receiving |-> g.receiving]
  /\ g.granted \in BOOLEAN /\ g.timeLeft \in 0..MaxTime
  /\ ~g.granted => g.timeLeft = 0

(* A slot without time left has no grant with time left.                   *)
SlotOK(types, slot) ==
  /\ slot = [identity |-> slot.identity, address |-> slot.address,
             timeLeft |-> slot.timeLeft, grants |-> slot.grants]
  /\ slot.grants = [t \in types |-> slot.grants[t]]
  /\ slot.timeLeft \in Nat
  /\ \A t \in types : GrantOK(slot.grants[t])
  /\ slot.timeLeft = 0 => \A t \in types : slot.grants[t].timeLeft = 0
  /\ slot.identity # None => slot.address = slot.identity

(* What one step may make of a slot.                                       *)
StepOK(types, old, new) ==
  /\ SlotOK(types, new)
  /\ new.address \in {old.address, None} \/ old.timeLeft = 0

TableInv ==
  /\ config \in Configurations
  /\ table = [n \in Nodes |-> table[n]]
  /\ \A m \in Masters :
       /\ table[m] = [i \in SlotsOf(m) |-> table[m][i]]
       /\ \A i \in SlotsOf(m) : SlotOK(Types, table[m][i])

TableStep ==
  /\ config' = config
  /\ table' = [n \in Nodes |-> table'[n]]
  /\ \A m \in Masters :
       /\ table'[m] = [i \in SlotsOf(m) |-> table'[m][i]]
       /\ \A i \in SlotsOf(m) : StepOK(Types, table[m][i], table'[m][i])

-----------------------------------------------------------------------------
LEMMA LeastExists ==
  ASSUME NEW S, S \subseteq Nat, S # {}
  PROVE  \E i \in S : \A j \in S : i <= j
<1> DEFINE Less == {ss \in Nat \X Nat : ss[1] < ss[2]}
<1>1. IsWellFoundedOn(OpToRel(<, Nat), Nat)
  BY NatLessThanWellFounded
<1>2. OpToRel(<, Nat) = Less
  BY DEF OpToRel
<1>3. IsWellFoundedOn(Less, Nat)
  BY <1>1, <1>2
<1>4. \A i, j \in Nat : <<j, i>> \notin Less => i <= j
  OBVIOUS
<1> HIDE DEF Less
<1>5. PICK i \in S : \A j \in S : <<j, i>> \notin Less
  BY <1>3, WFMin
<1> QED BY <1>4, <1>5

LEMMA GreatestExists ==
  ASSUME NEW N \in Nat, NEW S, S \subseteq 0..N, S # {}
  PROVE  \E i \in S : \A j \in S : j <= i
<1> DEFINE D == {N - j : j \in S}
<1>1. D \subseteq Nat
  <2>1. \A j \in 0..N : N - j \in Nat
    OBVIOUS
  <2> QED BY <2>1
<1>2. D # {}
  OBVIOUS
<1>3. \A j \in S : N - j \in D
  OBVIOUS
<1>4. \A d \in D : \E j \in S : d = N - j
  OBVIOUS
<1> HIDE DEF D
<1>5. PICK d \in D : \A e \in D : d <= e
  BY <1>1, <1>2, LeastExists
<1>6. PICK i \in S : d = N - i
  BY <1>4
<1>7. \A j \in S : N - i <= N - j
  BY <1>3, <1>5, <1>6
<1> QED BY <1>7

(* The slot a search of a whole table ends at is the node's, or is free.   *)
LEMMA FoundSlot ==
  ASSUME config \in Configurations, NEW n, NEW who, NEW address,
         Find(n, who, address, config.size) # 0
  PROVE  LET slot == table[n][Find(n, who, address, config.size)]
         IN slot.identity = who \/ (address # None /\ slot.address = address)
              \/ slot.timeLeft = 0
<1> DEFINE matching == Matching(n, who, address, config.size)
           free == Free(n, config.size)
<1>1. config.size \in Nat
  BY TablesAssumption
<1>2. matching \subseteq Nat /\ free \subseteq Nat
  BY <1>1 DEF Matching, Free
<1>3. ASSUME NEW S, S \subseteq Nat, S # {}
      PROVE  First(S) \in S
  BY <1>3, LeastExists DEF First
<1>4. CASE IndexHit(n, who)
  BY <1>4 DEF Find, IndexHit
<1>5. CASE ~IndexHit(n, who) /\ matching # {}
  <2>1. Find(n, who, address, config.size) \in matching
    <3>1. First(matching) \in matching
      BY <1>2, <1>3, <1>5
    <3> QED BY <1>5, <3>1 DEF Find
  <2> QED BY <2>1 DEF Matching
<1>6. CASE ~IndexHit(n, who) /\ matching = {}
  <2>1. free # {} /\ Find(n, who, address, config.size) = First(free)
    BY <1>6 DEF Find, FirstOrNone
  <2>2. First(free) \in free
    BY <1>2, <1>3, <2>1
  <2> QED BY <2>1, <2>2 DEF Free
<1> QED BY <1>4, <1>5, <1>6

-----------------------------------------------------------------------------
(* An assignment to members of a grant, with the time it leaves.           *)
LEMMA GrantSet ==
  ASSUME NEW g, GrantOK(g), NEW h,
         h = [requested |-> h.requested, granted |-> h.granted, canceled |-> h.canceled,
              cancelCount |-> h.cancelCount, timeLeft |-> h.timeLeft,
              logInterval |-> h.logInterval, receiving |-> h.receiving],
         h.granted \in BOOLEAN, h.timeLeft = 0
  PROVE  GrantOK(h)
<1>1. 0 \in 0..MaxTime
  BY TimesAssumption DEF MaxTime
<1> QED BY <1>1 DEF GrantOK

LEMMA GrantsEnd ==
  ASSUME NEW g, GrantOK(g)
  PROVE  /\ GrantOK(Cancelled(g)) /\ Cancelled(g).timeLeft = 0
         /\ GrantOK(Ended(g)) /\ Ended(g).timeLeft = 0
         /\ GrantOK([Ended(g) EXCEPT !.canceled = FALSE])
         /\ [Ended(g) EXCEPT !.canceled = FALSE].timeLeft = 0
<1>1. ASSUME NEW c, NEW k, NEW h,
             h = [g EXCEPT !.requested = FALSE, !.timeLeft = 0, !.canceled = c, !.cancelCount = k]
      PROVE  GrantOK(h) /\ h.timeLeft = 0
  <2>1. h = [requested |-> h.requested, granted |-> h.granted, canceled |-> h.canceled,
             cancelCount |-> h.cancelCount, timeLeft |-> h.timeLeft,
             logInterval |-> h.logInterval, receiving |-> h.receiving]
    BY <1>1 DEF GrantOK
  <2>2. h.granted = g.granted /\ h.timeLeft = 0
    BY <1>1 DEF GrantOK
  <2>3. g.granted \in BOOLEAN
    BY DEF GrantOK
  <2>4. h.granted \in BOOLEAN
    BY <2>2, <2>3, Zenon
  <2> QED BY <2>1, <2>2, <2>4, GrantSet
<1>2. ASSUME NEW h, h = Ended(g)
      PROVE  GrantOK(h) /\ h.timeLeft = 0
  <2>1. h = [requested |-> h.requested, granted |-> h.granted, canceled |-> h.canceled,
             cancelCount |-> h.cancelCount, timeLeft |-> h.timeLeft,
             logInterval |-> h.logInterval, receiving |-> h.receiving]
    BY <1>2 DEF GrantOK, Ended
  <2>2. h.granted = FALSE /\ h.timeLeft = 0
    BY <1>2 DEF GrantOK, Ended
  <2> QED BY <2>1, <2>2, GrantSet
<1>3. ASSUME NEW h, h = [Ended(g) EXCEPT !.canceled = FALSE]
      PROVE  GrantOK(h) /\ h.timeLeft = 0
  <2>1. h = [requested |-> h.requested, granted |-> h.granted, canceled |-> h.canceled,
             cancelCount |-> h.cancelCount, timeLeft |-> h.timeLeft,
             logInterval |-> h.logInterval, receiving |-> h.receiving]
    BY <1>3 DEF GrantOK, Ended
  <2>2. h.granted = FALSE /\ h.timeLeft = 0
    BY <1>3 DEF GrantOK, Ended
  <2> QED BY <2>1, <2>2, GrantSet
<1>4. \E c, k : Cancelled(g) = [g EXCEPT !.requested = FALSE, !.timeLeft = 0,
                                          !.canceled = c, !.cancelCount = k]
  BY Zenon DEF Cancelled
<1> QED BY <1>1, <1>2, <1>3, <1>4, Zenon

LEMMA GrantsAge ==
  ASSUME NEW g, GrantOK(g)
  PROVE  /\ GrantOK(GivenUp(Aged(g)))
         /\ g.timeLeft = 0 => GivenUp(Aged(g)).timeLeft = 0
<1>1. MaxTime \in Nat /\ EXPIRY \in Nat
  BY TimesAssumption DEF MaxTime
<1>2. GrantOK(Aged(g)) /\ (g.timeLeft = 0 => Aged(g).timeLeft = 0)
  BY <1>1 DEF GrantOK, Aged, Expired
<1>3. GrantOK([Ended(Aged(g)) EXCEPT !.canceled = FALSE])
      /\ [Ended(Aged(g)) EXCEPT !.canceled = FALSE].timeLeft = 0
  BY <1>2, GrantsEnd
<1> QED BY <1>2, <1>3 DEF GivenUp

(* A slot is freed only when all its grants expire in the same refresh.    *)
LEMMA NodeTimeCounts ==
  ASSUME TableInv, NEW slot, SlotOK(Types, slot)
  PROVE  /\ NodeTime(slot) \in Nat
         /\ NodeTime(slot) = 0 =>
              \A t \in Types : slot.grants[t].timeLeft = 0 \/ Expired(slot.grants[t])
<1> DEFINE granted == {t \in Types : slot.grants[t].granted}
           first == CHOOSE t \in granted : \A u \in granted : TypeIndex[t] <= TypeIndex[u]
           counted == {slot.grants[t].timeLeft : t \in granted} \cap (EXPIRY + 1)..MaxTime
           times == counted \cup {slot.grants[first].timeLeft}
           longest == CHOOSE x \in times : \A y \in times : y <= x
<1>1. MaxTime \in Nat /\ EXPIRY \in Nat
  BY TimesAssumption DEF MaxTime
<1>2. Types \subseteq {"ANNOUNCE", "SYNC", "DELAY_RESP"}
  BY TablesAssumption DEF TableInv, Types, TypeIndex
<1>3. \A t \in Types : /\ slot.grants[t].timeLeft \in 0..MaxTime
                       /\ slot.grants[t].granted \in BOOLEAN
                       /\ ~slot.grants[t].granted => slot.grants[t].timeLeft = 0
  BY DEF SlotOK, GrantOK
<1>4. NodeTime(slot) = IF granted = {} THEN 0 ELSE longest
  BY DEF NodeTime
<1>5. CASE granted = {}
  BY <1>3, <1>4, <1>5
<1>6. CASE granted # {}
  <2>1. first \in granted
    <3>1. granted \subseteq {"ANNOUNCE", "SYNC", "DELAY_RESP"}
      BY <1>2
    <3> HIDE DEF granted
    <3>2. \E t \in granted : \A u \in granted : TypeIndex[t] <= TypeIndex[u]
      <4>1. CASE "ANNOUNCE" \in granted
        BY <3>1, <4>1 DEF TypeIndex
      <4>2. CASE "ANNOUNCE" \notin granted /\ "SYNC" \in granted
        BY <3>1, <4>2 DEF TypeIndex
      <4>3. CASE granted = {"DELAY_RESP"}
        BY <4>3 DEF TypeIndex
      <4> QED BY <1>6, <3>1, <4>1, <4>2, <4>3
    <3> QED BY <3>2
  <2>2. times \subseteq 0..MaxTime /\ times # {}
    <3>1. slot.grants[first].timeLeft \in 0..MaxTime
      BY <1>3, <2>1
    <3> QED BY <1>1, <1>3, <3>1
  <2>3. longest \in times /\ \A y \in times : y <= longest
    <3> HIDE DEF times
    <3> QED BY <1>1, <2>2, GreatestExists
  <2>4. longest \in 0..MaxTime
    BY <2>2, <2>3
  <2>5. ASSUME longest = 0, NEW t \in Types
        PROVE  slot.grants[t].timeLeft = 0 \/ Expired(slot.grants[t])
    <3>1. CASE ~slot.grants[t].granted
      BY <1>3, <3>1
    <3>2. CASE slot.grants[t].granted /\ slot.grants[t].timeLeft > EXPIRY
      <4>1. slot.grants[t].timeLeft \in counted
        BY <1>1, <1>3, <3>2
      <4>2. slot.grants[t].timeLeft <= 0
        <5> HIDE DEF longest, counted
        <5> QED BY <2>3, <2>5, <4>1
      <4> QED BY <1>1, <1>3, <3>2, <4>2
    <3>3. CASE slot.grants[t].granted /\ ~(slot.grants[t].timeLeft > EXPIRY)
      BY <1>1, <1>3, <3>3 DEF Expired
    <3> QED BY <1>3, <3>1, <3>2, <3>3
  <2> HIDE DEF longest
  <2> QED BY <1>4, <1>6, <2>4, <2>5
<1> QED BY <1>5, <1>6

-----------------------------------------------------------------------------
LEMMA OneGrant ==
  ASSUME NEW types, NEW slot, SlotOK(types, slot), NEW t, NEW g,
         t \in types => GrantOK(g) /\ (slot.timeLeft = 0 => g.timeLeft = 0)
  PROVE  StepOK(types, slot, SetGrant(slot, t, g))
BY DEF SlotOK, StepOK, SetGrant

(* All grants of a slot at once. *)
LEMMA NewGrants ==
  ASSUME NEW types, NEW slot, SlotOK(types, slot), NEW new,
         new = [slot EXCEPT !.grants = new.grants],
         new.grants = [t \in types |-> new.grants[t]],
         \A t \in types : /\ GrantOK(new.grants[t])
                          /\ slot.timeLeft = 0 => new.grants[t].timeLeft = 0
  PROVE  StepOK(types, slot, new)
BY DEF SlotOK, StepOK

LEMMA SlotStays ==
  ASSUME NEW types, NEW slot, SlotOK(types, slot)
  PROVE  StepOK(types, slot, slot)
BY DEF StepOK

(* A step that concerns the tables of slaves, or none.                     *)
LEMMA MastersKeep ==
  ASSUME TableInv, config' = config, table' = [n \in Nodes |-> table'[n]],
         \A m \in Masters : table'[m] = table[m]
  PROVE  TableStep
BY SlotStays DEF TableInv, TableStep

LEMMA OneTable ==
  ASSUME TableInv, config' = config, NEW n, NEW T, table' = [table EXCEPT ![n] = T],
         n \in Masters => /\ T = [i \in SlotsOf(n) |-> T[i]]
                         /\ \A i \in SlotsOf(n) : StepOK(Types, table[n][i], T[i])
  PROVE  TableStep
<1>1. table' = [m \in Nodes |-> table'[m]]
  BY DEF TableInv
<1>2. ASSUME NEW m \in Masters
      PROVE  /\ table'[m] = [i \in SlotsOf(m) |-> table'[m][i]]
             /\ \A i \in SlotsOf(m) : StepOK(Types, table[m][i], table'[m][i])
  <2>1. CASE m = n
    <3>1. table'[m] = T
      BY <2>1 DEF TableInv, Nodes
    <3> QED BY <2>1, <3>1
  <2>2. CASE m # n
    <3>1. table'[m] = table[m]
      BY <2>2 DEF TableInv, Nodes
    <3> QED BY <3>1, SlotStays DEF TableInv
  <2> QED BY <2>1, <2>2
<1> QED BY <1>1, <1>2 DEF TableStep

LEMMA OneSlot ==
  ASSUME TableInv, config' = config, NEW n, NEW k, NEW S,
         table' = [table EXCEPT ![n] = [table[n] EXCEPT ![k] = S]],
         n \in Masters /\ k \in SlotsOf(n) => StepOK(Types, table[n][k], S)
  PROVE  TableStep
<1> DEFINE T == [table[n] EXCEPT ![k] = S]
<1>1. ASSUME n \in Masters
      PROVE  /\ T = [i \in SlotsOf(n) |-> T[i]]
             /\ \A i \in SlotsOf(n) : StepOK(Types, table[n][i], T[i])
  <2>1. table[n] = [i \in SlotsOf(n) |-> table[n][i]]
        /\ \A i \in SlotsOf(n) : SlotOK(Types, table[n][i])
    BY <1>1 DEF TableInv
  <2>2. \A i \in SlotsOf(n) : T[i] = IF i = k THEN S ELSE table[n][i]
    BY <2>1
  <2>3. T = [i \in SlotsOf(n) |-> T[i]]
    BY <2>1
  <2> HIDE DEF T
  <2> QED BY <1>1, <2>1, <2>2, <2>3, SlotStays
<1> HIDE DEF T
<1>2. table' = [table EXCEPT ![n] = T]
  BY DEF T
<1> QED BY <1>1, <1>2, OneTable

-----------------------------------------------------------------------------
(* A slot that is freed has no grant left that would not expire with it.   *)
LEMMA RefreshedSlot ==
  ASSUME TableInv, NEW slot, SlotOK(Types, slot), NEW S, NEW i, NEW aged, NEW new,
         \A t \in Types : <<i, t>> \in S <=> Expired(slot.grants[t]),
         aged = Refreshed(slot, [t \in Types |-> GivenUp(Aged(slot.grants[t]))]),
         new = [aged EXCEPT !.grants =
                  [t \in Types |-> IF <<i, t>> \in S THEN Cancelled(@[t]) ELSE @[t]]]
  PROVE  StepOK(Types, slot, new)
<1> DEFINE G == [t \in Types |-> IF <<i, t>> \in S THEN Cancelled(GivenUp(Aged(slot.grants[t])))
                                 ELSE GivenUp(Aged(slot.grants[t]))]
<1>1. /\ new = [identity |-> new.identity, address |-> new.address,
                timeLeft |-> new.timeLeft, grants |-> new.grants]
      /\ new.address = slot.address
      /\ new.timeLeft = NodeTime(slot)
      /\ new.identity \in {None, slot.identity}
      /\ new.grants = G
  BY DEF SlotOK, Refreshed
<1>2. ASSUME NEW t \in Types
      PROVE  /\ GrantOK(G[t])
             /\ Expired(slot.grants[t]) \/ slot.grants[t].timeLeft = 0 => G[t].timeLeft = 0
  <2>1. GrantOK(slot.grants[t])
    BY DEF SlotOK
  <2>2. /\ GrantOK(GivenUp(Aged(slot.grants[t])))
        /\ slot.grants[t].timeLeft = 0 => GivenUp(Aged(slot.grants[t])).timeLeft = 0
    BY <2>1, GrantsAge
  <2>3. /\ GrantOK(Cancelled(GivenUp(Aged(slot.grants[t]))))
        /\ Cancelled(GivenUp(Aged(slot.grants[t]))).timeLeft = 0
    BY <2>2, GrantsEnd
  <2>4. G[t] = IF Expired(slot.grants[t]) THEN Cancelled(GivenUp(Aged(slot.grants[t])))
               ELSE GivenUp(Aged(slot.grants[t]))
    OBVIOUS
  <2> HIDE DEF G
  <2> QED BY <2>2, <2>3, <2>4, Zenon
<1>3. NodeTime(slot) \in Nat
      /\ (NodeTime(slot) = 0 =>
            \A t \in Types : slot.grants[t].timeLeft = 0 \/ Expired(slot.grants[t]))
  BY NodeTimeCounts
<1>4. new.grants = [t \in Types |-> new.grants[t]]
  BY <1>1
<1>5. \A t \in Types : GrantOK(new.grants[t])
  <2> HIDE DEF G
  <2> QED BY <1>1, <1>2
<1>6. new.timeLeft = 0 => \A t \in Types : new.grants[t].timeLeft = 0
  <2> HIDE DEF G
  <2> QED BY <1>1, <1>2, <1>3
<1>7. new.identity # None => new.address = new.identity
  BY <1>1 DEF SlotOK
<1>8. new.timeLeft \in Nat
  BY <1>1, <1>3
<1>9. SlotOK(Types, new)
  BY <1>1, <1>4, <1>5, <1>6, <1>7, <1>8 DEF SlotOK
<1> QED BY <1>1, <1>9 DEF StepOK

LEMMA RefreshKeeps ==
  ASSUME TableInv, NEW m \in Masters, RefreshMaster(m)
  PROVE  TableStep
<1> DEFINE expired == {x \in SlotsOf(m) \X Types : Expired(table[m][x[1]].grants[x[2]])}
           aged == [i \in SlotsOf(m) |-> Refreshed(table[m][i],
                      [t \in Types |-> GivenUp(Aged(table[m][i].grants[t]))])]
           T == CancelSlots(aged, expired)
<1>1. config' = config /\ table' = [table EXCEPT ![m] = T]
  BY DEF RefreshMaster
<1>2. ASSUME NEW i \in SlotsOf(m)
      PROVE  StepOK(Types, table[m][i], T[i])
  <2>1. SlotOK(Types, table[m][i])
    BY DEF TableInv
  <2>2. \A t \in Types : <<i, t>> \in expired <=> Expired(table[m][i].grants[t])
    OBVIOUS
  <2>3. T[i] = [aged[i] EXCEPT !.grants =
                  [t \in Types |-> IF <<i, t>> \in expired THEN Cancelled(@[t]) ELSE @[t]]]
    <3> HIDE DEF expired
    <3> QED BY DEF CancelSlots
  <2>4. aged[i] = Refreshed(table[m][i], [t \in Types |-> GivenUp(Aged(table[m][i].grants[t]))])
    OBVIOUS
  <2> HIDE DEF expired, aged, T
  <2> QED BY <2>1, <2>2, <2>3, <2>4, RefreshedSlot
<1>3. T = [i \in SlotsOf(m) |-> T[i]]
  <2> HIDE DEF expired
  <2> QED BY DEF CancelSlots
<1> HIDE DEF T
<1> QED BY <1>1, <1>2, <1>3, OneTable

LEMMA TakenSlot ==
  ASSUME NEW types, NEW n, NEW i, SlotOK(types, table[n][i]), NEW who
  PROVE  /\ SlotOK(types, Taken(n, i, who)) /\ Taken(n, i, who).address = who
         /\ Taken(n, i, who).timeLeft = table[n][i].timeLeft
<1> DEFINE old == table[n][i]
           slot == Taken(n, i, who)
<1>1. slot = [old EXCEPT !.identity = who, !.address = who]
  BY DEF Taken
<1>2. SlotOK(types, old)
  OBVIOUS
<1> HIDE DEF old, slot
<1>3. /\ slot = [identity |-> who, address |-> who,
                 timeLeft |-> old.timeLeft, grants |-> old.grants]
      /\ slot.timeLeft = old.timeLeft /\ slot.grants = old.grants
      /\ slot.address = who
  BY <1>1, <1>2 DEF SlotOK
<1>4. SlotOK(types, slot)
  BY <1>2, <1>3 DEF SlotOK
<1>5. SlotOK(types, slot) /\ slot.address = who /\ slot.timeLeft = old.timeLeft
  BY <1>3, <1>4
<1> QED BY <1>5 DEF old, slot

(* What a request that is granted, or denied, makes of a grant.            *)
LEMMA GrantGiven ==
  ASSUME NEW g, GrantOK(g), NEW l, NEW h,
         h = [g EXCEPT !.requested = TRUE, !.granted = TRUE, !.canceled = FALSE,
                !.cancelCount = 0, !.timeLeft = ServedTime, !.logInterval = l]
  PROVE  GrantOK(h)
<1>1. h = [requested |-> h.requested, granted |-> h.granted, canceled |-> h.canceled,
           cancelCount |-> h.cancelCount, timeLeft |-> h.timeLeft,
           logInterval |-> h.logInterval, receiving |-> h.receiving]
  BY DEF GrantOK
<1>2. h.granted = TRUE /\ h.timeLeft = ServedTime
  BY DEF GrantOK
<1>3. ServedTime \in 0..MaxTime
  BY TimesAssumption DEF ServedTime, MaxTime
<1> QED BY <1>1, <1>2, <1>3 DEF GrantOK

LEMMA GrantDenied ==
  ASSUME NEW g, GrantOK(g), NEW h, h = [g EXCEPT !.requested = TRUE]
  PROVE  GrantOK(h) /\ h.timeLeft = g.timeLeft
<1>1. h = [requested |-> h.requested, granted |-> h.granted, canceled |-> h.canceled,
           cancelCount |-> h.cancelCount, timeLeft |-> h.timeLeft,
           logInterval |-> h.logInterval, receiving |-> h.receiving]
  BY DEF GrantOK
<1>2. h.granted = g.granted /\ h.timeLeft = g.timeLeft
  BY DEF GrantOK
<1> QED BY <1>1, <1>2, Zenon DEF GrantOK

LEMMA RequestKeeps ==
  ASSUME TableInv, NEW m \in Masters, NEW msg, HandleRequest(m, msg)
  PROVE  TableStep
<1> DEFINE i == Find(m, msg.from, msg.from, config.size)
           slot == Taken(m, i, msg.from)
           g == slot.grants[msg.type]
           denied == [g EXCEPT !.requested = TRUE]
           given == [g EXCEPT !.requested = TRUE, !.granted = TRUE, !.canceled = FALSE,
                       !.cancelCount = 0, !.timeLeft = ServedTime,
                       !.logInterval = msg.interval]
           S == IF msg.interval >= config.minInterval
                THEN SetGrant(Reserved(slot), msg.type, given)
                ELSE SetGrant(slot, msg.type, denied)
<1>1. CASE i = 0
  <2>1. config' = config /\ table' = table
    BY <1>1 DEF HandleRequest, AnswerWithoutSlot
  <2> QED BY <2>1, MastersKeep DEF TableInv
<1>2. CASE i # 0
  <2>1. config' = config /\ table' = [table EXCEPT ![m] = [table[m] EXCEPT ![i] = S]]
    BY <1>2 DEF HandleRequest, GrantRequest
  <2>2. ASSUME i \in SlotsOf(m)
        PROVE  StepOK(Types, table[m][i], S)
    <3> DEFINE old == table[m][i]
    <3>1. SlotOK(Types, old)
      BY <2>2 DEF TableInv
    <3>2. old.identity = msg.from \/ old.address = msg.from \/ old.timeLeft = 0
      BY <1>2, FoundSlot DEF TableInv
    <3>3. old = table[m][i] /\ slot = Taken(m, i, msg.from)
      OBVIOUS
    <3>5. msg.from \in {old.address, None} \/ old.timeLeft = 0
      BY <3>1, <3>2 DEF SlotOK
    <3> HIDE DEF slot, old, i
    <3>4. /\ SlotOK(Types, slot) /\ slot.address = msg.from
          /\ slot.timeLeft = old.timeLeft
      BY <3>1, <3>3, TakenSlot
    <3>6. ServedTime + GRACE \in Nat \ {0}
      BY TimesAssumption DEF ServedTime
    <3>7. SlotOK(Types, Reserved(slot)) /\ Reserved(slot).timeLeft # 0
          /\ Reserved(slot).address = msg.from /\ Reserved(slot).grants = slot.grants
      BY <3>4, <3>6 DEF SlotOK, Reserved
    <3>8. ASSUME msg.type \in Types
          PROVE  GrantOK(g) /\ (slot.timeLeft = 0 => g.timeLeft = 0)
      BY <3>4, <3>8 DEF SlotOK
    <3> HIDE DEF g
    <3>9. ASSUME msg.type \in Types
          PROVE  GrantOK(given) /\ GrantOK(denied) /\ (slot.timeLeft = 0 => denied.timeLeft = 0)
      BY <3>8, <3>9, GrantGiven, GrantDenied
    <3> HIDE DEF given, denied
    <3>10. StepOK(Types, Reserved(slot), SetGrant(Reserved(slot), msg.type, given))
      BY <3>7, <3>9, OneGrant
    <3>11. StepOK(Types, slot, SetGrant(slot, msg.type, denied))
      BY <3>4, <3>9, OneGrant
    <3>12. SlotOK(Types, S)
      BY <3>10, <3>11 DEF StepOK
    <3>13. S.address = msg.from
      <4>1. SetGrant(slot, msg.type, denied).address = slot.address
        BY <3>4 DEF SetGrant, SlotOK
      <4>2. SetGrant(Reserved(slot), msg.type, given).address = Reserved(slot).address
        BY <3>7 DEF SetGrant, SlotOK
      <4> QED BY <3>4, <3>7, <4>1, <4>2
    <3> HIDE DEF S
    <3>14. StepOK(Types, old, S)
      BY <3>5, <3>12, <3>13 DEF StepOK
    <3> QED BY <3>14 DEF old
  <2> HIDE DEF S, i
  <2> QED BY <2>1, <2>2, OneSlot
<1> QED BY <1>1, <1>2

(* A grant that a message ends.                                            *)
LEMMA EndKeeps ==
  ASSUME TableInv, config' = config, NEW n, NEW i, NEW t, NEW h,
         n \in Masters /\ i \in SlotsOf(n) /\ t \in Types => GrantOK(h) /\ h.timeLeft = 0
  PROVE  table' = [table EXCEPT ![n][i].grants[t] = h] => TableStep
<1> DEFINE S == SetGrant(table[n][i], t, h)
<1>1. ASSUME table' = [table EXCEPT ![n][i].grants[t] = h]
      PROVE  table' = [table EXCEPT ![n] = [table[n] EXCEPT ![i] = S]]
  BY <1>1 DEF SetGrant
<1>2. ASSUME n \in Masters, i \in SlotsOf(n)
      PROVE  StepOK(Types, table[n][i], S)
  <2>1. SlotOK(Types, table[n][i])
    BY <1>2 DEF TableInv
  <2> QED BY <1>2, <2>1, OneGrant
<1> HIDE DEF S
<1>3. ASSUME table' = [table EXCEPT ![n] = [table[n] EXCEPT ![i] = S]]
      PROVE  TableStep
  BY <1>2, <1>3, OneSlot
<1> QED BY <1>1, <1>3

LEMMA CancelKeeps ==
  ASSUME TableInv, NEW n, NEW msg, HandleCancel(n, msg)
  PROVE  TableStep
<1> DEFINE i == Find(n, msg.from, msg.from, config.size)
           g == table[n][i].grants[msg.type]
           h == Ended(g)
<1>1. /\ config' = config
      /\ table' = table \/ table' = [table EXCEPT ![n][i].grants[msg.type] = h]
  BY DEF HandleCancel
<1>2. ASSUME n \in Masters, i \in SlotsOf(n), msg.type \in Types
      PROVE  GrantOK(h) /\ h.timeLeft = 0
  <2>1. GrantOK(g)
    BY <1>2 DEF TableInv, SlotOK
  <2> QED BY <2>1, GrantsEnd
<1> HIDE DEF i, g, h
<1>3. CASE table' = table
  BY <1>1, <1>3, MastersKeep DEF TableInv
<1>4. CASE table' = [table EXCEPT ![n][i].grants[msg.type] = h]
  BY <1>1, <1>2, <1>4, EndKeeps
<1> QED BY <1>1, <1>3, <1>4

LEMMA AckKeeps ==
  ASSUME TableInv, NEW n, NEW msg, HandleAck(n, msg)
  PROVE  TableStep
<1> DEFINE i == Find(n, msg.from, msg.from, config.size)
           g == table[n][i].grants[msg.type]
           h == [Ended(g) EXCEPT !.canceled = FALSE]
<1>1. config' = config /\ table' = [table EXCEPT ![n][i].grants[msg.type] = h]
  BY DEF HandleAck
<1>2. ASSUME n \in Masters, i \in SlotsOf(n), msg.type \in Types
      PROVE  GrantOK(h) /\ h.timeLeft = 0
  <2>1. GrantOK(g)
    BY <1>2 DEF TableInv, SlotOK
  <2> QED BY <2>1, GrantsEnd
<1> HIDE DEF i, g, h
<1> QED BY <1>1, <1>2, EndKeeps

LEMMA LeaveKeeps ==
  ASSUME TableInv, NEW m \in Masters, NEW state, LeaveMaster(m, state)
  PROVE  TableStep
<1> DEFINE S == {x \in SlotsOf(m) \X Types : table[m][x[1]].grants[x[2]].granted}
           T == CancelSlots(table[m], S)
<1>1. config' = config /\ table' = [table EXCEPT ![m] = T]
  BY DEF LeaveMaster
<1> HIDE DEF S
<1>2. table[m] = [i \in SlotsOf(m) |-> table[m][i]]
  BY DEF TableInv
<1>3. T = [i \in SlotsOf(m) |-> T[i]]
  BY <1>2 DEF CancelSlots
<1>4. ASSUME NEW i \in SlotsOf(m)
      PROVE  StepOK(Types, table[m][i], T[i])
  <2> DEFINE old == table[m][i]
             G == [t \in Types |-> IF <<i, t>> \in S THEN Cancelled(old.grants[t])
                                   ELSE old.grants[t]]
  <2>1. SlotOK(Types, old)
    BY DEF TableInv
  <2>2. T[i] = [old EXCEPT !.grants = G]
    BY <1>2 DEF CancelSlots
  <2>3. \A t \in Types : /\ GrantOK(G[t])
                         /\ old.timeLeft = 0 => G[t].timeLeft = 0
    <3>1. ASSUME NEW t \in Types
          PROVE  GrantOK(G[t]) /\ (old.timeLeft = 0 => G[t].timeLeft = 0)
      <4>1. GrantOK(old.grants[t]) /\ (old.timeLeft = 0 => old.grants[t].timeLeft = 0)
        BY <2>1 DEF SlotOK
      <4>2. GrantOK(Cancelled(old.grants[t])) /\ Cancelled(old.grants[t]).timeLeft = 0
        BY <4>1, GrantsEnd
      <4>3. G[t] = Cancelled(old.grants[t]) \/ G[t] = old.grants[t]
        OBVIOUS
      <4> HIDE DEF G, old
      <4> QED BY <4>1, <4>2, <4>3
    <3> QED BY <3>1
  <2>4. G = [t \in Types |-> G[t]]
    OBVIOUS
  <2> HIDE DEF T, G, old
  <2>5. T[i].grants = G /\ T[i] = [old EXCEPT !.grants = T[i].grants]
    BY <2>1, <2>2 DEF SlotOK
  <2>6. StepOK(Types, old, T[i])
    BY <2>1, <2>3, <2>4, <2>5, NewGrants
  <2> QED BY <2>6 DEF old
<1> HIDE DEF T
<1> QED BY <1>1, <1>3, <1>4, OneTable

LEMMA EmptySlot ==
  ASSUME config \in Configurations, NEW m \in Masters, NEW i \in SlotsOf(m)
  PROVE  SlotOK(Types, EmptyTable(m)[i]) /\ EmptyTable(m)[i].address = None
<1>1. EmptyTable(m)[i] = [identity |-> None, address |-> None, timeLeft |-> 0,
                          grants |-> [t \in Types |-> NoGrant]]
  BY NodesAssumption DEF EmptyTable, Destination
<1>2. GrantOK(NoGrant) /\ NoGrant.timeLeft = 0
  BY TimesAssumption DEF GrantOK, NoGrant, MaxTime
<1> HIDE DEF SlotsOf
<1> QED BY <1>1, <1>2 DEF SlotOK

LEMMA InitializeKeeps ==
  ASSUME TableInv, NEW n, Initialized(n), config' = config
  PROVE  TableStep
<1> DEFINE T == EmptyTable(n)
<1>1. table' = [table EXCEPT ![n] = T]
  BY DEF Initialized
<1>2. ASSUME n \in Masters
      PROVE  /\ T = [i \in SlotsOf(n) |-> T[i]]
             /\ \A i \in SlotsOf(n) : StepOK(Types, table[n][i], T[i])
  <2>1. T = [i \in SlotsOf(n) |-> T[i]]
    BY DEF EmptyTable
  <2> HIDE DEF T
  <2>2. \A i \in SlotsOf(n) : SlotOK(Types, T[i]) /\ T[i].address = None
    BY <1>2, EmptySlot DEF T, TableInv
  <2> QED BY <2>1, <2>2 DEF StepOK
<1> HIDE DEF T
<1> QED BY <1>1, <1>2, OneTable

-----------------------------------------------------------------------------
LEMMA StepOfTables ==
  ASSUME TableInv, Next
  PROVE  TableStep
<1>1. ASSUME NEW s \in Slaves, config' = config,
             table' = [n \in Nodes |-> table'[n]],
             \A n \in Nodes \ {s} : table'[n] = table[n]
      PROVE  TableStep
  BY <1>1, MastersKeep, NodesAssumption DEF Nodes
<1>2. ASSUME config' = config, table' = table
      PROVE  TableStep
  BY <1>2, MastersKeep DEF TableInv
<1>3. ASSUME NEW n \in Present, Refresh(n)
      PROVE  TableStep
  <2>1. CASE n \in Slaves /\ RefreshSlave(n)
    <3>1. \E T : table' = [table EXCEPT ![n] = T]
      BY <2>1, Zenon DEF RefreshSlave
    <3>2. config' = config
      BY <2>1 DEF RefreshSlave
    <3> QED BY <1>1, <2>1, <3>1, <3>2 DEF TableInv
  <2>2. CASE n \in Masters /\ RefreshMaster(n)
    BY <2>2, RefreshKeeps
  <2> QED BY <1>3, <2>1, <2>2 DEF Refresh
<1>4. ASSUME EndRound
      PROVE  TableStep
  BY <1>2, <1>4 DEF EndRound
<1>5. ASSUME NEW msg, HandleSignaling(msg)
      PROVE  TableStep
  <2> DEFINE n == msg.to
  <2>1. CASE n \in Masters /\ HandleRequest(n, msg)
    BY <2>1, RequestKeeps
  <2>2. CASE n \in Slaves /\ HandleGrant(n, msg)
    <3>1. \E i, S : table' = [table EXCEPT ![n][i] = S]
      BY <2>2, Zenon DEF HandleGrant
    <3>2. config' = config
      BY <2>2 DEF HandleGrant
    <3> QED BY <1>1, <2>2, <3>1, <3>2 DEF TableInv
  <2>3. CASE HandleCancel(n, msg)
    BY <2>3, CancelKeeps
  <2>4. CASE HandleAck(n, msg)
    BY <2>4, AckKeeps
  <2>5. CASE IgnoreSignal(n, msg)
    BY <1>2, <2>5 DEF IgnoreSignal, Ignore
  <2> QED BY <1>5, <2>1, <2>2, <2>3, <2>4, <2>5 DEF HandleSignaling
<1>6. ASSUME NEW msg, AckWithoutSlot(msg.to, msg)
      PROVE  TableStep
  BY <1>6, InitializeKeeps DEF AckWithoutSlot
<1>7. ASSUME NEW msg, Lose(msg)
      PROVE  TableStep
  BY <1>2, <1>7 DEF Lose, Ignore
<1>8. ASSUME NEW s \in Slaves, NEW m \in Masters, Messages(s, m)
      PROVE  TableStep
  <2>1. config' = config
    BY <1>8 DEF Messages, HearTiming, HearAnnounce
  <2>2. \E i, t, v : table' = [table EXCEPT ![s][i].grants[t].receiving = v]
    <3>1. ASSUME NEW t, NEW mark, HearTiming(s, m, t, mark)
          PROVE  \E i : Receive(s, i, t, mark)
      BY <3>1, Zenon DEF HearTiming
    <3>2. ASSUME NEW mark, HearAnnounce(s, m, mark)
          PROVE  \E i : Receive(s, i, "ANNOUNCE", mark)
      BY <3>2, Zenon DEF HearAnnounce
    <3>3. PICK i, t, mark : Receive(s, i, t, mark)
      BY <1>8, <3>1, <3>2, Zenon DEF Messages
    <3> DEFINE v == mark /\ config.keepalive
    <3>4. table' = [table EXCEPT ![s][i].grants[t].receiving = v]
      BY <3>3, Zenon DEF Receive
    <3> HIDE DEF v
    <3> QED BY <3>4
  <2> QED BY <1>1, <2>1, <2>2 DEF TableInv
<1>9. ASSUME NEW m \in Masters, BecomeMaster(m) \/ InitializeMaster(m)
      PROVE  TableStep
  <2>1. CASE BecomeMaster(m)
    BY <1>2, <2>1 DEF BecomeMaster
  <2>2. CASE InitializeMaster(m)
    BY <2>2, InitializeKeeps DEF InitializeMaster
  <2> QED BY <1>9, <2>1, <2>2
<1>10. ASSUME Disturbance
       PROVE  TableStep
  <2>1. ASSUME NEW s \in Slaves, LeaveSlave(s)
        PROVE  TableStep
    <3>1. \E T : table' = [table EXCEPT ![s] = T]
      BY <2>1, Zenon DEF LeaveSlave
    <3> QED BY <1>1, <2>1, <3>1 DEF LeaveSlave, TableInv
  <2>2. ASSUME NEW s \in Slaves, RestartSlave(s)
        PROVE  TableStep
    BY <2>2, InitializeKeeps DEF RestartSlave
  <2>3. ASSUME NEW s \in Slaves, UpdateGrantTable(s)
        PROVE  TableStep
    <3>1. \E T : table' = [table EXCEPT ![s] = T]
      BY <2>3, Zenon DEF UpdateGrantTable
    <3> QED BY <1>1, <2>3, <3>1 DEF UpdateGrantTable, TableInv
  <2> QED BY <1>10, <2>1, <2>2, <2>3, LeaveKeeps DEF Disturbance
<1> QED BY <1>3, <1>4, <1>5, <1>6, <1>7, <1>8, <1>9, <1>10 DEF Next, Handle

(* A slot without time left has no grant with time left, nor has a grant   *)
(* that is not there: what refreshUnicastGrants() frees is free.           *)
THEOREM TableInvariant == Spec => []TableInv
<1>1. Init => TableInv
  <2> SUFFICES ASSUME Init PROVE TableInv
    OBVIOUS
  <2>1. config \in Configurations /\ table = [n \in Nodes |-> EmptyTable(n)]
    BY DEF Init
  <2>2. ASSUME NEW m \in Masters
        PROVE  /\ table[m] = [i \in SlotsOf(m) |-> table[m][i]]
               /\ \A i \in SlotsOf(m) : SlotOK(Types, table[m][i])
    <3>1. table[m] = EmptyTable(m)
      BY <2>1 DEF Nodes
    <3>2. EmptyTable(m) = [i \in SlotsOf(m) |-> EmptyTable(m)[i]]
      BY DEF EmptyTable
    <3> QED BY <2>1, <3>1, <3>2, EmptySlot
  <2> QED BY <2>1, <2>2 DEF TableInv
<1>2. TableInv /\ [Next]_vars => TableInv'
  <2>1. ASSUME TableInv, TableStep
        PROVE  TableInv'
    BY <2>1 DEF TableInv, TableStep, StepOK, Nodes, SlotsOf, Types
  <2>2. ASSUME TableInv, UNCHANGED vars
        PROVE  TableInv'
    BY <2>2 DEF TableInv, vars, Nodes, SlotsOf, Types
  <2> QED BY <2>1, <2>2, StepOfTables
<1> QED BY <1>1, <1>2, PTL DEF Spec

(* No request takes a slot away from a node whose grants have time left,   *)
(* however many slaves compete for however few slots.                      *)
THEOREM NothingIsEvicted == Spec => NoEviction
<1> DEFINE Kept ==
      \A m \in Masters : \A i \in SlotsOf(m) :
         /\ table'[m][i].address # table[m][i].address
         /\ table'[m][i].address # None
         => \A t \in Types : table[m][i].grants[t].timeLeft = 0
<1>1. ASSUME TableInv, TableStep
      PROVE  Kept
  BY <1>1 DEF TableInv, TableStep, StepOK, SlotOK
<1>2. TableInv /\ [Next]_vars => [Kept]_vars
  BY <1>1, StepOfTables
<1> QED BY <1>2, TableInvariant, PTL DEF Spec, NoEviction

-----------------------------------------------------------------------------
(* What a step leaves of a grant unless it gives it: no more time, and no  *)
(* cancellation taken back.                                                *)
Fades(g, h) ==
  h.granted => g.granted /\ h.timeLeft <= g.timeLeft /\ (g.canceled => h.canceled)

(* A record with the members of a grant. *)
IsGrant(h) ==
  h = [requested |-> h.requested, granted |-> h.granted, canceled |-> h.canceled,
       cancelCount |-> h.cancelCount, timeLeft |-> h.timeLeft,
       logInterval |-> h.logInterval, receiving |-> h.receiving]

LEMMA FadesStays ==
  ASSUME NEW g, GrantOK(g)
  PROVE  Fades(g, g)
<1>1. g.timeLeft <= g.timeLeft
  BY TimesAssumption DEF GrantOK, MaxTime
<1> QED BY <1>1, Zenon DEF Fades

LEMMA FadesFurther ==
  ASSUME NEW f, NEW g, NEW h, GrantOK(f), GrantOK(g), GrantOK(h), Fades(f, g), Fades(g, h)
  PROVE  Fades(f, h)
<1>1. g.timeLeft <= f.timeLeft /\ h.timeLeft <= g.timeLeft => h.timeLeft <= f.timeLeft
  BY TimesAssumption DEF GrantOK, MaxTime
<1> QED BY <1>1, Zenon DEF Fades

(* A grant that is not there, or that has no time left, has faded.         *)
LEMMA FadesAway ==
  ASSUME NEW g, GrantOK(g), NEW h, IsGrant(h), h.timeLeft = 0,
         h.granted = FALSE \/ (h.granted = g.granted /\ (g.canceled => h.canceled))
  PROVE  GrantOK(h) /\ Fades(g, h)
<1>1. g.granted \in BOOLEAN /\ 0 <= g.timeLeft /\ 0 \in 0..MaxTime
  BY TimesAssumption DEF GrantOK, MaxTime
<1>2. h.granted \in BOOLEAN
  BY <1>1, Zenon
<1>3. GrantOK(h)
  BY <1>1, <1>2 DEF GrantOK, IsGrant
<1>4. Fades(g, h)
  BY <1>1, Zenon DEF Fades
<1> QED BY <1>3, <1>4

LEMMA RequestedFades ==
  ASSUME NEW g, GrantOK(g)
  PROVE  /\ GrantOK(Requested(g)) /\ Fades(g, Requested(g))
         /\ Requested(g).requested = TRUE /\ Requested(g).granted = FALSE
<1>1. ASSUME NEW h, h = Requested(g)
      PROVE  IsGrant(h) /\ h.timeLeft = 0 /\ h.granted = FALSE /\ h.requested = TRUE
  BY <1>1 DEF Requested, GrantOK, IsGrant
<1> QED BY <1>1, FadesAway

LEMMA EndedFades ==
  ASSUME NEW g, GrantOK(g)
  PROVE  /\ GrantOK(Ended(g)) /\ Fades(g, Ended(g)) /\ Ended(g).granted = FALSE
         /\ GrantOK([Ended(g) EXCEPT !.canceled = FALSE])
         /\ Fades(g, [Ended(g) EXCEPT !.canceled = FALSE])
         /\ [Ended(g) EXCEPT !.canceled = FALSE].granted = FALSE
<1>1. ASSUME NEW h, h = Ended(g)
      PROVE  IsGrant(h) /\ h.timeLeft = 0 /\ h.granted = FALSE
  BY <1>1 DEF Ended, GrantOK, IsGrant
<1>2. ASSUME NEW h, h = [Ended(g) EXCEPT !.canceled = FALSE]
      PROVE  IsGrant(h) /\ h.timeLeft = 0 /\ h.granted = FALSE
  BY <1>2 DEF Ended, GrantOK, IsGrant
<1> QED BY <1>1, <1>2, FadesAway

LEMMA CancelledFades ==
  ASSUME NEW g, GrantOK(g)
  PROVE  GrantOK(Cancelled(g)) /\ Fades(g, Cancelled(g))
<1>1. ASSUME NEW h, h = Cancelled(g)
      PROVE  /\ IsGrant(h) /\ h.timeLeft = 0 /\ h.granted = g.granted
             /\ g.canceled => h.canceled
  <2>1. PICK c, k : /\ h = [g EXCEPT !.requested = FALSE, !.timeLeft = 0,
                                     !.canceled = c, !.cancelCount = k]
                    /\ g.canceled => c = TRUE
    BY <1>1, Zenon DEF Cancelled
  <2>2. IsGrant(h) /\ h.timeLeft = 0 /\ h.granted = g.granted /\ h.canceled = c
    BY <2>1 DEF GrantOK, IsGrant
  <2> QED BY <2>1, <2>2, Zenon
<1> QED BY <1>1, FadesAway, Zenon

(* What does not touch the grant itself.                                   *)
LEMMA SameGrant ==
  ASSUME NEW g, GrantOK(g), NEW h, IsGrant(h), h.granted = g.granted,
         h.canceled = g.canceled, h.timeLeft = g.timeLeft
  PROVE  GrantOK(h) /\ Fades(g, h)
<1>1. g.granted \in BOOLEAN /\ g.timeLeft \in 0..MaxTime /\ g.timeLeft <= g.timeLeft
      /\ (~g.granted => g.timeLeft = 0)
  BY TimesAssumption DEF GrantOK, MaxTime
<1>2. h.granted \in BOOLEAN /\ h.timeLeft \in 0..MaxTime /\ (~h.granted => h.timeLeft = 0)
  BY <1>1, Zenon
<1>3. GrantOK(h)
  BY <1>2 DEF GrantOK, IsGrant
<1> QED BY <1>1, <1>3, Zenon DEF Fades

LEMMA DeniedFades ==
  ASSUME NEW g, GrantOK(g)
  PROVE  GrantOK(Denied(g)) /\ Fades(g, Denied(g))
<1>1. ASSUME NEW l, NEW h, h = [g EXCEPT !.logInterval = l, !.requested = FALSE]
      PROVE  /\ IsGrant(h) /\ h.granted = g.granted
             /\ h.canceled = g.canceled /\ h.timeLeft = g.timeLeft
  BY <1>1 DEF GrantOK, IsGrant
<1>2. \E l : Denied(g) = [g EXCEPT !.logInterval = l, !.requested = FALSE]
  BY Zenon DEF Denied
<1> QED BY <1>1, <1>2, SameGrant, Zenon

LEMMA ReceivingFades ==
  ASSUME NEW g, GrantOK(g), NEW v
  PROVE  /\ GrantOK([g EXCEPT !.receiving = v]) /\ Fades(g, [g EXCEPT !.receiving = v])
         /\ [g EXCEPT !.receiving = v].granted = g.granted
         /\ [g EXCEPT !.receiving = v].timeLeft = g.timeLeft
<1>1. ASSUME NEW h, h = [g EXCEPT !.receiving = v]
      PROVE  /\ IsGrant(h) /\ h.granted = g.granted
             /\ h.canceled = g.canceled /\ h.timeLeft = g.timeLeft
  BY <1>1 DEF GrantOK, IsGrant
<1> QED BY <1>1, SameGrant

(* toState() out of SLAVE, and a reload. *)
LEMMA TimeTakenFades ==
  ASSUME NEW g, GrantOK(g)
  PROVE  /\ GrantOK([g EXCEPT !.timeLeft = 0]) /\ Fades(g, [g EXCEPT !.timeLeft = 0])
         /\ GrantOK([g EXCEPT !.timeLeft = 0, !.logInterval = 0])
         /\ Fades(g, [g EXCEPT !.timeLeft = 0, !.logInterval = 0])
<1>1. ASSUME NEW h, h = [g EXCEPT !.timeLeft = 0] \/ h = [g EXCEPT !.timeLeft = 0, !.logInterval = 0]
      PROVE  /\ IsGrant(h) /\ h.timeLeft = 0 /\ h.granted = g.granted /\ h.canceled = g.canceled
  BY <1>1 DEF GrantOK, IsGrant
<1>2. ASSUME NEW h, h = [g EXCEPT !.timeLeft = 0] \/ h = [g EXCEPT !.timeLeft = 0, !.logInterval = 0]
      PROVE  GrantOK(h) /\ Fades(g, h)
  BY <1>1, <1>2, FadesAway, Zenon
<1> QED BY <1>2

LEMMA AgedFades ==
  ASSUME NEW g, GrantOK(g)
  PROVE  /\ GrantOK(Aged(g)) /\ Fades(g, Aged(g))
         /\ Aged(g).granted = g.granted
         /\ g.granted /\ ~Expired(g) => Aged(g).timeLeft = g.timeLeft - 1
<1>1. CASE ~(g.granted /\ ~Expired(g))
  <2>1. Aged(g) = g
    BY <1>1, Zenon DEF Aged
  <2> QED BY <1>1, <2>1, FadesStays, Zenon
<1>2. CASE g.granted /\ ~Expired(g)
  <2>1. Aged(g) = [g EXCEPT !.timeLeft = g.timeLeft - 1]
    BY <1>2, Zenon DEF Aged
  <2>2. ASSUME NEW h, h = [g EXCEPT !.timeLeft = g.timeLeft - 1]
        PROVE  /\ IsGrant(h) /\ h.timeLeft = g.timeLeft - 1 /\ h.granted = g.granted
               /\ h.canceled = g.canceled
    BY <2>2 DEF GrantOK, IsGrant
  <2>3. g.timeLeft - 1 \in 0..MaxTime /\ g.timeLeft - 1 <= g.timeLeft
    BY <1>2, TimesAssumption DEF GrantOK, MaxTime, Expired
  <2>4. GrantOK(Aged(g))
    <3>1. g.granted = TRUE
      BY <1>2 DEF GrantOK
    <3> QED BY <2>1, <2>2, <2>3, <3>1 DEF GrantOK, IsGrant
  <2>5. Fades(g, Aged(g))
    BY <2>1, <2>2, <2>3, Zenon DEF Fades
  <2> QED BY <2>1, <2>2, <2>4, <2>5
<1> QED BY <1>1, <1>2

LEMMA GivenUpFades ==
  ASSUME NEW g, GrantOK(g)
  PROVE  /\ GrantOK(GivenUp(g)) /\ Fades(g, GivenUp(g))
         /\ GivenUp(g).granted => GivenUp(g) = g
<1>1. GivenUp(g) = g \/ GivenUp(g) = [Ended(g) EXCEPT !.canceled = FALSE]
  BY Zenon DEF GivenUp
<1>2. GrantOK(g) /\ Fades(g, g)
  BY FadesStays
<1>3. /\ GrantOK([Ended(g) EXCEPT !.canceled = FALSE])
      /\ Fades(g, [Ended(g) EXCEPT !.canceled = FALSE])
      /\ [Ended(g) EXCEPT !.canceled = FALSE].granted = FALSE
  BY EndedFades
<1> QED BY <1>1, <1>2, <1>3, Zenon

LEMMA AgeingFades ==
  ASSUME NEW g, GrantOK(g)
  PROVE  /\ GrantOK(GivenUp(Aged(g))) /\ Fades(g, GivenUp(Aged(g)))
         /\ GivenUp(Aged(g)).granted /\ ~Expired(g)
              => GivenUp(Aged(g)).timeLeft = g.timeLeft - 1
<1>1. /\ GrantOK(Aged(g)) /\ Fades(g, Aged(g)) /\ Aged(g).granted = g.granted
      /\ g.granted /\ ~Expired(g) => Aged(g).timeLeft = g.timeLeft - 1
  BY AgedFades
<1>2. /\ GrantOK(GivenUp(Aged(g))) /\ Fades(Aged(g), GivenUp(Aged(g)))
      /\ GivenUp(Aged(g)).granted => GivenUp(Aged(g)) = Aged(g)
  BY <1>1, GivenUpFades
<1>3. Fades(g, GivenUp(Aged(g)))
  BY <1>1, <1>2, FadesFurther
<1> QED BY <1>1, <1>2, <1>3, Zenon

LEMMA SlaveGrantFades ==
  ASSUME NEW g, GrantOK(g), NEW s, NEW t
  PROVE  /\ GrantOK(SlaveGrant(s, t, g)) /\ Fades(g, SlaveGrant(s, t, g))
         /\ SlaveGrant(s, t, g).granted =>
              ~Expired(g) /\ SlaveGrant(s, t, g).timeLeft = g.timeLeft - 1
         /\ NeedsRequest(s, t, g) => /\ SlaveGrant(s, t, g).requested = TRUE
                                     /\ SlaveGrant(s, t, g).granted = FALSE
<1> DEFINE a == GivenUp(Aged(g))
           k == KeepaliveOf(s, a)
<1>1. /\ GrantOK(a) /\ Fades(g, a)
      /\ a.granted /\ ~Expired(g) => a.timeLeft = g.timeLeft - 1
  BY AgeingFades
<1>2. k = a \/ k = [a EXCEPT !.receiving = FALSE]
  BY Zenon DEF KeepaliveOf
<1>3. Expired(g) => NeedsRequest(s, t, g)
  BY Zenon DEF NeedsRequest
<1>4. SlaveGrant(s, t, g) = IF NeedsRequest(s, t, g) THEN Requested(k) ELSE k
  BY Zenon DEF SlaveGrant
<1> HIDE DEF a, k
<1>5. GrantOK(k) /\ Fades(a, k) /\ k.granted = a.granted /\ k.timeLeft = a.timeLeft
  BY <1>1, <1>2, FadesStays, ReceivingFades, Zenon
<1>6. GrantOK(k) /\ Fades(g, k)
  BY <1>1, <1>5, FadesFurther
<1>7. /\ GrantOK(Requested(k)) /\ Fades(k, Requested(k))
      /\ Requested(k).requested = TRUE /\ Requested(k).granted = FALSE
  BY <1>6, RequestedFades
<1>8. Fades(g, Requested(k))
  BY <1>6, <1>7, FadesFurther
<1>9. CASE NeedsRequest(s, t, g)
  <2>1. SlaveGrant(s, t, g) = Requested(k)
    BY <1>4, <1>9, Zenon
  <2> QED BY <1>7, <1>8, <2>1, Zenon
<1>10. CASE ~NeedsRequest(s, t, g)
  <2>1. SlaveGrant(s, t, g) = k
    BY <1>4, <1>10, Zenon
  <2>2. ~Expired(g)
    BY <1>3, <1>10, Zenon
  <2> QED BY <1>1, <1>5, <1>6, <1>10, <2>1, <2>2, Zenon
<1> QED BY <1>9, <1>10, Zenon

-----------------------------------------------------------------------------
ShapeOK(types, slot) ==
  /\ slot = [identity |-> slot.identity, address |-> slot.address,
             timeLeft |-> slot.timeLeft, grants |-> slot.grants]
  /\ slot.grants = [t \in types |-> slot.grants[t]]
  /\ \A t \in types : GrantOK(slot.grants[t])
  /\ slot.identity # None => slot.address = slot.identity

(* What a step that gives nothing leaves of a slot.                        *)
SlotFades(types, old, new) ==
  /\ ShapeOK(types, new) /\ new.address = old.address
  /\ \A t \in types : Fades(old.grants[t], new.grants[t])

LEMMA SlotFadesStays ==
  ASSUME NEW types, NEW slot, ShapeOK(types, slot)
  PROVE  SlotFades(types, slot, slot)
BY FadesStays DEF ShapeOK, SlotFades

LEMMA SlotFadesFurther ==
  ASSUME NEW types, NEW a, NEW b, NEW c, ShapeOK(types, a),
         SlotFades(types, a, b), SlotFades(types, b, c)
  PROVE  SlotFades(types, a, c)
<1>1. ASSUME NEW t \in types
      PROVE  Fades(a.grants[t], c.grants[t])
  <2>1. GrantOK(a.grants[t]) /\ GrantOK(b.grants[t]) /\ GrantOK(c.grants[t])
    BY DEF ShapeOK, SlotFades
  <2> QED BY <2>1, FadesFurther DEF SlotFades
<1> QED BY <1>1 DEF SlotFades

LEMMA GrantsFade ==
  ASSUME NEW types, NEW slot, ShapeOK(types, slot), NEW G, NEW new,
         new = [slot EXCEPT !.grants = G], G = [t \in types |-> G[t]],
         \A t \in types : GrantOK(G[t]) /\ Fades(slot.grants[t], G[t])
  PROVE  SlotFades(types, slot, new) /\ new.grants = G
<1>1. /\ new = [identity |-> new.identity, address |-> new.address,
                timeLeft |-> new.timeLeft, grants |-> new.grants]
      /\ new.address = slot.address /\ new.identity = slot.identity /\ new.grants = G
  BY DEF ShapeOK
<1> QED BY <1>1 DEF ShapeOK, SlotFades

LEMMA OneGrantFades ==
  ASSUME NEW types, NEW slot, ShapeOK(types, slot), NEW t, NEW h,
         t \in types => GrantOK(h) /\ Fades(slot.grants[t], h)
  PROVE  /\ SlotFades(types, slot, SetGrant(slot, t, h))
         /\ \A u \in types : SetGrant(slot, t, h).grants[u] =
               IF u = t THEN h ELSE slot.grants[u]
<1> DEFINE G == [slot.grants EXCEPT ![t] = h]
<1>1. SetGrant(slot, t, h) = [slot EXCEPT !.grants = G]
  BY DEF SetGrant
<1>2. G = [u \in types |-> G[u]]
      /\ \A u \in types : G[u] = IF u = t THEN h ELSE slot.grants[u]
  BY DEF ShapeOK
<1>3. \A u \in types : GrantOK(slot.grants[u]) /\ Fades(slot.grants[u], slot.grants[u])
  BY FadesStays DEF ShapeOK
<1> HIDE DEF G
<1>4. \A u \in types : GrantOK(G[u]) /\ Fades(slot.grants[u], G[u])
  BY <1>2, <1>3
<1>5. SlotFades(types, slot, SetGrant(slot, t, h)) /\ SetGrant(slot, t, h).grants = G
  BY <1>1, <1>2, <1>4, GrantsFade
<1> QED BY <1>2, <1>5

(* CancelSlots and RequestSlots, a slot at a time.                         *)
LEMMA CancelledSlot ==
  ASSUME NEW slots, NEW S, NEW i \in DOMAIN slots, ShapeOK(Types, slots[i])
  PROVE  /\ SlotFades(Types, slots[i], CancelSlots(slots, S)[i])
         /\ \A t \in Types : CancelSlots(slots, S)[i].grants[t] =
              IF <<i, t>> \in S THEN Cancelled(slots[i].grants[t]) ELSE slots[i].grants[t]
<1> DEFINE slot == slots[i]
           G == [t \in Types |-> IF <<i, t>> \in S THEN Cancelled(slot.grants[t])
                                 ELSE slot.grants[t]]
<1>1. CancelSlots(slots, S)[i] = [slot EXCEPT !.grants = G]
  BY DEF CancelSlots
<1>2. ASSUME NEW t \in Types
      PROVE  GrantOK(G[t]) /\ Fades(slot.grants[t], G[t])
  <2>1. GrantOK(slot.grants[t])
    BY DEF ShapeOK
  <2>2. GrantOK(Cancelled(slot.grants[t])) /\ Fades(slot.grants[t], Cancelled(slot.grants[t]))
    BY <2>1, CancelledFades
  <2>3. Fades(slot.grants[t], slot.grants[t])
    BY <2>1, FadesStays
  <2>4. G[t] = Cancelled(slot.grants[t]) \/ G[t] = slot.grants[t]
    OBVIOUS
  <2> HIDE DEF G, slot
  <2> QED BY <2>1, <2>2, <2>3, <2>4
<1>3. G = [t \in Types |-> G[t]]
  OBVIOUS
<1>4. \A t \in Types : G[t] = IF <<i, t>> \in S THEN Cancelled(slot.grants[t])
                               ELSE slot.grants[t]
  OBVIOUS
<1> HIDE DEF G
<1>5. SlotFades(Types, slot, CancelSlots(slots, S)[i]) /\ CancelSlots(slots, S)[i].grants = G
  BY <1>1, <1>2, <1>3, GrantsFade
<1> QED BY <1>4, <1>5

LEMMA RequestedSlot ==
  ASSUME NEW slots, NEW S, NEW i \in DOMAIN slots, ShapeOK(Types, slots[i])
  PROVE  /\ SlotFades(Types, slots[i], RequestSlots(slots, S)[i])
         /\ \A t \in Types : RequestSlots(slots, S)[i].grants[t] =
              IF <<i, t>> \in S THEN Requested(slots[i].grants[t]) ELSE slots[i].grants[t]
<1> DEFINE slot == slots[i]
           G == [t \in Types |-> IF <<i, t>> \in S THEN Requested(slot.grants[t])
                                 ELSE slot.grants[t]]
<1>1. RequestSlots(slots, S)[i] = [slot EXCEPT !.grants = G]
  BY DEF RequestSlots
<1>2. ASSUME NEW t \in Types
      PROVE  GrantOK(G[t]) /\ Fades(slot.grants[t], G[t])
  <2>1. GrantOK(slot.grants[t])
    BY DEF ShapeOK
  <2>2. GrantOK(Requested(slot.grants[t])) /\ Fades(slot.grants[t], Requested(slot.grants[t]))
    BY <2>1, RequestedFades
  <2>3. Fades(slot.grants[t], slot.grants[t])
    BY <2>1, FadesStays
  <2>4. G[t] = Requested(slot.grants[t]) \/ G[t] = slot.grants[t]
    OBVIOUS
  <2> HIDE DEF G, slot
  <2> QED BY <2>1, <2>2, <2>3, <2>4
<1>3. G = [t \in Types |-> G[t]]
  OBVIOUS
<1>4. \A t \in Types : G[t] = IF <<i, t>> \in S THEN Requested(slot.grants[t])
                               ELSE slot.grants[t]
  OBVIOUS
<1> HIDE DEF G
<1>5. SlotFades(Types, slot, RequestSlots(slots, S)[i]) /\ RequestSlots(slots, S)[i].grants = G
  BY <1>1, <1>2, <1>3, GrantsFade
<1> QED BY <1>4, <1>5

LEMMA RefreshedShape ==
  ASSUME NEW slot, ShapeOK(Types, slot), NEW G, G = [t \in Types |-> G[t]],
         \A t \in Types : GrantOK(G[t]) /\ Fades(slot.grants[t], G[t])
  PROVE  SlotFades(Types, slot, Refreshed(slot, G)) /\ Refreshed(slot, G).grants = G
         /\ Refreshed(slot, G).timeLeft = NodeTime(slot)
<1>1. ASSUME NEW new, new = Refreshed(slot, G)
      PROVE  /\ new = [identity |-> new.identity, address |-> new.address,
                       timeLeft |-> new.timeLeft, grants |-> new.grants]
             /\ new.address = slot.address /\ new.identity \in {None, slot.identity}
             /\ new.grants = G /\ new.timeLeft = NodeTime(slot)
  BY <1>1 DEF ShapeOK, Refreshed
<1> QED BY <1>1 DEF ShapeOK, SlotFades

-----------------------------------------------------------------------------
(* The masters a slave is configured with.                                 *)
Peers(s) == {config.destinations[s][i] : i \in 1..Count(s)}

(* Signals go between a slave and its masters, requests from the slave and *)
(* their answers to it.                                                    *)
Linked(msg) ==
  /\ msg.type \in Types
  /\ \/ /\ msg.kind \in {"request", "cancel", "ack"}
        /\ msg.from \in Slaves /\ msg.to \in Peers(msg.from)
     \/ /\ msg.kind \in {"grant", "deny", "cancel", "ack"}
        /\ msg.to \in Slaves /\ msg.from \in Peers(msg.to)

(* A slot of a master is in use for a slave that it is a master of.        *)
UseOK(m, slot) ==
  /\ slot.address # None => slot.address \in Slaves /\ m \in Peers(slot.address)
  /\ slot.timeLeft # 0 => slot.address # None
  /\ \A t \in Types : /\ slot.grants[t].granted => slot.address # None
                      /\ slot.grants[t].canceled => slot.grants[t].timeLeft = 0

MastersOK ==
  \A m \in Masters :
    /\ \A i \in SlotsOf(m) : UseOK(m, table[m][i])
    /\ \A i, j \in SlotsOf(m) :
         table[m][i].address = table[m][j].address => i = j \/ table[m][i].address = None

SlavesOK ==
  \A s \in Slaves :
    /\ table[s] = [i \in SlotsOf(s) |-> table[s][i]]
    /\ \A i \in SlotsOf(s) :
         ShapeOK(Types, table[s][i]) /\ table[s][i].address = Destination(s, i)

ParentsOK ==
  /\ portState = [n \in Nodes |-> portState[n]]
  /\ parentDS = [s \in Slaves |-> parentDS[s]]
  /\ parentGrants = [s \in Slaves |-> parentGrants[s]]
  /\ previousGrants = [s \in Slaves |-> previousGrants[s]]
  /\ \A s \in Slaves :
       /\ parentGrants[s] \in 0..Count(s) /\ previousGrants[s] \in 0..Count(s)
       /\ portState[s] = "SLAVE" => parentDS[s] \in Masters

IndexOK ==
  /\ index = [n \in Nodes |-> index[n]]
  /\ \A n \in Nodes : index[n] \in [Hashes -> {0} \cup SlotsOf(n)]

SlotsInv ==
  /\ MastersOK /\ SlavesOK /\ ParentsOK /\ IndexOK
  /\ \A msg \in net : Linked(msg)

-----------------------------------------------------------------------------
LEMMA DestinationsOf ==
  ASSUME config \in Configurations, NEW s \in Slaves
  PROVE  /\ config.size \in Nat /\ Count(s) \in 0..config.size
         /\ Peers(s) \subseteq Masters
         /\ 1..Count(s) \subseteq SlotsOf(s)
         /\ \A i \in 1..Count(s) : Destination(s, i) \in Peers(s) /\ Destination(s, i) # None
         /\ \A i \in SlotsOf(s) : Destination(s, i) # None => i \in 1..Count(s)
         /\ \A m \in Peers(s) : \E i \in 1..Count(s) : m = Destination(s, i)
<1>1. /\ config.size \in Nat
      /\ config.destinations[s] \in Seq(Masters)
      /\ Len(config.destinations[s]) <= config.size
  BY TablesAssumption, DestinationsAssumption
<1>2. Count(s) = Len(config.destinations[s])
  BY DEF Count
<1>3. Count(s) \in 0..config.size /\ \A i \in 1..Count(s) : config.destinations[s][i] \in Masters
  BY <1>1, <1>2
<1>4. \A i : i <= Count(s) => Destination(s, i) = config.destinations[s][i]
  BY DEF Destination
<1>5. \A i : ~(i <= Count(s)) => Destination(s, i) = None
  BY DEF Destination
<1>6. 1..Count(s) \subseteq SlotsOf(s)
  BY <1>1, <1>3 DEF SlotsOf
<1>7. \A i \in 1..Count(s) : /\ Destination(s, i) = config.destinations[s][i]
                              /\ Destination(s, i) \in Masters
  BY <1>3, <1>4
<1>8. \A i \in SlotsOf(s) : Destination(s, i) # None => i \in 1..Count(s)
  BY <1>1, <1>3, <1>5 DEF SlotsOf
<1>9. \A i \in 1..Count(s) : Destination(s, i) # None
  BY <1>7, NodesAssumption DEF Nodes
<1> QED BY <1>1, <1>3, <1>6, <1>7, <1>8, <1>9 DEF Peers

(* Whose slot it is. *)
LEMMA Named ==
  ASSUME TableInv, SlotsInv, NEW n \in Nodes, NEW i \in SlotsOf(n),
         table[n][i].identity # None
  PROVE  table[n][i].address = table[n][i].identity
BY DEF TableInv, SlotsInv, SlavesOK, SlotOK, ShapeOK, Nodes

(* findUnicastGrants(): the slot of the node; or else a free one, when no  *)
(* slot of the table is the node's; or none at all.                        *)
LEMMA FoundFor ==
  ASSUME TableInv, SlotsInv, NEW n \in Nodes, NEW who \in Nodes, NEW address \in {who, None},
         NEW count \in 0..config.size
  PROVE  /\ Find(n, who, address, count) \in {0} \cup SlotsOf(n)
         /\ \/ /\ Find(n, who, address, count) # 0
               /\ table[n][Find(n, who, address, count)].address = who
            \/ /\ \A j \in 1..count : /\ table[n][j].identity # who
                                      /\ address = who => table[n][j].address # who
               /\ \/ /\ Find(n, who, address, count) \in 1..count
                     /\ table[n][Find(n, who, address, count)].timeLeft = 0
                  \/ /\ Find(n, who, address, count) = 0
                     /\ \A j \in 1..count : table[n][j].timeLeft # 0
<1> DEFINE matching == Matching(n, who, address, count)
           free == Free(n, count)
           found == Find(n, who, address, count)
<1>1. config.size \in Nat /\ count \in Nat /\ count <= config.size
  BY TablesAssumption DEF TableInv
<1>2. 1..count \subseteq SlotsOf(n) /\ SlotsOf(n) \subseteq Nat \ {0}
  BY <1>1 DEF SlotsOf
<1>3. who # None
  BY NodesAssumption
<1>4. matching \subseteq 1..count /\ free \subseteq 1..count
  BY DEF Matching, Free
<1>5. ASSUME NEW S, S \subseteq 1..count, S # {}
      PROVE  First(S) \in S
  <2>1. S \subseteq Nat
    BY <1>1, <1>5
  <2> QED BY <1>5, <2>1, LeastExists DEF First
<1>6. CASE IndexHit(n, who)
  <2>1. /\ found = index[n][Hash[who]] /\ found # 0 /\ table[n][found].identity = who
    BY <1>6 DEF Find, IndexHit
  <2>2. index[n][Hash[who]] \in {0} \cup SlotsOf(n)
    <3>1. Hash[who] \in Hashes
      BY DEF Hashes
    <3> QED BY <3>1 DEF SlotsInv, IndexOK
  <2>3. found \in SlotsOf(n) /\ table[n][found].address = who
    BY <1>3, <2>1, <2>2, Named
  <2> QED BY <2>1, <2>3
<1>7. CASE ~IndexHit(n, who) /\ matching # {}
  <2>1. found = First(matching)
    BY <1>7 DEF Find
  <2>2. found \in matching
    BY <1>4, <1>5, <1>7, <2>1
  <2>3. found \in 1..count
        /\ (table[n][found].identity = who \/ (address # None /\ table[n][found].address = address))
    BY <2>2 DEF Matching
  <2>4. found \in SlotsOf(n) /\ found # 0
    BY <1>2, <2>3
  <2>5. table[n][found].address = who
    <3> HIDE DEF found
    <3> QED BY <1>3, <2>3, <2>4, Named
  <2> QED BY <2>4, <2>5
<1>8. CASE ~IndexHit(n, who) /\ matching = {}
  <2>1. found = FirstOrNone(free)
    BY <1>8 DEF Find
  <2>2. \A j \in 1..count : /\ table[n][j].identity # who
                            /\ address = who => table[n][j].address # who
    BY <1>3, <1>8 DEF Matching
  <2>3. CASE free = {}
    <3>1. found = 0
      BY <2>1, <2>3 DEF FirstOrNone
    <3>2. \A j \in 1..count : table[n][j].timeLeft # 0
      BY <2>3 DEF Free
    <3> QED BY <2>2, <3>1, <3>2
  <2>4. CASE free # {}
    <3>1. found \in free
      BY <1>4, <1>5, <2>1, <2>4 DEF FirstOrNone
    <3>2. found \in 1..count /\ table[n][found].timeLeft = 0
      BY <3>1 DEF Free
    <3> QED BY <1>2, <2>2, <3>2
  <2> QED BY <2>3, <2>4
<1> QED BY <1>6, <1>7, <1>8

(* A master that a slave is configured with has a slot with the slave.     *)
LEMMA FoundPeer ==
  ASSUME TableInv, SlotsInv, NEW s \in Slaves, NEW m \in Peers(s), NEW count \in Count(s)..config.size
  PROVE  /\ Find(s, m, m, count) \in 1..Count(s)
         /\ table[s][Find(s, m, m, count)].address = m
         /\ Destination(s, Find(s, m, m, count)) = m
<1>1. config \in Configurations
  BY DEF TableInv
<1>2. m \in Nodes /\ s \in Nodes /\ m # None /\ count \in 0..config.size
  BY <1>1, DestinationsOf, NodesAssumption DEF Nodes
<1>3. PICK k \in 1..Count(s) : m = Destination(s, k)
  BY <1>1, DestinationsOf
<1>4. k \in 1..count /\ k \in SlotsOf(s)
  BY <1>1, DestinationsOf
<1>5. table[s][k].address = m
  BY <1>3, <1>4 DEF SlotsInv, SlavesOK
<1> DEFINE i == Find(s, m, m, count)
<1>6. i \in {0} \cup SlotsOf(s) /\ i # 0 /\ table[s][i].address = m
  <2> HIDE DEF i
  <2> QED BY <1>2, <1>4, <1>5, FoundFor DEF i
<1>7. Destination(s, i) = m
  BY <1>6 DEF SlotsInv, SlavesOK
<1> QED BY <1>1, <1>2, <1>6, <1>7, DestinationsOf

-----------------------------------------------------------------------------
(* A grant that is on its way to the slave arrives.                        *)
Accepts(s, m, t) ==
  \E msg \in net : /\ msg \notin net' /\ msg.kind = "grant"
                  /\ msg.from = m /\ msg.to = s /\ msg.type = t

(* What a step leaves of a slot of a slave: of each grant no more than     *)
(* there was, unless its master has just sent it.                          *)
SlaveSlotStep(s, i, new) ==
  /\ ShapeOK(Types, new) /\ new.address = table[s][i].address
  /\ \A t \in Types : \/ Fades(table[s][i].grants[t], new.grants[t])
                      \/ Accepts(s, table[s][i].address, t)

MasterTableOK(m, T) ==
  /\ \A i \in SlotsOf(m) : UseOK(m, T[i])
  /\ \A i, j \in SlotsOf(m) : T[i].address = T[j].address => i = j \/ T[i].address = None

TablesStep ==
  /\ \A s \in Slaves :
       /\ table'[s] = [i \in SlotsOf(s) |-> table'[s][i]]
       /\ \A i \in SlotsOf(s) : SlaveSlotStep(s, i, table'[s][i])
  /\ \A m \in Masters : MasterTableOK(m, table'[m])

(* What makes no use of a slot of a master that was not made.              *)
UseStep(old, new) ==
  /\ new.timeLeft # 0 => old.address # None
  /\ \A t \in Types : new.grants[t].canceled => new.grants[t].timeLeft = 0

LEMMA ShapeOfSlots ==
  ASSUME TableInv, SlotsInv, NEW n \in Nodes
  PROVE  /\ table[n] = [i \in SlotsOf(n) |-> table[n][i]]
         /\ \A i \in SlotsOf(n) : ShapeOK(Types, table[n][i])
BY DEF TableInv, SlotsInv, SlavesOK, SlotOK, ShapeOK, Nodes

LEMMA SlaveSlotFades ==
  ASSUME NEW s, NEW i, NEW new, SlotFades(Types, table[s][i], new)
  PROVE  SlaveSlotStep(s, i, new)
BY DEF SlotFades, SlaveSlotStep

LEMMA TablesStay ==
  ASSUME TableInv, SlotsInv, table' = table
  PROVE  TablesStep
<1>1. ASSUME NEW s \in Slaves, NEW i \in SlotsOf(s)
      PROVE  SlaveSlotStep(s, i, table[s][i])
  BY ShapeOfSlots, SlotFadesStays, SlaveSlotFades DEF Nodes
<1>2. \A s \in Slaves : table[s] = [i \in SlotsOf(s) |-> table[s][i]]
  BY DEF SlotsInv, SlavesOK
<1>3. \A m \in Masters : MasterTableOK(m, table[m])
  BY DEF SlotsInv, MastersOK, MasterTableOK
<1> QED BY <1>1, <1>2, <1>3 DEF TablesStep

LEMMA TableChanges ==
  ASSUME TableInv, SlotsInv, NEW n, NEW T,
         n \in Slaves => /\ T = [i \in SlotsOf(n) |-> T[i]]
                        /\ \A i \in SlotsOf(n) : SlaveSlotStep(n, i, T[i]),
         n \in Masters => MasterTableOK(n, T)
  PROVE  table' = [table EXCEPT ![n] = T] => TablesStep
<1> SUFFICES ASSUME table' = [table EXCEPT ![n] = T]
             PROVE  TablesStep
  OBVIOUS
<1>1. \A k \in Nodes : table'[k] = IF k = n THEN T ELSE table[k]
  BY DEF TableInv
<1>2. \A s \in Slaves : \A i \in SlotsOf(s) : SlaveSlotStep(s, i, table[s][i])
  BY ShapeOfSlots, SlotFadesStays, SlaveSlotFades DEF Nodes
<1>3. \A s \in Slaves : table[s] = [i \in SlotsOf(s) |-> table[s][i]]
  BY DEF SlotsInv, SlavesOK
<1>4. \A m \in Masters : MasterTableOK(m, table[m])
  BY DEF SlotsInv, MastersOK, MasterTableOK
<1>5. ASSUME NEW s \in Slaves
      PROVE  /\ table'[s] = [i \in SlotsOf(s) |-> table'[s][i]]
             /\ \A i \in SlotsOf(s) : SlaveSlotStep(s, i, table'[s][i])
  <2>1. CASE s = n
    <3>1. table'[s] = T
      BY <1>1, <2>1 DEF Nodes
    <3> QED BY <2>1, <3>1
  <2>2. CASE s # n
    <3>1. table'[s] = table[s]
      BY <1>1, <2>2 DEF Nodes
    <3> QED BY <1>2, <1>3, <3>1
  <2> QED BY <2>1, <2>2
<1>6. \A m \in Masters : MasterTableOK(m, table'[m])
  BY <1>1, <1>4 DEF Nodes
<1> QED BY <1>5, <1>6 DEF TablesStep

(* All the slots of a node fade.                                           *)
LEMMA TableFades ==
  ASSUME TableInv, SlotsInv, NEW n \in Nodes, NEW T, T = [i \in SlotsOf(n) |-> T[i]],
         \A i \in SlotsOf(n) : /\ SlotFades(Types, table[n][i], T[i])
                               /\ n \in Masters => UseStep(table[n][i], T[i])
  PROVE  table' = [table EXCEPT ![n] = T] => TablesStep
<1>1. ASSUME n \in Masters
      PROVE  MasterTableOK(n, T)
  <2>1. \A i \in SlotsOf(n) : UseOK(n, table[n][i])
    BY <1>1 DEF SlotsInv, MastersOK
  <2>2. ASSUME NEW i \in SlotsOf(n)
        PROVE  UseOK(n, T[i])
    <3> DEFINE old == table[n][i]
               new == T[i]
    <3>1. UseOK(n, old) /\ SlotFades(Types, old, new) /\ UseStep(old, new)
      BY <1>1, <2>1
    <3> HIDE DEF old, new
    <3>2. new.address = old.address /\ \A t \in Types : Fades(old.grants[t], new.grants[t])
      BY <3>1 DEF SlotFades
    <3>3. \A t \in Types : new.grants[t].granted => old.address # None
      BY <3>1, <3>2, Zenon DEF Fades, UseOK
    <3>4. UseOK(n, new)
      BY <3>1, <3>2, <3>3 DEF UseOK, UseStep
    <3> QED BY <3>4 DEF new
  <2>3. \A i, j \in SlotsOf(n) : T[i].address = T[j].address => i = j \/ T[i].address = None
    BY <1>1 DEF SlotsInv, MastersOK, SlotFades
  <2> QED BY <2>2, <2>3 DEF MasterTableOK
<1>2. ASSUME n \in Slaves
      PROVE  \A i \in SlotsOf(n) : SlaveSlotStep(n, i, T[i])
  BY SlaveSlotFades
<1> QED BY <1>1, <1>2, TableChanges

(* One grant fades. *)
LEMMA GrantOfTableFades ==
  ASSUME TableInv, SlotsInv, NEW n, NEW k, NEW t, NEW h,
         n \in Nodes /\ k \in SlotsOf(n) /\ t \in Types
           => /\ GrantOK(h) /\ Fades(table[n][k].grants[t], h)
              /\ n \in Masters => (h.canceled => h.timeLeft = 0)
  PROVE  table' = [table EXCEPT ![n][k].grants[t] = h] => TablesStep
<1> DEFINE S == SetGrant(table[n][k], t, h)
           T == [table[n] EXCEPT ![k] = S]
<1>1. [table EXCEPT ![n][k].grants[t] = h] = [table EXCEPT ![n] = T]
  BY DEF SetGrant
<1>2. CASE n \notin Nodes
  <2>1. [table EXCEPT ![n] = T] = table
    <3> HIDE DEF T
    <3> QED BY <1>2 DEF TableInv
  <2> HIDE DEF T
  <2> QED BY <1>1, <2>1, TablesStay
<1>3. CASE n \in Nodes
  <2>1. /\ table[n] = [i \in SlotsOf(n) |-> table[n][i]]
        /\ \A i \in SlotsOf(n) : ShapeOK(Types, table[n][i])
    BY <1>3, ShapeOfSlots
  <2> HIDE DEF S
  <2>2. /\ T = [i \in SlotsOf(n) |-> T[i]]
        /\ \A i \in SlotsOf(n) : T[i] = IF i = k THEN S ELSE table[n][i]
    BY <2>1
  <2> HIDE DEF T
  <2>3. ASSUME NEW i \in SlotsOf(n)
        PROVE  /\ SlotFades(Types, table[n][i], T[i])
               /\ n \in Masters => UseStep(table[n][i], T[i])
    <3> DEFINE old == table[n][i]
    <3>1. ShapeOK(Types, old)
      BY <2>1
    <3>2. n \in Masters => UseOK(n, old)
      BY DEF SlotsInv, MastersOK
    <3>3. CASE i # k
      <4>1. T[i] = old
        BY <2>2, <3>3
      <4> HIDE DEF old
      <4>2. SlotFades(Types, old, old) /\ (n \in Masters => UseStep(old, old))
        BY <3>1, <3>2, SlotFadesStays DEF UseOK, UseStep
      <4> QED BY <4>1, <4>2 DEF old
    <3>4. CASE i = k
      <4>1. T[i] = SetGrant(old, t, h)
        BY <2>2, <3>4 DEF S
      <4>2. t \in Types => /\ GrantOK(h) /\ Fades(old.grants[t], h)
                           /\ n \in Masters => (h.canceled => h.timeLeft = 0)
        BY <1>3, <3>4
      <4> HIDE DEF old
      <4>3. /\ SlotFades(Types, old, SetGrant(old, t, h))
            /\ \A u \in Types : SetGrant(old, t, h).grants[u] =
                 IF u = t THEN h ELSE old.grants[u]
        BY <3>1, <4>2, OneGrantFades
      <4>4. SetGrant(old, t, h).timeLeft = old.timeLeft
        BY <3>1 DEF ShapeOK, SetGrant
      <4>5. n \in Masters => UseStep(old, SetGrant(old, t, h))
        BY <3>2, <4>2, <4>3, <4>4, Zenon DEF UseOK, UseStep
      <4> QED BY <4>1, <4>3, <4>5 DEF old
    <3> QED BY <3>3, <3>4
  <2> QED BY <1>1, <1>3, <2>2, <2>3, TableFades
<1> QED BY <1>2, <1>3

-----------------------------------------------------------------------------
LEMMA AgedSlot ==
  ASSUME TableInv, SlotsInv, NEW s \in Slaves, NEW i \in SlotsOf(s)
  PROVE  /\ SlotFades(Types, table[s][i], AgedSlots(s)[i])
         /\ i \in 1..Count(s) =>
              \A t \in Types :
                AgedSlots(s)[i].grants[t] = SlaveGrant(s, t, table[s][i].grants[t])
<1> DEFINE slot == table[s][i]
           G == [t \in Types |-> SlaveGrant(s, t, slot.grants[t])]
<1>1. ShapeOK(Types, slot)
  BY ShapeOfSlots DEF Nodes
<1>2. AgedSlots(s)[i] = IF i <= Count(s) THEN Refreshed(slot, G) ELSE slot
  BY DEF AgedSlots
<1>3. \A t \in Types : GrantOK(G[t]) /\ Fades(slot.grants[t], G[t])
  <2>1. ASSUME NEW t \in Types
        PROVE  GrantOK(G[t]) /\ Fades(slot.grants[t], G[t])
    <3>1. GrantOK(slot.grants[t])
      BY <1>1 DEF ShapeOK
    <3>2. G[t] = SlaveGrant(s, t, slot.grants[t])
      OBVIOUS
    <3> HIDE DEF G, slot
    <3> QED BY <3>1, <3>2, SlaveGrantFades
  <2> QED BY <2>1
<1>4. G = [t \in Types |-> G[t]] /\ \A t \in Types : G[t] = SlaveGrant(s, t, slot.grants[t])
  OBVIOUS
<1> HIDE DEF slot, G
<1>5. SlotFades(Types, slot, Refreshed(slot, G)) /\ Refreshed(slot, G).grants = G
  BY <1>1, <1>3, <1>4, RefreshedShape
<1>6. SlotFades(Types, slot, slot)
  BY <1>1, SlotFadesStays
<1>7. i \in 1..Count(s) => i <= Count(s)
  BY DestinationsOf DEF TableInv
<1> QED BY <1>2, <1>4, <1>5, <1>6, <1>7 DEF slot

(* The table a refresh of a slave leaves.                                  *)
Renewed(s) ==
  LET left == CancelSlots(AgedSlots(s), ToCancel(s))
  IN  RequestSlots(left, ToRequest(s, left))

LEMMA RenewedSlot ==
  ASSUME TableInv, SlotsInv, NEW s \in Slaves
  PROVE  /\ Renewed(s) = [i \in SlotsOf(s) |-> Renewed(s)[i]]
         /\ \A i \in SlotsOf(s) :
              /\ SlotFades(Types, table[s][i], Renewed(s)[i])
              /\ SlotFades(Types, AgedSlots(s)[i], Renewed(s)[i])
<1> DEFINE aged == AgedSlots(s)
           left == CancelSlots(aged, ToCancel(s))
           last == RequestSlots(left, ToRequest(s, left))
<1>1. DOMAIN aged = SlotsOf(s)
  BY DEF AgedSlots
<1>2. DOMAIN left = SlotsOf(s)
  BY <1>1 DEF CancelSlots
<1>3. last = [i \in SlotsOf(s) |-> last[i]]
  BY <1>2 DEF RequestSlots
<1>4. Renewed(s) = last
  BY DEF Renewed
<1>5. ASSUME NEW i \in SlotsOf(s)
      PROVE  SlotFades(Types, table[s][i], last[i]) /\ SlotFades(Types, aged[i], last[i])
  <2>1. ShapeOK(Types, table[s][i])
    BY ShapeOfSlots DEF Nodes
  <2>2. SlotFades(Types, table[s][i], aged[i])
    BY AgedSlot
  <2> HIDE DEF aged
  <2>3. SlotFades(Types, aged[i], left[i])
    BY <1>1, <2>2, CancelledSlot DEF SlotFades
  <2> HIDE DEF left
  <2>4. SlotFades(Types, left[i], last[i])
    BY <1>2, <2>3, RequestedSlot DEF SlotFades
  <2> HIDE DEF last
  <2>5. SlotFades(Types, aged[i], last[i])
    BY <2>2, <2>3, <2>4, SlotFadesFurther DEF SlotFades
  <2> QED BY <2>1, <2>2, <2>5, SlotFadesFurther
<1> HIDE DEF last, aged
<1> QED BY <1>3, <1>4, <1>5 DEF aged

LEMMA RefreshSlaveTables ==
  ASSUME TableInv, SlotsInv, NEW s \in Slaves, RefreshSlave(s)
  PROVE  TablesStep
<1>1. table' = [table EXCEPT ![s] = Renewed(s)]
  BY DEF RefreshSlave, Renewed
<1>2. s \in Nodes /\ s \notin Masters
  BY NodesAssumption DEF Nodes
<1> QED BY <1>1, <1>2, RenewedSlot, TableFades

(* The table a refresh of a master leaves.                                 *)
MasterAged(m) ==
  [i \in SlotsOf(m) |-> Refreshed(table[m][i],
                 [t \in Types |-> GivenUp(Aged(table[m][i].grants[t]))])]
ExpiredGrants(m) == {x \in SlotsOf(m) \X Types : Expired(table[m][x[1]].grants[x[2]])}

LEMMA MasterAgedSlot ==
  ASSUME TableInv, SlotsInv, NEW m \in Masters, NEW i \in SlotsOf(m)
  PROVE  /\ SlotFades(Types, table[m][i], MasterAged(m)[i])
         /\ MasterAged(m)[i].timeLeft = NodeTime(table[m][i])
         /\ \A t \in Types :
              MasterAged(m)[i].grants[t] = GivenUp(Aged(table[m][i].grants[t]))
<1> DEFINE slot == table[m][i]
           G == [t \in Types |-> GivenUp(Aged(slot.grants[t]))]
<1>1. ShapeOK(Types, slot)
  BY ShapeOfSlots DEF Nodes
<1>2. MasterAged(m)[i] = Refreshed(slot, G)
  BY DEF MasterAged
<1>3. \A t \in Types : GrantOK(G[t]) /\ Fades(slot.grants[t], G[t])
  <2>1. ASSUME NEW t \in Types
        PROVE  GrantOK(G[t]) /\ Fades(slot.grants[t], G[t])
    <3>1. GrantOK(slot.grants[t])
      BY <1>1 DEF ShapeOK
    <3>2. G[t] = GivenUp(Aged(slot.grants[t]))
      OBVIOUS
    <3> HIDE DEF G, slot
    <3> QED BY <3>1, <3>2, AgeingFades
  <2> QED BY <2>1
<1>4. G = [t \in Types |-> G[t]] /\ \A t \in Types : G[t] = GivenUp(Aged(slot.grants[t]))
  OBVIOUS
<1> HIDE DEF slot, G
<1>5. /\ SlotFades(Types, slot, Refreshed(slot, G)) /\ Refreshed(slot, G).grants = G
      /\ Refreshed(slot, G).timeLeft = NodeTime(slot)
  BY <1>1, <1>3, <1>4, RefreshedShape
<1> QED BY <1>2, <1>4, <1>5 DEF slot

(* A cancellation is never of a grant with time left.                      *)
LEMMA CanceledAges ==
  ASSUME NEW g, GrantOK(g), g.canceled => g.timeLeft = 0
  PROVE  LET h == GivenUp(Aged(g)) IN /\ h.canceled => h.timeLeft = 0
                                      /\ Cancelled(h).timeLeft = 0
<1> DEFINE h == GivenUp(Aged(g))
<1>1. Aged(g).canceled = g.canceled
  BY DEF Aged, GrantOK
<1>2. Aged(g).canceled => Aged(g).timeLeft = 0
  <2>1. ASSUME g.timeLeft = 0
        PROVE  Aged(g) = g
    BY <2>1, TimesAssumption DEF Aged, Expired
  <2> QED BY <1>1, <2>1, Zenon
<1>3. h = Aged(g) \/ h = [Ended(Aged(g)) EXCEPT !.canceled = FALSE]
  BY Zenon DEF GivenUp
<1>4. GrantOK(Aged(g)) /\ GrantOK(h)
  BY AgedFades, AgeingFades
<1>5. [Ended(Aged(g)) EXCEPT !.canceled = FALSE].timeLeft = 0
  BY <1>4 DEF Ended, GrantOK
<1> HIDE DEF h
<1>6. Cancelled(h).timeLeft = 0
  BY <1>4, GrantsEnd
<1>7. h.canceled => h.timeLeft = 0
  BY <1>2, <1>3, <1>5, Zenon
<1> QED BY <1>6, <1>7 DEF h

LEMMA NodeTimeUsed ==
  ASSUME NEW slot, NodeTime(slot) # 0
  PROVE  \E t \in Types : slot.grants[t].granted
BY DEF NodeTime

LEMMA RefreshMasterTables ==
  ASSUME TableInv, SlotsInv, NEW m \in Masters, RefreshMaster(m)
  PROVE  TablesStep
<1> DEFINE aged == MasterAged(m)
           expired == ExpiredGrants(m)
           T == CancelSlots(aged, expired)
<1>1. table' = [table EXCEPT ![m] = T]
  BY DEF RefreshMaster, MasterAged, ExpiredGrants
<1>2. DOMAIN aged = SlotsOf(m)
  BY DEF MasterAged
<1>3. T = [i \in SlotsOf(m) |-> T[i]]
  <2> HIDE DEF aged, expired
  <2> QED BY <1>2 DEF CancelSlots
<1>4. ASSUME NEW i \in SlotsOf(m)
      PROVE  SlotFades(Types, table[m][i], T[i]) /\ UseStep(table[m][i], T[i])
  <2> DEFINE old == table[m][i]
  <2>1. ShapeOK(Types, old) /\ UseOK(m, old)
    BY ShapeOfSlots DEF Nodes, SlotsInv, MastersOK
  <2>2. /\ SlotFades(Types, old, aged[i]) /\ aged[i].timeLeft = NodeTime(old)
        /\ \A t \in Types : aged[i].grants[t] = GivenUp(Aged(old.grants[t]))
    BY MasterAgedSlot
  <2> HIDE DEF aged, expired
  <2>3. /\ SlotFades(Types, aged[i], T[i])
        /\ \A t \in Types : T[i].grants[t] =
             IF <<i, t>> \in expired THEN Cancelled(aged[i].grants[t]) ELSE aged[i].grants[t]
    BY <1>2, <2>2, CancelledSlot DEF SlotFades
  <2>4. T[i].timeLeft = aged[i].timeLeft
    BY <1>2, <2>2 DEF CancelSlots, SlotFades, ShapeOK
  <2> HIDE DEF T, old
  <2>5. SlotFades(Types, old, T[i])
    BY <2>1, <2>2, <2>3, SlotFadesFurther
  <2>6. T[i].timeLeft # 0 => old.address # None
    BY <2>1, <2>2, <2>4, NodeTimeUsed DEF UseOK
  <2>7. ASSUME NEW t \in Types, T[i].grants[t].canceled
        PROVE  T[i].grants[t].timeLeft = 0
    <3>1. GrantOK(old.grants[t]) /\ (old.grants[t].canceled => old.grants[t].timeLeft = 0)
      BY <2>1 DEF ShapeOK, UseOK
    <3>2. /\ aged[i].grants[t].canceled => aged[i].grants[t].timeLeft = 0
          /\ Cancelled(aged[i].grants[t]).timeLeft = 0
      BY <2>2, <3>1, CanceledAges
    <3>3. T[i].grants[t] = Cancelled(aged[i].grants[t]) \/ T[i].grants[t] = aged[i].grants[t]
      BY <2>3
    <3> QED BY <2>7, <3>2, <3>3, Zenon
  <2> QED BY <2>5, <2>6, <2>7 DEF UseStep, old
<1> HIDE DEF T
<1> QED BY <1>1, <1>3, <1>4, TableFades DEF Nodes

-----------------------------------------------------------------------------
(* The slot of a node, given to it. *)
LEMMA TakenShape ==
  ASSUME NEW n, NEW i, NEW who, ShapeOK(Types, table[n][i])
  PROVE  /\ ShapeOK(Types, Taken(n, i, who)) /\ Taken(n, i, who).address = who
         /\ Taken(n, i, who).grants = table[n][i].grants
         /\ Taken(n, i, who).identity = who
<1> DEFINE old == table[n][i]
<1>1. ASSUME NEW slot, slot = [old EXCEPT !.identity = who, !.address = who]
      PROVE  /\ slot = [identity |-> slot.identity, address |-> slot.address,
                        timeLeft |-> slot.timeLeft, grants |-> slot.grants]
             /\ slot.identity = who /\ slot.address = who /\ slot.grants = old.grants
  BY <1>1 DEF ShapeOK
<1>2. ASSUME NEW slot, slot = [old EXCEPT !.identity = who, !.address = who]
      PROVE  ShapeOK(Types, slot)
  <2>1. old.grants = [t \in Types |-> old.grants[t]] /\ \A t \in Types : GrantOK(old.grants[t])
    BY DEF ShapeOK
  <2> HIDE DEF old
  <2> QED BY <1>1, <1>2, <2>1 DEF ShapeOK
<1> QED BY <1>1, <1>2 DEF Taken

LEMMA RequestTables ==
  ASSUME TableInv, SlotsInv, NEW m \in Masters, NEW msg, HandleRequest(m, msg), m = msg.to
  PROVE  TablesStep
<1> DEFINE i == Find(m, msg.from, msg.from, config.size)
           slot == Taken(m, i, msg.from)
           g == slot.grants[msg.type]
           denied == [g EXCEPT !.requested = TRUE]
           given == [g EXCEPT !.requested = TRUE, !.granted = TRUE, !.canceled = FALSE,
                       !.cancelCount = 0, !.timeLeft = ServedTime,
                       !.logInterval = msg.interval]
           S == IF msg.interval >= config.minInterval
                THEN SetGrant(Reserved(slot), msg.type, given)
                ELSE SetGrant(slot, msg.type, denied)
           T == [table[m] EXCEPT ![i] = S]
<1>1. msg \in net /\ msg.kind = "request"
  BY DEF HandleRequest, AnswerWithoutSlot, GrantRequest, Deliver
<1>2. msg.type \in Types /\ msg.from \in Slaves /\ m \in Peers(msg.from)
  BY <1>1 DEF SlotsInv, Linked
<1>3. msg.from \in Nodes /\ m \in Nodes /\ config.size \in 0..config.size
  BY <1>2, TablesAssumption DEF Nodes, TableInv
<1>4. /\ i \in {0} \cup SlotsOf(m)
      /\ i # 0 => \/ table[m][i].address = msg.from
                  \/ \A j \in SlotsOf(m) : table[m][j].address # msg.from
  BY <1>3, FoundFor DEF SlotsOf
<1>5. CASE i = 0
  <2>1. table' = table
    BY <1>5 DEF HandleRequest, AnswerWithoutSlot
  <2> QED BY <2>1, TablesStay
<1>6. CASE i # 0
  <2>1. table' = [table EXCEPT ![m] = T]
    BY <1>6 DEF HandleRequest, GrantRequest
  <2>2. /\ table[m] = [j \in SlotsOf(m) |-> table[m][j]]
        /\ \A j \in SlotsOf(m) : ShapeOK(Types, table[m][j]) /\ UseOK(m, table[m][j])
        /\ \A j, k \in SlotsOf(m) : table[m][j].address = table[m][k].address
                                      => j = k \/ table[m][j].address = None
    BY <1>3, ShapeOfSlots DEF SlotsInv, MastersOK
  <2>3. i \in SlotsOf(m)
    BY <1>4, <1>6
  <2>4. /\ ShapeOK(Types, slot) /\ slot.address = msg.from
        /\ slot.grants = table[m][i].grants
    BY <2>2, <2>3, TakenShape
  <2>5. \A t \in Types : slot.grants[t].canceled => slot.grants[t].timeLeft = 0
    BY <2>2, <2>3, <2>4 DEF UseOK
  <2>6. GrantOK(g)
    BY <1>2, <2>4 DEF ShapeOK
  <2> HIDE DEF slot
  <2>7. ASSUME NEW r, r = slot \/ r = Reserved(slot)
        PROVE  /\ r = [identity |-> r.identity, address |-> r.address,
                       timeLeft |-> r.timeLeft, grants |-> r.grants]
               /\ r.address = msg.from /\ r.grants = slot.grants
    BY <2>4, <2>7 DEF ShapeOK, Reserved
  <2>8. ASSUME NEW h, h = denied \/ h = given
        PROVE  h.canceled => h.timeLeft = 0
    <3>1. g.canceled => g.timeLeft = 0
      BY <1>2, <2>5
    <3>2. denied.canceled = g.canceled /\ denied.timeLeft = g.timeLeft /\ given.canceled = FALSE
      BY <2>6 DEF GrantOK
    <3> HIDE DEF denied, given, g
    <3> QED BY <2>8, <3>1, <3>2, Zenon
  <2>9. PICK r, h : /\ r = slot \/ r = Reserved(slot)
                    /\ h = denied \/ h = given
                    /\ S = SetGrant(r, msg.type, h)
    <3> HIDE DEF denied, given
    <3> QED OBVIOUS
  <2>10. /\ r = [identity |-> r.identity, address |-> r.address,
                 timeLeft |-> r.timeLeft, grants |-> r.grants]
         /\ r.address = msg.from /\ r.grants = slot.grants
    BY <2>7, <2>9
  <2>11. h.canceled => h.timeLeft = 0
    BY <2>8, <2>9
  <2> HIDE DEF S, g, given, denied
  <2>12. /\ S.address = msg.from
         /\ \A t \in Types : S.grants[t] = IF t = msg.type THEN h ELSE slot.grants[t]
    <3>1. S.address = msg.from /\ S.grants = [slot.grants EXCEPT ![msg.type] = h]
      BY <2>9, <2>10 DEF SetGrant
    <3>2. slot.grants = [t \in Types |-> slot.grants[t]]
      BY <2>4 DEF ShapeOK
    <3> QED BY <3>1, <3>2
  <2>13. UseOK(m, S)
    <3>1. S.address # None
      BY <1>3, <2>12, NodesAssumption
    <3>2. \A t \in Types : S.grants[t].canceled => S.grants[t].timeLeft = 0
      BY <2>5, <2>11, <2>12
    <3> QED BY <1>2, <2>12, <3>1, <3>2 DEF UseOK
  <2>14. \A j \in SlotsOf(m) : T[j] = IF j = i THEN S ELSE table[m][j]
    BY <2>2
  <2> HIDE DEF T
  <2>15. \A j \in SlotsOf(m) : UseOK(m, T[j])
    BY <2>2, <2>13, <2>14
  <2>16. \A j, k \in SlotsOf(m) : T[j].address = T[k].address => j = k \/ T[j].address = None
    <3>1. CASE table[m][i].address = msg.from
      BY <2>2, <2>3, <2>12, <2>14, <3>1
    <3>2. CASE \A j \in SlotsOf(m) : table[m][j].address # msg.from
      BY <2>2, <2>3, <2>12, <2>14, <3>2
    <3> QED BY <1>4, <1>6, <3>1, <3>2
  <2>17. MasterTableOK(m, T)
    BY <2>15, <2>16 DEF MasterTableOK
  <2>18. m \notin Slaves
    BY NodesAssumption
  <2> QED BY <2>1, <2>17, <2>18, TableChanges
<1> QED BY <1>5, <1>6

LEMMA GrantTables ==
  ASSUME TableInv, SlotsInv, NEW s \in Slaves, NEW msg, HandleGrant(s, msg), s = msg.to
  PROVE  TablesStep
<1> DEFINE i == Find(s, msg.from, msg.from, Count(s))
           slot == Taken(s, i, msg.from)
           g == slot.grants[msg.type]
           h == IF ~g.requested THEN g ELSE IF msg.kind = "deny" THEN Denied(g) ELSE Given(g, msg)
           S == SetGrant(slot, msg.type, h)
           T == [table[s] EXCEPT ![i] = S]
<1>1. /\ msg \in net /\ msg.kind \in {"grant", "deny"}
      /\ table' = [table EXCEPT ![s] = T]
  BY DEF HandleGrant, Deliver
<1>2. msg.type \in Types /\ msg.from \in Peers(s)
  BY <1>1 DEF SlotsInv, Linked
<1>3. i \in 1..Count(s) /\ i \in SlotsOf(s) /\ table[s][i].address = msg.from
  <2>1. Count(s) \in Count(s)..config.size /\ 1..Count(s) \subseteq SlotsOf(s)
    BY DestinationsOf DEF TableInv
  <2> QED BY <1>2, <2>1, FoundPeer
<1>4. /\ table[s] = [j \in SlotsOf(s) |-> table[s][j]]
      /\ \A j \in SlotsOf(s) : ShapeOK(Types, table[s][j])
  BY ShapeOfSlots DEF Nodes
<1>5. /\ ShapeOK(Types, slot) /\ slot.address = msg.from
      /\ slot.grants = table[s][i].grants
  BY <1>3, <1>4, TakenShape
<1>6. GrantOK(g)
  BY <1>2, <1>5 DEF ShapeOK
<1>7. GrantOK(h) /\ (Fades(g, h) \/ Accepts(s, msg.from, msg.type))
  <2>1. GrantOK(g) /\ Fades(g, g) /\ GrantOK(Denied(g)) /\ Fades(g, Denied(g))
    BY <1>6, FadesStays, DeniedFades
  <2>2. GrantOK(Given(g, msg))
    <3>1. ASSUME NEW f, f = Given(g, msg)
          PROVE  IsGrant(f) /\ f.granted = TRUE /\ f.timeLeft = unicastGrantDuration
      BY <1>6, <3>1 DEF Given, GrantOK, IsGrant
    <3>2. unicastGrantDuration \in 0..MaxTime
      BY TimesAssumption DEF MaxTime
    <3> QED BY <3>1, <3>2 DEF GrantOK, IsGrant
  <2>3. msg.kind # "deny" => Accepts(s, msg.from, msg.type)
    BY <1>1 DEF Accepts, HandleGrant, Deliver
  <2> HIDE DEF g
  <2> QED BY <2>1, <2>2, <2>3, Zenon
<1> HIDE DEF slot
<1>8. S = [slot EXCEPT !.grants = [slot.grants EXCEPT ![msg.type] = h]]
  BY DEF SetGrant
<1> HIDE DEF h
<1>9. /\ S = [identity |-> S.identity, address |-> S.address,
             timeLeft |-> S.timeLeft, grants |-> S.grants]
      /\ S.address = msg.from /\ S.identity = slot.identity
      /\ S.grants = [t \in Types |-> S.grants[t]]
      /\ \A t \in Types : S.grants[t] = IF t = msg.type THEN h ELSE slot.grants[t]
  <2> DEFINE G == [slot.grants EXCEPT ![msg.type] = h]
  <2>1. G = [t \in Types |-> G[t]]
        /\ \A t \in Types : G[t] = IF t = msg.type THEN h ELSE slot.grants[t]
    BY <1>5 DEF ShapeOK
  <2> HIDE DEF G, S
  <2>2. S = [slot EXCEPT !.grants = G]
    BY <1>8 DEF G
  <2>3. /\ S = [identity |-> S.identity, address |-> S.address,
               timeLeft |-> S.timeLeft, grants |-> S.grants]
        /\ S.address = slot.address /\ S.identity = slot.identity /\ S.grants = G
    BY <1>5, <2>2 DEF ShapeOK
  <2> QED BY <1>5, <2>1, <2>3
<1> HIDE DEF S
<1>10. ShapeOK(Types, S)
  BY <1>5, <1>7, <1>9 DEF ShapeOK
<1>11. SlaveSlotStep(s, i, S)
  <2>1. ASSUME NEW t \in Types
        PROVE  Fades(table[s][i].grants[t], S.grants[t]) \/ Accepts(s, table[s][i].address, t)
    <3>1. GrantOK(slot.grants[t])
      BY <1>5 DEF ShapeOK
    <3>2. Fades(slot.grants[t], slot.grants[t])
      BY <3>1, FadesStays
    <3> QED BY <1>3, <1>5, <1>7, <1>9, <3>2
  <2> QED BY <1>3, <1>9, <1>10, <2>1 DEF SlaveSlotStep
<1>12. \A j \in SlotsOf(s) : T[j] = IF j = i THEN S ELSE table[s][j]
  BY <1>4
<1>13. T = [j \in SlotsOf(s) |-> T[j]]
  BY <1>4
<1> HIDE DEF T, i
<1>14. ASSUME NEW j \in SlotsOf(s)
       PROVE  SlaveSlotStep(s, j, T[j])
  <2>1. SlaveSlotStep(s, j, table[s][j])
    BY <1>4, SlotFadesStays, SlaveSlotFades
  <2> QED BY <1>11, <1>12, <2>1
<1>15. s \notin Masters
  BY NodesAssumption
<1> QED BY <1>1, <1>13, <1>14, <1>15, TableChanges

(* A grant that a message ends, at either side.                            *)
LEMMA EndedTables ==
  ASSUME TableInv, SlotsInv, NEW n, NEW msg, HandleCancel(n, msg) \/ HandleAck(n, msg)
  PROVE  TablesStep
<1> DEFINE i == Find(n, msg.from, msg.from, config.size)
           g == table[n][i].grants[msg.type]
<1>1. PICK h : /\ h = Ended(g) \/ h = [Ended(g) EXCEPT !.canceled = FALSE]
               /\ table' = table \/ table' = [table EXCEPT ![n][i].grants[msg.type] = h]
  <2>1. CASE HandleCancel(n, msg)
    BY <2>1 DEF HandleCancel
  <2>2. CASE HandleAck(n, msg)
    BY <2>2 DEF HandleAck
  <2> QED BY <2>1, <2>2
<1>2. ASSUME n \in Nodes, i \in SlotsOf(n), msg.type \in Types
      PROVE  GrantOK(h) /\ Fades(g, h) /\ h.timeLeft = 0
  <2>1. GrantOK(g)
    BY <1>2, ShapeOfSlots DEF ShapeOK
  <2> HIDE DEF g
  <2> QED BY <1>1, <2>1, EndedFades, GrantsEnd
<1> HIDE DEF i
<1>3. CASE table' = table
  BY <1>3, TablesStay
<1>4. CASE table' = [table EXCEPT ![n][i].grants[msg.type] = h]
  <2>1. n \in Nodes /\ i \in SlotsOf(n) /\ msg.type \in Types
           => /\ GrantOK(h) /\ Fades(table[n][i].grants[msg.type], h)
              /\ n \in Masters => (h.canceled => h.timeLeft = 0)
    BY <1>2
  <2> QED BY <1>4, <2>1, GrantOfTableFades
<1> QED BY <1>1, <1>3, <1>4

LEMMA ReceiveTables ==
  ASSUME TableInv, SlotsInv, NEW s \in Slaves, NEW i, NEW t, NEW mark, Receive(s, i, t, mark)
  PROVE  TablesStep
<1> DEFINE g == table[s][i].grants[t]
           v == mark /\ config.keepalive
           h == [g EXCEPT !.receiving = v]
<1>1. table' = [table EXCEPT ![s][i].grants[t] = h]
  BY DEF Receive
<1>2. s \notin Masters
  BY NodesAssumption
<1> HIDE DEF v
<1>3. ASSUME s \in Nodes, i \in SlotsOf(s), t \in Types
      PROVE  GrantOK(h) /\ Fades(g, h)
  <2>1. GrantOK(g)
    BY <1>3, ShapeOfSlots DEF ShapeOK
  <2> QED BY <2>1, ReceivingFades
<1>4. s \in Nodes /\ i \in SlotsOf(s) /\ t \in Types
         => /\ GrantOK(h) /\ Fades(table[s][i].grants[t], h)
            /\ s \in Masters => (h.canceled => h.timeLeft = 0)
  BY <1>2, <1>3
<1> HIDE DEF h, g
<1> QED BY <1>1, <1>4, GrantOfTableFades

-----------------------------------------------------------------------------
(* All the grants of a slot at once: toState() out of SLAVE, and a reload. *)
LEMMA TakenAway ==
  ASSUME NEW slot, ShapeOK(Types, slot), NEW new, new = Lapsed(slot) \/ new = Updated(slot)
  PROVE  SlotFades(Types, slot, new)
<1> DEFINE A == [t \in Types |-> [slot.grants[t] EXCEPT !.timeLeft = 0]]
           B == [t \in Types |-> [slot.grants[t] EXCEPT !.timeLeft = 0, !.logInterval = 0]]
<1>1. new = [slot EXCEPT !.grants = A] \/ new = [slot EXCEPT !.grants = B]
  BY DEF Lapsed, Updated
<1>2. A = [t \in Types |-> A[t]] /\ B = [t \in Types |-> B[t]]
  OBVIOUS
<1>3. ASSUME NEW t \in Types
      PROVE  /\ GrantOK(A[t]) /\ Fades(slot.grants[t], A[t])
             /\ GrantOK(B[t]) /\ Fades(slot.grants[t], B[t])
  <2> DEFINE g == slot.grants[t]
  <2>1. GrantOK(g)
    BY DEF ShapeOK
  <2>2. A[t] = [g EXCEPT !.timeLeft = 0] /\ B[t] = [g EXCEPT !.timeLeft = 0, !.logInterval = 0]
    OBVIOUS
  <2> HIDE DEF g
  <2>3. /\ GrantOK(A[t]) /\ Fades(g, A[t])
        /\ GrantOK(B[t]) /\ Fades(g, B[t])
    BY <2>1, <2>2, TimeTakenFades
  <2> QED BY <2>3 DEF g
<1> HIDE DEF A, B
<1>4. new = [slot EXCEPT !.grants = A] => SlotFades(Types, slot, new)
  BY <1>2, <1>3, GrantsFade
<1>5. new = [slot EXCEPT !.grants = B] => SlotFades(Types, slot, new)
  BY <1>2, <1>3, GrantsFade
<1> QED BY <1>1, <1>4, <1>5

LEMMA LeaveSlaveTables ==
  ASSUME TableInv, SlotsInv, NEW s \in Slaves, LeaveSlave(s) \/ UpdateGrantTable(s)
  PROVE  TablesStep
<1> DEFINE T == table'[s]
<1>1. s \in Nodes /\ s \notin Masters /\ s \in DOMAIN table
  BY NodesAssumption DEF Nodes, TableInv
<1>2. /\ table' = [table EXCEPT ![s] = T]
      /\ T = [i \in SlotsOf(s) |-> T[i]]
      /\ \A i \in SlotsOf(s) : T[i] \in {table[s][i], Lapsed(table[s][i]), Updated(table[s][i])}
  <2>1. CASE LeaveSlave(s)
    <3>1. \E X : table' = [table EXCEPT ![s] = X]
      BY <2>1, Zenon DEF LeaveSlave
    <3>2. T = [i \in SlotsOf(s) |-> IF i = parentGrants[s] THEN Lapsed(table[s][i])
                                    ELSE table[s][i]]
      BY <1>1, <2>1 DEF LeaveSlave
    <3> QED BY <1>1, <3>1, <3>2
  <2>2. CASE UpdateGrantTable(s)
    <3>1. \E X : table' = [table EXCEPT ![s] = X]
      BY <2>2, Zenon DEF UpdateGrantTable
    <3>2. T = [i \in SlotsOf(s) |-> IF i <= Count(s) THEN Updated(table[s][i])
                                    ELSE table[s][i]]
      BY <1>1, <2>2 DEF UpdateGrantTable
    <3> QED BY <1>1, <3>1, <3>2
  <2> QED BY <2>1, <2>2
<1>3. ASSUME NEW i \in SlotsOf(s)
      PROVE  SlotFades(Types, table[s][i], T[i])
  <2> DEFINE slot == table[s][i]
  <2>1. ShapeOK(Types, slot)
    BY <1>1, ShapeOfSlots
  <2>2. T[i] \in {slot, Lapsed(slot), Updated(slot)}
    BY <1>2
  <2> HIDE DEF slot
  <2>3. SlotFades(Types, slot, slot)
    BY <2>1, SlotFadesStays
  <2>4. ASSUME NEW new, new = Lapsed(slot) \/ new = Updated(slot)
        PROVE  SlotFades(Types, slot, new)
    BY <2>1, <2>4, TakenAway
  <2>5. SlotFades(Types, slot, T[i])
    BY <2>2, <2>3, <2>4
  <2> QED BY <2>5 DEF slot
<1> HIDE DEF T
<1> QED BY <1>1, <1>2, <1>3, TableFades

LEMMA LeaveMasterTables ==
  ASSUME TableInv, SlotsInv, NEW m \in Masters, NEW state, LeaveMaster(m, state)
  PROVE  TablesStep
<1> DEFINE S == {x \in SlotsOf(m) \X Types : table[m][x[1]].grants[x[2]].granted}
           T == CancelSlots(table[m], S)
<1>1. table' = [table EXCEPT ![m] = T]
  BY DEF LeaveMaster
<1> HIDE DEF S
<1>2. /\ m \in Nodes /\ table[m] = [i \in SlotsOf(m) |-> table[m][i]]
      /\ \A i \in SlotsOf(m) : ShapeOK(Types, table[m][i]) /\ UseOK(m, table[m][i])
  BY ShapeOfSlots DEF Nodes, SlotsInv, MastersOK
<1>3. DOMAIN table[m] = SlotsOf(m)
  BY <1>2
<1>4. T = [i \in SlotsOf(m) |-> T[i]]
  BY <1>3 DEF CancelSlots
<1>5. ASSUME NEW i \in SlotsOf(m)
      PROVE  SlotFades(Types, table[m][i], T[i]) /\ UseStep(table[m][i], T[i])
  <2> DEFINE old == table[m][i]
  <2>1. ShapeOK(Types, old) /\ UseOK(m, old)
    BY <1>2
  <2>2. /\ SlotFades(Types, old, T[i])
        /\ \A t \in Types : T[i].grants[t] =
             IF <<i, t>> \in S THEN Cancelled(old.grants[t]) ELSE old.grants[t]
    BY <1>3, <2>1, CancelledSlot
  <2>3. T[i].timeLeft = old.timeLeft
    BY <1>3, <2>1 DEF CancelSlots, ShapeOK
  <2> HIDE DEF T, old
  <2>4. ASSUME NEW t \in Types, T[i].grants[t].canceled
        PROVE  T[i].grants[t].timeLeft = 0
    <3>1. GrantOK(old.grants[t]) /\ (old.grants[t].canceled => old.grants[t].timeLeft = 0)
      BY <2>1 DEF ShapeOK, UseOK
    <3>2. Cancelled(old.grants[t]).timeLeft = 0
      BY <3>1, GrantsEnd
    <3>3. T[i].grants[t] = Cancelled(old.grants[t]) \/ T[i].grants[t] = old.grants[t]
      BY <2>2
    <3> QED BY <2>4, <3>1, <3>2, <3>3, Zenon
  <2> QED BY <2>1, <2>2, <2>3, <2>4 DEF UseStep, UseOK, old
<1> HIDE DEF T
<1> QED BY <1>1, <1>2, <1>4, <1>5, TableFades

LEMMA EmptyTableOK ==
  ASSUME config \in Configurations
  PROVE  /\ \A s \in Slaves : /\ EmptyTable(s) = [i \in SlotsOf(s) |-> EmptyTable(s)[i]]
                              /\ \A i \in SlotsOf(s) :
                                   /\ ShapeOK(Types, EmptyTable(s)[i])
                                   /\ EmptyTable(s)[i].address = Destination(s, i)
                                   /\ \A t \in Types : EmptyTable(s)[i].grants[t].granted = FALSE
         /\ \A m \in Masters : MasterTableOK(m, EmptyTable(m))
<1> DEFINE G == [t \in Types |-> NoGrant]
<1>1. /\ GrantOK(NoGrant) /\ NoGrant.timeLeft = 0 /\ NoGrant.granted = FALSE
      /\ NoGrant.canceled = FALSE
  BY TimesAssumption DEF GrantOK, NoGrant, MaxTime
<1> HIDE DEF NoGrant
<1>2. /\ G = [t \in Types |-> G[t]]
      /\ \A t \in Types : /\ GrantOK(G[t]) /\ G[t].timeLeft = 0 /\ G[t].granted = FALSE
                          /\ G[t].canceled = FALSE
  BY <1>1
<1>3. ASSUME NEW n, NEW i \in SlotsOf(n)
      PROVE  EmptyTable(n)[i] = [identity |-> None, address |-> Destination(n, i),
                                 timeLeft |-> 0, grants |-> G]
  BY DEF EmptyTable
<1> HIDE DEF G
<1>4. ASSUME NEW n, NEW i \in SlotsOf(n), NEW slot, slot = EmptyTable(n)[i]
      PROVE  /\ ShapeOK(Types, slot)
             /\ slot.address = Destination(n, i) /\ slot.timeLeft = 0 /\ slot.grants = G
  <2>1. slot = [identity |-> None, address |-> Destination(n, i),
                timeLeft |-> 0, grants |-> G]
    BY <1>3, <1>4
  <2> QED BY <1>2, <2>1 DEF ShapeOK
<1>5. ASSUME NEW s \in Slaves
      PROVE  /\ EmptyTable(s) = [i \in SlotsOf(s) |-> EmptyTable(s)[i]]
             /\ \A i \in SlotsOf(s) :
                  /\ ShapeOK(Types, EmptyTable(s)[i])
                  /\ EmptyTable(s)[i].address = Destination(s, i)
                  /\ \A t \in Types : EmptyTable(s)[i].grants[t].granted = FALSE
  <2>1. EmptyTable(s) = [i \in SlotsOf(s) |-> EmptyTable(s)[i]]
    BY DEF EmptyTable
  <2> QED BY <1>2, <1>4, <2>1
<1>6. ASSUME NEW m \in Masters
      PROVE  MasterTableOK(m, EmptyTable(m))
  <2>1. \A i \in SlotsOf(m) : Destination(m, i) = None
    BY NodesAssumption DEF Destination
  <2>2. \A i \in SlotsOf(m) : EmptyTable(m)[i].address = None
    BY <1>4, <2>1
  <2>3. \A i \in SlotsOf(m) : UseOK(m, EmptyTable(m)[i])
    <3>1. ASSUME NEW i \in SlotsOf(m), NEW slot, slot = EmptyTable(m)[i]
          PROVE  UseOK(m, slot)
      <4>1. slot.address = None /\ slot.timeLeft = 0 /\ slot.grants = G
        BY <1>4, <2>1, <3>1
      <4> QED BY <1>2, <4>1, Zenon DEF UseOK
    <3> QED BY <3>1
  <2> QED BY <2>2, <2>3 DEF MasterTableOK
<1> QED BY <1>5, <1>6

LEMMA InitializedTables ==
  ASSUME TableInv, SlotsInv, NEW n, Initialized(n)
  PROVE  TablesStep
<1> DEFINE T == EmptyTable(n)
<1>1. table' = [table EXCEPT ![n] = T]
  BY DEF Initialized
<1>2. ASSUME n \in Slaves
      PROVE  /\ T = [i \in SlotsOf(n) |-> T[i]]
             /\ \A i \in SlotsOf(n) : SlaveSlotStep(n, i, T[i])
  <2>1. \A i \in SlotsOf(n) : table[n][i].address = Destination(n, i)
    BY <1>2 DEF SlotsInv, SlavesOK
  <2>2. /\ T = [i \in SlotsOf(n) |-> T[i]]
        /\ \A i \in SlotsOf(n) : /\ ShapeOK(Types, T[i]) /\ T[i].address = Destination(n, i)
                                 /\ \A t \in Types : T[i].grants[t].granted = FALSE
    BY <1>2, EmptyTableOK DEF TableInv
  <2> HIDE DEF T
  <2> QED BY <2>1, <2>2, Zenon DEF SlaveSlotStep, Fades
<1>3. n \in Masters => MasterTableOK(n, T)
  BY EmptyTableOK DEF TableInv
<1> HIDE DEF T
<1> QED BY <1>1, <1>2, <1>3, TableChanges

-----------------------------------------------------------------------------
LEMMA StepOfSlots ==
  ASSUME TableInv, SlotsInv, Next
  PROVE  TablesStep
<1>1. ASSUME NEW n \in Present, Refresh(n)
      PROVE  TablesStep
  BY <1>1, RefreshSlaveTables, RefreshMasterTables DEF Refresh
<1>2. ASSUME EndRound
      PROVE  TablesStep
  BY <1>2, TablesStay DEF EndRound
<1>3. ASSUME NEW msg, HandleSignaling(msg)
      PROVE  TablesStep
  <2>1. ASSUME IgnoreSignal(msg.to, msg)
        PROVE  TablesStep
    BY <2>1, TablesStay DEF IgnoreSignal, Ignore
  <2> QED BY <1>3, <2>1, RequestTables, GrantTables, EndedTables DEF HandleSignaling
<1>4. ASSUME NEW msg, AckWithoutSlot(msg.to, msg)
      PROVE  TablesStep
  BY <1>4, InitializedTables DEF AckWithoutSlot
<1>5. ASSUME NEW msg, Lose(msg)
      PROVE  TablesStep
  BY <1>5, TablesStay DEF Lose, Ignore
<1>6. ASSUME NEW s \in Slaves, NEW m \in Masters, Messages(s, m)
      PROVE  TablesStep
  <2>1. ASSUME NEW t, NEW mark, HearTiming(s, m, t, mark)
        PROVE  \E i : Receive(s, i, t, mark)
    BY <2>1, Zenon DEF HearTiming
  <2>2. ASSUME NEW mark, HearAnnounce(s, m, mark)
        PROVE  \E i : Receive(s, i, "ANNOUNCE", mark)
    BY <2>2, Zenon DEF HearAnnounce
  <2>3. PICK i, t, mark : Receive(s, i, t, mark)
    BY <1>6, <2>1, <2>2, Zenon DEF Messages
  <2> QED BY <2>3, ReceiveTables
<1>7. ASSUME NEW m \in Masters, BecomeMaster(m) \/ InitializeMaster(m)
      PROVE  TablesStep
  <2>1. BecomeMaster(m) => TablesStep
    BY TablesStay DEF BecomeMaster
  <2>2. InitializeMaster(m) => TablesStep
    BY InitializedTables DEF InitializeMaster
  <2> QED BY <1>7, <2>1, <2>2
<1>8. ASSUME Disturbance
      PROVE  TablesStep
  <2>1. ASSUME NEW s \in Slaves, RestartSlave(s)
        PROVE  TablesStep
    BY <2>1, InitializedTables DEF RestartSlave
  <2> QED BY <1>8, <2>1, LeaveSlaveTables, LeaveMasterTables DEF Disturbance
<1> QED BY <1>1, <1>2, <1>3, <1>4, <1>5, <1>6, <1>7, <1>8 DEF Next, Handle

-----------------------------------------------------------------------------
NetStep == \A msg \in net' : msg \in net \/ Linked(msg)

(* A slave sends to its own masters.                                       *)
LEMMA SlaveSignals ==
  ASSUME TableInv, SlotsInv, NEW s \in Slaves, NEW slots,
         \A i \in SlotsOf(s) : slots[i].address = Destination(s, i),
         NEW S, \A x \in S : x[1] \in 1..Count(s) /\ x[2] \in Types
  PROVE  /\ \A msg \in Requests(s, slots, S) : Linked(msg)
         /\ \A msg \in Cancels(s, slots, S) : Linked(msg)
<1>1. /\ 1..Count(s) \subseteq SlotsOf(s)
      /\ \A i \in 1..Count(s) : Destination(s, i) \in Peers(s)
  BY DestinationsOf DEF TableInv
<1>2. ASSUME NEW x \in S, NEW kind \in {"request", "cancel"}, NEW interval
      PROVE  Linked(Signal(kind, s, slots[x[1]].address, x[2], interval))
  <2>1. slots[x[1]].address \in Peers(s) /\ x[2] \in Types
    BY <1>1
  <2> QED BY <2>1 DEF Linked, Signal
<1>3. \A msg \in Requests(s, slots, S) : Linked(msg)
  BY <1>2 DEF Requests
<1>4. \A msg \in Cancels(s, slots, S) : Linked(msg)
  BY <1>2 DEF Cancels
<1> QED BY <1>3, <1>4

(* A master sends to the slaves that it has granted something.             *)
LEMMA MasterSignals ==
  ASSUME TableInv, SlotsInv, NEW m \in Masters, NEW slots,
         \A i \in SlotsOf(m) : SlotFades(Types, table[m][i], slots[i]),
         NEW S, S \subseteq SlotsOf(m) \X Types
  PROVE  \A msg \in Cancels(m, slots, S) : Linked(msg)
<1>1. ASSUME NEW x \in S, slots[x[1]].grants[x[2]].granted
      PROVE  Linked(Signal("cancel", m, slots[x[1]].address, x[2], 0))
  <2>1. x[1] \in SlotsOf(m) /\ x[2] \in Types
    OBVIOUS
  <2> DEFINE old == table[m][x[1]]
             new == slots[x[1]]
             t == x[2]
  <2>2. SlotFades(Types, old, new) /\ UseOK(m, old) /\ t \in Types
    BY <2>1 DEF SlotsInv, MastersOK
  <2>3. new.grants[t].granted
    BY <1>1
  <2> HIDE DEF old, new, t
  <2>4. new.address = old.address /\ old.grants[t].granted
    BY <2>2, <2>3, Zenon DEF SlotFades, Fades
  <2>5. new.address \in Slaves /\ m \in Peers(new.address)
    BY <2>2, <2>4 DEF UseOK
  <2> QED BY <2>2, <2>5 DEF Linked, Signal, new, t
<1> QED BY <1>1 DEF Cancels

LEMMA RefreshNet ==
  ASSUME TableInv, SlotsInv, NEW n, Refresh(n)
  PROVE  NetStep
<1>1. ASSUME n \in Slaves, RefreshSlave(n)
      PROVE  NetStep
  <2> DEFINE expired == {x \in (1..Count(n)) \X Types :
                           NeedsRequest(n, x[2], table[n][x[1]].grants[x[2]])}
             aged == AgedSlots(n)
             left == CancelSlots(aged, ToCancel(n))
  <2>1. net' = net \cup Requests(n, aged, expired) \cup Cancels(n, aged, ToCancel(n))
                  \cup Requests(n, left, ToRequest(n, left))
    BY <1>1 DEF RefreshSlave
  <2>2. n \in Nodes /\ config.size \in Nat /\ Count(n) \in 0..config.size
    BY <1>1, DestinationsOf DEF TableInv, Nodes
  <2>3. \A i \in SlotsOf(n) : /\ ShapeOK(Types, aged[i])
                              /\ aged[i].address = Destination(n, i)
    <3>1. ASSUME NEW i \in SlotsOf(n)
          PROVE  SlotFades(Types, table[n][i], aged[i])
      BY <1>1, AgedSlot
    <3> HIDE DEF aged
    <3> QED BY <1>1, <3>1 DEF SlotFades, SlotsInv, SlavesOK
  <2>4. DOMAIN aged = SlotsOf(n)
    BY DEF AgedSlots
  <2>5. \A i \in SlotsOf(n) : left[i].address = Destination(n, i)
    <3> HIDE DEF aged
    <3>1. \A i \in SlotsOf(n) : SlotFades(Types, aged[i], left[i])
      BY <2>3, <2>4, CancelledSlot
    <3> HIDE DEF left
    <3> QED BY <2>3, <3>1 DEF SlotFades
  <2>6. parentGrants[n] \in 0..Count(n) /\ previousGrants[n] \in 0..Count(n)
    BY <1>1 DEF SlotsInv, ParentsOK
  <2>7. \A x \in ToCancel(n) : x[1] \in 1..Count(n) /\ x[2] \in Types
    BY <2>2, <2>6 DEF ToCancel
  <2> HIDE DEF left, aged
  <2>8. \A x \in ToRequest(n, left) : x[1] \in 1..Count(n) /\ x[2] \in Types
    <3>1. parentGrants[n] # 0 => parentGrants[n] \in 1..Count(n)
      BY <2>2, <2>6
    <3> QED BY <3>1 DEF ToRequest
  <2>9. \A x \in expired : x[1] \in 1..Count(n) /\ x[2] \in Types
    OBVIOUS
  <2> HIDE DEF expired
  <2>10. /\ \A msg \in Requests(n, aged, expired) : Linked(msg)
         /\ \A msg \in Cancels(n, aged, ToCancel(n)) : Linked(msg)
         /\ \A msg \in Requests(n, left, ToRequest(n, left)) : Linked(msg)
    BY <1>1, <2>3, <2>5, <2>7, <2>8, <2>9, SlaveSignals
  <2> QED BY <2>1, <2>10 DEF NetStep
<1>2. ASSUME n \in Masters, RefreshMaster(n)
      PROVE  NetStep
  <2>1. net' = net \cup Cancels(n, MasterAged(n), ExpiredGrants(n))
    BY <1>2 DEF RefreshMaster, MasterAged, ExpiredGrants
  <2>2. ExpiredGrants(n) \subseteq SlotsOf(n) \X Types
    BY DEF ExpiredGrants
  <2>3. \A i \in SlotsOf(n) : SlotFades(Types, table[n][i], MasterAged(n)[i])
    BY <1>2, MasterAgedSlot
  <2>4. \A msg \in Cancels(n, MasterAged(n), ExpiredGrants(n)) : Linked(msg)
    BY <1>2, <2>2, <2>3, MasterSignals
  <2> QED BY <2>1, <2>4 DEF NetStep
<1> QED BY <1>1, <1>2 DEF Refresh

LEMMA LeaveMasterNet ==
  ASSUME TableInv, SlotsInv, NEW m \in Masters, NEW state, LeaveMaster(m, state)
  PROVE  NetStep
<1> DEFINE S == {x \in SlotsOf(m) \X Types : table[m][x[1]].grants[x[2]].granted}
<1>1. net' = net \cup Cancels(m, table[m], S)
  BY DEF LeaveMaster
<1>2. S \subseteq SlotsOf(m) \X Types
  OBVIOUS
<1> HIDE DEF S
<1>3. \A i \in SlotsOf(m) : SlotFades(Types, table[m][i], table[m][i])
  BY ShapeOfSlots, SlotFadesStays DEF Nodes
<1>4. \A msg \in Cancels(m, table[m], S) : Linked(msg)
  BY <1>2, <1>3, MasterSignals
<1> QED BY <1>1, <1>4 DEF NetStep

LEMMA HandledNet ==
  ASSUME TableInv, SlotsInv, NEW msg, HandleSignaling(msg)
  PROVE  NetStep
<1> DEFINE n == msg.to
<1>1. ASSUME n \in Masters, HandleRequest(n, msg)
      PROVE  NetStep
  <2>1. PICK kind \in {"grant", "deny"} :
           Deliver(msg, {Signal(kind, n, msg.from, msg.type, msg.interval)})
    BY <1>1, Zenon DEF HandleRequest, AnswerWithoutSlot, GrantRequest
  <2>2. msg.type \in Types /\ msg.from \in Slaves /\ n \in Peers(msg.from)
    BY <1>1, <2>1 DEF SlotsInv, Linked, Deliver, HandleRequest
  <2>3. Linked(Signal(kind, n, msg.from, msg.type, msg.interval))
    BY <2>2 DEF Linked, Signal
  <2> QED BY <2>1, <2>3 DEF NetStep, Deliver
<1>2. ASSUME HandleGrant(n, msg) \/ HandleAck(n, msg) \/ IgnoreSignal(n, msg)
      PROVE  NetStep
  BY <1>2 DEF HandleGrant, HandleAck, IgnoreSignal, Ignore, Deliver, NetStep
<1>3. ASSUME HandleCancel(n, msg)
      PROVE  NetStep
  <2> DEFINE ack == Signal("ack", n, msg.from, msg.type, 0)
  <2>1. msg \in net /\ msg.kind = "cancel" /\ net' \subseteq net \cup {ack}
    BY <1>3 DEF HandleCancel, Deliver
  <2>2. Linked(msg)
    BY <2>1 DEF SlotsInv
  <2>3. Linked(ack)
    BY <2>1, <2>2 DEF Linked, Signal
  <2> HIDE DEF ack
  <2> QED BY <2>1, <2>3 DEF NetStep
<1> QED BY <1>1, <1>2, <1>3 DEF HandleSignaling

LEMMA StepOfNet ==
  ASSUME TableInv, SlotsInv, Next
  PROVE  NetStep
<1>1. ASSUME NEW msg, AckWithoutSlot(msg.to, msg) \/ Lose(msg)
      PROVE  NetStep
  BY <1>1 DEF AckWithoutSlot, Lose, Ignore, Deliver, NetStep
<1>2. ASSUME EndRound
      PROVE  NetStep
  BY <1>2 DEF EndRound, NetStep
<1>3. ASSUME NEW s \in Slaves, NEW m \in Masters, Messages(s, m)
      PROVE  net' = net
  BY <1>3 DEF Messages, HearTiming, HearAnnounce
<1>4. ASSUME NEW m \in Masters, BecomeMaster(m) \/ InitializeMaster(m)
      PROVE  net' = net
  BY <1>4 DEF BecomeMaster, InitializeMaster
<1>5. ASSUME NEW s \in Slaves, LeaveSlave(s) \/ RestartSlave(s) \/ UpdateGrantTable(s)
      PROVE  net' = net
  BY <1>5 DEF LeaveSlave, RestartSlave, UpdateGrantTable
<1>6. net' = net => NetStep
  BY DEF NetStep
<1> QED BY <1>1, <1>2, <1>3, <1>4, <1>5, <1>6, RefreshNet, HandledNet, LeaveMasterNet
        DEF Next, Handle, Disturbance

-----------------------------------------------------------------------------
LEMMA StepOfIndex ==
  ASSUME TableInv, SlotsInv, Next
  PROVE  /\ index' = [n \in Nodes |-> index'[n]]
         /\ \A n \in Nodes : index'[n] \in [Hashes -> {0} \cup SlotsOf(n)]
<1>1. IndexOK /\ \A msg \in net : Linked(msg)
  BY DEF SlotsInv
<1>2. config \in Configurations /\ config.size \in 0..config.size
  BY TablesAssumption DEF TableInv
<1>3. CASE index' = index
  BY <1>1, <1>3 DEF IndexOK
<1>4. ASSUME NEW n \in Nodes, NEW who \in Nodes, NEW i \in SlotsOf(n), index' = Indexed(n, i, who)
      PROVE  /\ index' = [k \in Nodes |-> index'[k]]
             /\ \A k \in Nodes : index'[k] \in [Hashes -> {0} \cup SlotsOf(k)]
  <2>1. index' = [index EXCEPT ![n] = [index[n] EXCEPT ![Hash[who]] = i]]
    BY <1>4 DEF Indexed
  <2>2. [index[n] EXCEPT ![Hash[who]] = i] \in [Hashes -> {0} \cup SlotsOf(n)]
    BY <1>1 DEF IndexOK
  <2> QED BY <1>1, <2>1, <2>2 DEF IndexOK
<1>5. ASSUME NEW n, Initialized(n)
      PROVE  /\ index' = [k \in Nodes |-> index'[k]]
             /\ \A k \in Nodes : index'[k] \in [Hashes -> {0} \cup SlotsOf(k)]
  <2>1. EmptyIndex \in [Hashes -> {0}]
    BY DEF EmptyIndex
  <2> QED BY <1>1, <1>5, <2>1 DEF Initialized, IndexOK
<1>6. ASSUME NEW msg, msg.to \in Masters, HandleRequest(msg.to, msg), index' # index
      PROVE  \E n \in Nodes, who \in Nodes : \E i \in SlotsOf(n) : index' = Indexed(n, i, who)
  <2> DEFINE m == msg.to
             i == Find(m, msg.from, msg.from, config.size)
  <2>1. i # 0 /\ index' = Indexed(m, i, msg.from) /\ msg \in net /\ msg.kind = "request"
    BY <1>6 DEF HandleRequest, AnswerWithoutSlot, GrantRequest, Deliver
  <2>2. msg.from \in Nodes /\ m \in Nodes
    BY <1>1, <1>6, <2>1 DEF Linked, Nodes
  <2>3. i \in SlotsOf(m)
    BY <1>2, <2>1, <2>2, FoundFor
  <2> QED BY <2>1, <2>2, <2>3
<1>7. ASSUME NEW msg, msg.to \in Slaves, HandleGrant(msg.to, msg)
      PROVE  \E n \in Nodes, who \in Nodes : \E i \in SlotsOf(n) : index' = Indexed(n, i, who)
  <2> DEFINE s == msg.to
             i == Find(s, msg.from, msg.from, Count(s))
  <2>1. index' = Indexed(s, i, msg.from) /\ msg \in net /\ msg.kind \in {"grant", "deny"}
    BY <1>7 DEF HandleGrant, Deliver
  <2>2. msg.from \in Peers(s)
    BY <1>1, <2>1 DEF Linked
  <2>3. /\ Count(s) \in Count(s)..config.size /\ 1..Count(s) \subseteq SlotsOf(s)
        /\ Peers(s) \subseteq Masters
    BY <1>2, <1>7, DestinationsOf
  <2>4. i \in SlotsOf(s)
    BY <1>7, <2>2, <2>3, FoundPeer
  <2>5. msg.from \in Nodes /\ s \in Nodes
    BY <1>7, <2>2, <2>3 DEF Nodes
  <2> QED BY <2>1, <2>4, <2>5
<1>8. ASSUME NEW n, Refresh(n)
      PROVE  index' = index
  BY <1>8 DEF Refresh, RefreshSlave, RefreshMaster
<1>9. ASSUME NEW msg, HandleSignaling(msg)
      PROVE  index' = index \/ \E n \in Nodes, who \in Nodes : \E i \in SlotsOf(n) :
                                 index' = Indexed(n, i, who)
  <2>1. ASSUME HandleCancel(msg.to, msg) \/ HandleAck(msg.to, msg) \/ IgnoreSignal(msg.to, msg)
        PROVE  index' = index
    BY <2>1 DEF HandleCancel, HandleAck, IgnoreSignal, Ignore
  <2> QED BY <1>6, <1>7, <1>9, <2>1 DEF HandleSignaling
<1>10. ASSUME NEW msg, AckWithoutSlot(msg.to, msg)
       PROVE  Initialized(msg.to)
  BY <1>10 DEF AckWithoutSlot
<1>11. ASSUME NEW s \in Slaves, NEW m \in Masters, Messages(s, m)
       PROVE  index' = index
  BY <1>11 DEF Messages, HearTiming, HearAnnounce
<1>12. ASSUME NEW m \in Masters, BecomeMaster(m) \/ InitializeMaster(m)
       PROVE  index' = index \/ Initialized(m)
  BY <1>12 DEF BecomeMaster, InitializeMaster
<1>13. ASSUME Disturbance
       PROVE  index' = index \/ \E s \in Slaves : Initialized(s)
  BY <1>13 DEF Disturbance, LeaveSlave, RestartSlave, UpdateGrantTable, LeaveMaster
<1>14. EndRound \/ (\E msg \in net : Lose(msg)) => index' = index
  BY DEF EndRound, Lose, Ignore
<1> QED BY <1>3, <1>4, <1>5, <1>8, <1>9, <1>10, <1>11, <1>12, <1>13, <1>14, Zenon DEF Next, Handle

-----------------------------------------------------------------------------
ParentsSame ==
  /\ parentDS' = parentDS /\ parentGrants' = parentGrants
  /\ previousGrants' = previousGrants \/ \E s \in Slaves : previousGrants' = [previousGrants EXCEPT ![s] = 0]

(* The state of a node that becomes no slave.                              *)
StateStep ==
  portState' = portState \/ \E n, state : /\ state # "SLAVE"
                                          /\ portState' = [portState EXCEPT ![n] = state]

ParentsKept ==
  /\ portState' = [n \in Nodes |-> portState'[n]]
  /\ parentDS' = [s \in Slaves |-> parentDS'[s]]
  /\ parentGrants' = [s \in Slaves |-> parentGrants'[s]]
  /\ previousGrants' = [s \in Slaves |-> previousGrants'[s]]
  /\ \A s \in Slaves :
       /\ parentGrants'[s] \in 0..Count(s) /\ previousGrants'[s] \in 0..Count(s)
       /\ portState'[s] = "SLAVE" => parentDS'[s] \in Masters

LEMMA ParentsStay ==
  ASSUME TableInv, ParentsOK, ParentsSame, StateStep
  PROVE  ParentsKept
<1>1. \A s \in Slaves : Count(s) \in Nat /\ 0 \in 0..Count(s)
  BY DestinationsOf DEF TableInv
<1>2. /\ portState' = [n \in Nodes |-> portState'[n]]
      /\ \A s \in Slaves : portState'[s] = "SLAVE" => portState[s] = "SLAVE"
  BY DEF ParentsOK, StateStep, Nodes
<1>3. /\ previousGrants' = [s \in Slaves |-> previousGrants'[s]]
      /\ \A s \in Slaves : previousGrants'[s] \in {0, previousGrants[s]}
  BY DEF ParentsOK, ParentsSame
<1> QED BY <1>1, <1>2, <1>3 DEF ParentsOK, ParentsSame, ParentsKept

LEMMA SelectKeeps ==
  ASSUME TableInv, SlotsInv, NEW s \in Slaves, NEW best \in Masters, Select(s, best)
  PROVE  ParentsKept
<1>1. config \in Configurations
  BY DEF TableInv
<1>2. /\ config.size \in Nat /\ Count(s) \in 0..config.size
      /\ \A i \in SlotsOf(s) : Destination(s, i) # None => i \in 1..Count(s)
  BY <1>1, DestinationsOf
<1>3. s \in Nodes /\ best \in Nodes /\ best # None
  BY NodesAssumption DEF Nodes
<1> DEFINE i == Find(s, best, None, Count(s))
<1>4. i \in 0..Count(s)
  <2>1. /\ i \in {0} \cup SlotsOf(s)
        /\ \/ i # 0 /\ table[s][i].address = best
           \/ i \in 1..Count(s)
           \/ i = 0
    BY <1>2, <1>3, FoundFor
  <2> HIDE DEF i
  <2>2. \A j \in SlotsOf(s) : table[s][j].address = Destination(s, j)
    BY DEF SlotsInv, SlavesOK
  <2> QED BY <1>2, <1>3, <2>1, <2>2
<1>5. /\ previousGrants' = [previousGrants EXCEPT ![s] =
           IF parentDS[s] # best /\ parentGrants[s] # 0 THEN parentGrants[s] ELSE @]
      /\ parentDS' = [parentDS EXCEPT ![s] = best]
      /\ parentGrants' = [parentGrants EXCEPT ![s] = i]
      /\ portState' = [portState EXCEPT ![s] = "SLAVE"]
  BY DEF Select
<1> HIDE DEF i
<1>6. PICK p \in 0..Count(s) : previousGrants' = [previousGrants EXCEPT ![s] = p]
  <2>1. parentGrants[s] \in 0..Count(s) /\ previousGrants[s] \in 0..Count(s)
    BY DEF SlotsInv, ParentsOK
  <2> QED BY <1>5, <2>1
<1>7. ParentsOK /\ \A k \in Slaves : k \in Nodes
  BY DEF SlotsInv, Nodes
<1>8. /\ portState' = [n \in Nodes |-> portState'[n]]
      /\ parentDS' = [k \in Slaves |-> parentDS'[k]]
      /\ parentGrants' = [k \in Slaves |-> parentGrants'[k]]
      /\ previousGrants' = [k \in Slaves |-> previousGrants'[k]]
  BY <1>5, <1>6, <1>7 DEF ParentsOK
<1>9. ASSUME NEW k \in Slaves
      PROVE  /\ parentGrants'[k] \in 0..Count(k) /\ previousGrants'[k] \in 0..Count(k)
             /\ portState'[k] = "SLAVE" => parentDS'[k] \in Masters
  <2>1. k = s => /\ parentGrants'[k] = i /\ previousGrants'[k] = p
                 /\ parentDS'[k] = best
    BY <1>5, <1>6, <1>7 DEF ParentsOK
  <2>2. k # s => /\ parentGrants'[k] = parentGrants[k] /\ previousGrants'[k] = previousGrants[k]
                 /\ parentDS'[k] = parentDS[k] /\ portState'[k] = portState[k]
    BY <1>5, <1>6, <1>7 DEF ParentsOK
  <2> QED BY <1>4, <1>7, <2>1, <2>2 DEF ParentsOK
<1> QED BY <1>8, <1>9 DEF ParentsKept

LEMMA StepOfParents ==
  ASSUME TableInv, SlotsInv, Next
  PROVE  config' = config /\ ParentsKept
<1> USE DEF StateStep, ParentsSame
<1>1. ParentsOK
  BY DEF SlotsInv
<1>2. ASSUME NEW n, Refresh(n)
      PROVE  config' = config /\ ParentsSame /\ StateStep
  BY <1>2 DEF Refresh, RefreshSlave, RefreshMaster, slaveVars
<1>3. ASSUME EndRound
      PROVE  config' = config /\ ParentsSame /\ StateStep
  BY <1>3 DEF EndRound, slaveVars
<1>4. ASSUME NEW msg, HandleSignaling(msg)
      PROVE  config' = config /\ ParentsSame /\ StateStep
  BY <1>4 DEF HandleSignaling, HandleRequest, HandleGrant, HandleCancel, HandleAck, IgnoreSignal,
              Ignore, slaveVars
<1>5. ASSUME NEW msg, AckWithoutSlot(msg.to, msg)
      PROVE  config' = config /\ ParentsSame /\ StateStep
  BY <1>5 DEF AckWithoutSlot, slaveVars
<1>6. ASSUME NEW msg, Lose(msg)
      PROVE  config' = config /\ ParentsSame /\ StateStep
  BY <1>6 DEF Lose, Ignore, slaveVars
<1>7. ASSUME NEW s \in Slaves, NEW m \in Masters, Messages(s, m)
      PROVE  config' = config /\ ParentsKept
  <2>1. ASSUME NEW t, NEW mark, HearTiming(s, m, t, mark)
        PROVE  config' = config /\ ParentsSame /\ StateStep
    BY <2>1 DEF HearTiming, slaveVars
  <2>2. ASSUME NEW mark, HearAnnounce(s, m, mark)
        PROVE  config' = config /\ ParentsKept
    <3> DEFINE best == IF portState[s] = "SLAVE" /\ Rank[parentDS[s]] > Rank[m]
                       THEN parentDS[s] ELSE m
    <3>1. best \in Masters
      BY <1>1 DEF ParentsOK
    <3>2. Select(s, best) /\ config' = config
      BY <2>2 DEF HearAnnounce
    <3> HIDE DEF best
    <3> QED BY <3>1, <3>2, SelectKeeps
  <2>3. ASSUME NEW t, NEW mark, HearTiming(s, m, t, mark)
        PROVE  config' = config /\ ParentsKept
    BY <1>1, <2>1, <2>3, ParentsStay
  <2> QED BY <1>7, <2>2, <2>3, Zenon DEF Messages
<1>8. ASSUME NEW m \in Masters, BecomeMaster(m) \/ InitializeMaster(m)
      PROVE  config' = config /\ ParentsSame /\ StateStep
  BY <1>8 DEF BecomeMaster, InitializeMaster, slaveVars
<1>9. ASSUME NEW m, NEW state \in {"PASSIVE", "DISABLED"}, LeaveMaster(m, state)
      PROVE  config' = config /\ ParentsSame /\ StateStep
  BY <1>9 DEF LeaveMaster, slaveVars
<1>10. ASSUME NEW s \in Slaves, UpdateGrantTable(s)
       PROVE  config' = config /\ ParentsSame /\ StateStep
  BY <1>10 DEF UpdateGrantTable, slaveVars
<1>11. ASSUME NEW s \in Slaves, LeaveSlave(s) \/ RestartSlave(s)
       PROVE  config' = config /\ ParentsKept
  <2>1. /\ config' = config /\ portState' = [portState EXCEPT ![s] = "LISTENING"]
        /\ parentDS' = parentDS \/ parentDS' = [parentDS EXCEPT ![s] = None]
        /\ parentGrants' = [parentGrants EXCEPT ![s] = 0]
        /\ \/ previousGrants' = previousGrants
           \/ previousGrants' = [previousGrants EXCEPT ![s] = 0]
    BY <1>11 DEF LeaveSlave, RestartSlave
  <2>2. \A k \in Slaves : Count(k) \in Nat /\ 0 \in 0..Count(k)
    BY DestinationsOf DEF TableInv
  <2>3. s \in Nodes /\ \A k \in Slaves : k \in Nodes
    BY DEF Nodes
  <2>4. \A k \in Slaves : portState'[k] = "SLAVE" => portState[k] = "SLAVE" /\ k # s
    BY <1>1, <2>1, <2>3 DEF ParentsOK
  <2>5. /\ portState' = [n \in Nodes |-> portState'[n]]
        /\ parentDS' = [k \in Slaves |-> parentDS'[k]]
        /\ parentGrants' = [k \in Slaves |-> parentGrants'[k]]
        /\ previousGrants' = [k \in Slaves |-> previousGrants'[k]]
    BY <1>1, <2>1 DEF ParentsOK
  <2>6. \A k \in Slaves : /\ parentGrants'[k] \in 0..Count(k) /\ previousGrants'[k] \in 0..Count(k)
                          /\ k # s => parentDS'[k] = parentDS[k]
    BY <1>1, <2>1, <2>2 DEF ParentsOK
  <2> QED BY <1>1, <2>1, <2>4, <2>5, <2>6 DEF ParentsOK, ParentsKept
<1>12. ASSUME config' = config /\ ParentsSame /\ StateStep
       PROVE  config' = config /\ ParentsKept
  BY <1>1, <1>12, ParentsStay
<1> HIDE DEF StateStep, ParentsSame
<1>13. ASSUME Disturbance
       PROVE  config' = config /\ ParentsKept
  BY <1>9, <1>10, <1>11, <1>12, <1>13, Zenon DEF Disturbance
<1> QED BY <1>2, <1>3, <1>4, <1>5, <1>6, <1>7, <1>8, <1>12, <1>13, Zenon DEF Next, Handle

-----------------------------------------------------------------------------
LEMMA SlotsInvStep ==
  ASSUME TableInv, SlotsInv, Next
  PROVE  SlotsInv'
<1>1. TablesStep /\ NetStep /\ ParentsKept /\ config' = config
  BY StepOfSlots, StepOfNet, StepOfParents
<1>2. /\ Types' = Types /\ Hashes' = Hashes
      /\ \A n : SlotsOf(n)' = SlotsOf(n) /\ Count(n)' = Count(n) /\ Peers(n)' = Peers(n)
      /\ \A n, i : Destination(n, i)' = Destination(n, i)
  BY <1>1 DEF Types, Hashes, Hash, SlotsOf, Count, Peers, Destination
<1>3. MastersOK'
  BY <1>1, <1>2 DEF TablesStep, MasterTableOK, MastersOK, UseOK
<1>4. SlavesOK'
  <2>1. ASSUME NEW s \in Slaves
        PROVE  /\ table'[s] = [i \in SlotsOf(s) |-> table'[s][i]]
               /\ \A i \in SlotsOf(s) :
                    ShapeOK(Types, table'[s][i]) /\ table'[s][i].address = Destination(s, i)
    <3>1. /\ table'[s] = [i \in SlotsOf(s) |-> table'[s][i]]
          /\ \A i \in SlotsOf(s) : SlaveSlotStep(s, i, table'[s][i])
      BY <1>1, Zenon DEF TablesStep
    <3>2. \A i \in SlotsOf(s) : table[s][i].address = Destination(s, i)
      BY Zenon DEF SlotsInv, SlavesOK
    <3> QED BY <3>1, <3>2, Zenon DEF SlaveSlotStep
  <2>2. \A slot : ShapeOK(Types, slot)' = ShapeOK(Types, slot)
    BY <1>2 DEF ShapeOK, GrantOK
  <2> QED BY <1>1, <1>2, <2>1, <2>2 DEF SlavesOK, ShapeOK, GrantOK
<1>5. ParentsOK'
  BY <1>1, <1>2 DEF ParentsKept, ParentsOK
<1>6. IndexOK'
  BY <1>2, StepOfIndex DEF IndexOK
<1>7. \A msg \in net' : Linked(msg)'
  BY <1>1, <1>2 DEF NetStep, SlotsInv, Linked
<1> QED BY <1>3, <1>4, <1>5, <1>6, <1>7 DEF SlotsInv

LEMMA SlotsInvStays ==
  ASSUME SlotsInv, UNCHANGED vars
  PROVE  SlotsInv'
<1>1. UNCHANGED <<config, portState, table, index, parentDS, parentGrants, previousGrants, net>>
  BY DEF vars
<1>2. /\ Types' = Types /\ Hashes' = Hashes
      /\ \A n : SlotsOf(n)' = SlotsOf(n) /\ Count(n)' = Count(n) /\ Peers(n)' = Peers(n)
      /\ \A n, i : Destination(n, i)' = Destination(n, i)
  BY <1>1 DEF Types, Hashes, Hash, SlotsOf, Count, Peers, Destination
<1>3. MastersOK' /\ SlavesOK' /\ ParentsOK'
  BY <1>1, <1>2 DEF SlotsInv, MastersOK, UseOK, SlavesOK, ParentsOK
<1>4. IndexOK' /\ \A msg \in net' : Linked(msg)'
  BY <1>1, <1>2 DEF SlotsInv, IndexOK, Linked
<1> QED BY <1>3, <1>4 DEF SlotsInv

LEMMA SlotsInvInit ==
  ASSUME Init
  PROVE  SlotsInv
<1>1. /\ config \in Configurations /\ table = [n \in Nodes |-> EmptyTable(n)]
      /\ portState = [n \in Nodes |-> IF n \in Masters THEN "MASTER" ELSE "LISTENING"]
      /\ index = [n \in Nodes |-> EmptyIndex] /\ net = {}
      /\ parentDS = [s \in Slaves |-> None]
      /\ parentGrants = [s \in Slaves |-> 0] /\ previousGrants = [s \in Slaves |-> 0]
  BY DEF Init
<1>2. MastersOK
  BY <1>1, EmptyTableOK DEF MastersOK, MasterTableOK, Nodes
<1>3. SlavesOK
  BY <1>1, EmptyTableOK DEF SlavesOK, Nodes
<1>4. ParentsOK
  <2>1. \A s \in Slaves : 0 \in 0..Count(s)
    BY <1>1, DestinationsOf
  <2> QED BY <1>1, <2>1, NodesAssumption DEF ParentsOK, Nodes
<1>5. IndexOK
  BY <1>1 DEF IndexOK, EmptyIndex
<1> QED BY <1>1, <1>2, <1>3, <1>4, <1>5 DEF SlotsInv

(* Slots, the index and the signals in flight all name nodes that have to  *)
(* do with each other.                                                     *)
THEOREM SlotsInvariant == Spec => [](TableInv /\ SlotsInv)
<1>1. Init => SlotsInv
  BY SlotsInvInit
<1>2. TableInv /\ SlotsInv /\ [Next]_vars => SlotsInv'
  BY SlotsInvStep, SlotsInvStays
<1> QED BY <1>1, <1>2, TableInvariant, PTL DEF Spec

(* A node occupies one slot of a table only, for any number of nodes and   *)
(* slots and whatever the hashes of the index make collide.                *)
THEOREM OneSlotForANode == Spec => []OneSlotPerNode
<1>1. ASSUME TableInv, SlotsInv
      PROVE  OneSlotPerNode
  <2>1. ASSUME NEW n \in Nodes, ListedOnce(n), NEW i \in SlotsOf(n), NEW j \in SlotsOf(n), i # j
        PROVE  table[n][i].address = table[n][j].address => table[n][i].address = None
    <3>1. CASE n \in Masters
      BY <1>1, <2>1, <3>1 DEF SlotsInv, MastersOK
    <3>2. CASE n \in Slaves
      <4>1. /\ \A k \in SlotsOf(n) : table[n][k].address = Destination(n, k)
            /\ \A k \in SlotsOf(n) : Destination(n, k) # None => k \in 1..Count(n)
        BY <1>1, <3>2, DestinationsOf DEF SlotsInv, SlavesOK, TableInv
      <4> QED BY <2>1, <4>1 DEF ListedOnce
    <3> QED BY <3>1, <3>2 DEF Nodes
  <2>2. ASSUME NEW n \in Nodes, ListedOnce(n), NEW i \in SlotsOf(n), NEW j \in SlotsOf(n), i # j
        PROVE  table[n][i].identity = table[n][j].identity => table[n][i].identity = None
    BY <1>1, <2>1, <2>2, Named
  <2> QED BY <2>1, <2>2 DEF OneSlotPerNode
<1> QED BY <1>1, SlotsInvariant, PTL

----------------------------------------------------------------------------
(* The refinement: unicast negotiation implements UnicastLease.  What a    *)
(* slave relies on and what is offered to it, its master serves.  A master *)
(* counts the rounds of a grant as the slave does, GRACE longer; the proof *)
(* bounds by how much the two may differ while a question or an answer is  *)
(* lost, is on its way, or one of them has had its round and the other has *)
(* not.                                                                    *)

(* A slave has one destination at most, and no master fails or runs out of *)
(* room.                                                                   *)
Reliable ==
  /\ "master" \notin config.faults
  /\ \A s \in Slaves : ~(Count(s) > 1)
  /\ ~(Cardinality({s \in Slaves : Count(s) > 0}) > config.size)

IsSignal(msg, kind, from, to, t) ==
  msg.kind = kind /\ msg.from = from /\ msg.to = to /\ msg.type = t

(* The question of slave s for messages of type t, or its answer.          *)
IsToken(msg, s, m, t) ==
  /\ msg.type = t
  /\ \/ msg.kind = "request" /\ msg.from = s /\ msg.to = m
     \/ msg.kind \in {"grant", "deny"} /\ msg.from = m /\ msg.to = s

Has(R, n) == IF n \in R THEN 1 ELSE 0
Longer(a, b) == IF a < b THEN b ELSE a

(* The master's table T has a grant for the slave, for x rounds at least.  *)
Backed(T, s, t, x) ==
  \E i \in DOMAIN T : /\ T[i].address = s /\ T[i].grants[t].granted
                      /\ T[i].grants[t].timeLeft >= x

(* Of messages N in flight, nodes R whose refresh is done, the table T of  *)
(* the master and the grant g of the slave.                                *)
LinkOK(s, m, t, N, R, T, g) ==
  /\ \A a, b \in N : IsToken(a, s, m, t) /\ IsToken(b, s, m, t) => a = b
  /\ \A a \in N : IsToken(a, s, m, t) => s \in R
  /\ g.granted =>
       /\ g.timeLeft <= unicastGrantDuration
       /\ Backed(T, s, t, Longer(g.timeLeft, EXPIRY) + GRACE - 1 + Has(R, s) - Has(R, m))
  /\ \A a \in N : IsSignal(a, "grant", m, s, t)
                    => Backed(T, s, t, unicastGrantDuration + GRACE - Has(R, m))
  /\ \A a \in N : IsSignal(a, "cancel", m, s, t) /\ g.granted
                    => s \in R /\ \A b \in N : ~IsToken(b, s, m, t)
  /\ \A a \in N : IsSignal(a, "ack", s, m, t)
                    => s \in R /\ ~g.granted /\ \A b \in N : ~IsToken(b, s, m, t)

LinksOK ==
  \A s \in Slaves : \A m \in Peers(s) : \A t \in Types :
     LinkOK(s, m, t, net, refreshed, table[m], table[s][1].grants[t])
SendersOK ==
  \A msg \in net : /\ msg.kind = "cancel" => msg.from \in Masters
                   /\ msg.kind = "ack" => msg.from \in Slaves
ParentOK(s) ==
  /\ previousGrants[s] = 0 /\ parentDS[s] \in Peers(s) \cup {None}
  /\ parentDS[s] = None => parentGrants[s] = 0

LeaseInv ==
  Reliable => /\ LinksOK /\ SendersOK
              /\ \A m \in Masters : portState[m] = "MASTER"
              /\ \A s \in Slaves : ParentOK(s)

-----------------------------------------------------------------------------
TimesOK(T, t) == \A i \in DOMAIN T : T[i].grants[t].timeLeft \in Nat
Between(msg, s, m, t) ==
  /\ msg.type = t
  /\ \/ msg.from = s /\ msg.to = m
     \/ msg.from = m /\ msg.to = s

LEMMA TimesHeld ==
  ASSUME TableInv, SlotsInv, NEW n \in Nodes
  PROVE  /\ DOMAIN table[n] = SlotsOf(n)
         /\ \A t \in Types : TimesOK(table[n], t)
         /\ \A i \in SlotsOf(n) : \A t \in Types :
              GrantOK(table[n][i].grants[t]) /\ table[n][i].grants[t].timeLeft \in Nat
<1>1. /\ DOMAIN table[n] = SlotsOf(n)
      /\ \A i \in SlotsOf(n) : \A t \in Types : GrantOK(table[n][i].grants[t])
  BY ShapeOfSlots DEF ShapeOK
<1>2. \A g : GrantOK(g) => g.timeLeft \in Nat
  BY TimesAssumption DEF GrantOK, MaxTime
<1> QED BY <1>1, <1>2 DEF TimesOK

LEMMA OnlyPeer ==
  ASSUME TableInv, SlotsInv, Reliable, NEW s \in Slaves, NEW m \in Peers(s)
  PROVE  /\ Count(s) = 1 /\ Peers(s) = {m} /\ m \in Masters /\ 1 \in SlotsOf(s)
         /\ Destination(s, 1) = m /\ table[s][1].address = m
         /\ s \in Nodes /\ m \in Nodes /\ s # m /\ m # None /\ s # None
<1>1. config \in Configurations
  BY DEF TableInv
<1>2. /\ config.size \in Nat /\ Count(s) \in 0..config.size /\ Peers(s) \subseteq Masters
      /\ 1..Count(s) \subseteq SlotsOf(s)
      /\ \A k \in Peers(s) : \E i \in 1..Count(s) : k = Destination(s, i)
  BY <1>1, DestinationsOf
<1>3. Count(s) = 1
  BY <1>2 DEF Reliable
<1>4. 1 \in SlotsOf(s) /\ \A k \in Peers(s) : k = Destination(s, 1)
  BY <1>2, <1>3
<1>5. table[s][1].address = Destination(s, 1)
  BY <1>4 DEF SlotsInv, SlavesOK
<1> QED BY <1>2, <1>3, <1>4, <1>5, NodesAssumption DEF Nodes

-----------------------------------------------------------------------------
LEMMA BackedLess ==
  ASSUME NEW T, NEW s, NEW t, TimesOK(T, t), NEW x \in Int, NEW y \in Int, y <= x, Backed(T, s, t, x)
  PROVE  Backed(T, s, t, y)
BY DEF Backed, TimesOK

(* What is enough of a grant of the slave. *)
LEMMA Enough ==
  ASSUME NEW R, NEW s, NEW m, NEW g, GrantOK(g)
  PROVE  /\ Has(R, s) \in {0, 1} /\ Has(R, m) \in {0, 1} /\ g.timeLeft \in Nat
         /\ Longer(g.timeLeft, EXPIRY) \in Nat
         /\ Longer(g.timeLeft, EXPIRY) >= EXPIRY /\ Longer(g.timeLeft, EXPIRY) >= g.timeLeft
         /\ Longer(g.timeLeft, EXPIRY) + GRACE - 1 + Has(R, s) - Has(R, m) \in Nat \ {0}
         /\ unicastGrantDuration + GRACE - Has(R, m) \in Nat \ {0}
<1>1. g.timeLeft \in Nat
  BY TimesAssumption DEF GrantOK, MaxTime
<1> QED BY <1>1, TimesAssumption, GraceAssumption DEF Longer, Has

(* A step that concerns no message between the two, gives the slave no     *)
(* more and leaves what the master has.                                    *)
LEMMA LinkKept ==
  ASSUME NEW s, NEW m, NEW t, NEW N, NEW R, NEW T, NEW g, LinkOK(s, m, t, N, R, T, g),
         NEW M, NEW Q, NEW U, NEW h, GrantOK(g), GrantOK(h), TimesOK(U, t),
         h.granted => g.granted /\ h.timeLeft <= g.timeLeft,
         \A x \in Nat \ {0} : Backed(T, s, t, x) => Backed(U, s, t, x),
         s \in Q <=> s \in R, m \in Q <=> m \in R,
         \A msg \in M : Between(msg, s, m, t) => msg \in N
  PROVE  LinkOK(s, m, t, M, Q, U, h)
<1>1. \A a \in M : \/ IsToken(a, s, m, t) \/ IsSignal(a, "grant", m, s, t)
                   \/ IsSignal(a, "cancel", m, s, t) \/ IsSignal(a, "ack", s, m, t)
                   => a \in N
  BY DEF IsToken, IsSignal, Between
<1>2. Has(Q, s) = Has(R, s) /\ Has(Q, m) = Has(R, m)
  BY DEF Has
<1>3. ASSUME h.granted
      PROVE  /\ h.timeLeft <= unicastGrantDuration
             /\ Backed(U, s, t, Longer(h.timeLeft, EXPIRY) + GRACE - 1 + Has(Q, s) - Has(Q, m))
  <2> DEFINE x == Longer(g.timeLeft, EXPIRY) + GRACE - 1 + Has(R, s) - Has(R, m)
             y == Longer(h.timeLeft, EXPIRY) + GRACE - 1 + Has(Q, s) - Has(Q, m)
  <2>1. g.granted /\ h.timeLeft <= g.timeLeft
    BY <1>3
  <2>2. g.timeLeft <= unicastGrantDuration /\ Backed(T, s, t, x)
    BY <2>1 DEF LinkOK
  <2>3. /\ x \in Nat \ {0} /\ y \in Nat \ {0} /\ g.timeLeft \in Nat /\ h.timeLeft \in Nat
        /\ Has(R, s) \in {0, 1} /\ Has(R, m) \in {0, 1}
    BY Enough
  <2>4. y <= x
    BY <1>2, <2>1, <2>3, TimesAssumption DEF Longer
  <2> HIDE DEF x, y
  <2>5. Backed(U, s, t, x)
    BY <2>2, <2>3
  <2>6. Backed(U, s, t, y)
    BY <2>3, <2>4, <2>5, BackedLess
  <2>7. h.timeLeft <= unicastGrantDuration
    BY <2>1, <2>2, <2>3, TimesAssumption
  <2> QED BY <2>6, <2>7 DEF y
<1>4. ASSUME NEW a \in M, IsSignal(a, "grant", m, s, t)
      PROVE  Backed(U, s, t, unicastGrantDuration + GRACE - Has(Q, m))
  <2> DEFINE x == unicastGrantDuration + GRACE - Has(R, m)
  <2>1. Backed(T, s, t, x) /\ x \in Nat \ {0}
    BY <1>1, <1>4, Enough DEF LinkOK
  <2> HIDE DEF x
  <2>2. Backed(U, s, t, x)
    BY <2>1
  <2> QED BY <1>2, <2>2 DEF x
<1>5. /\ \A a, b \in M : IsToken(a, s, m, t) /\ IsToken(b, s, m, t) => a = b
      /\ \A a \in M : IsToken(a, s, m, t) => s \in Q
  BY <1>1 DEF LinkOK
<1>6. ASSUME NEW a \in M, IsSignal(a, "cancel", m, s, t), h.granted
      PROVE  s \in Q /\ \A b \in M : ~IsToken(b, s, m, t)
  BY <1>1, <1>6 DEF LinkOK
<1>7. ASSUME NEW a \in M, IsSignal(a, "ack", s, m, t)
      PROVE  s \in Q /\ ~h.granted /\ \A b \in M : ~IsToken(b, s, m, t)
  BY <1>1, <1>7, Zenon DEF LinkOK
<1> QED BY <1>3, <1>4, <1>5, <1>6, <1>7 DEF LinkOK

-----------------------------------------------------------------------------
(* refreshUnicastGrants() of the slave: one round less, or a new question. *)
LEMMA SlaveRefreshesLink ==
  ASSUME NEW s, NEW m, NEW t, NEW N, NEW R, NEW T, NEW g, LinkOK(s, m, t, N, R, T, g),
         GrantOK(g), TimesOK(T, t), s # m, s \notin R,
         NEW h, GrantOK(h),
         h.granted => g.granted /\ ~Expired(g) /\ h.timeLeft <= g.timeLeft - 1,
         NEW M, NEW r, r.kind = "request",
         \A a \in M : Between(a, s, m, t) => a \in N \/ (a = r /\ ~h.granted)
  PROVE  LinkOK(s, m, t, M, R \cup {s}, T, h)
<1> DEFINE Q == R \cup {s}
<1>1. Has(R, s) = 0 /\ Has(Q, s) = 1 /\ Has(Q, m) = Has(R, m) /\ Has(R, m) \in {0, 1}
  BY DEF Has
<1>2. \A a \in N : ~IsToken(a, s, m, t) /\ ~IsSignal(a, "grant", m, s, t)
                     /\ ~IsSignal(a, "ack", s, m, t)
  BY DEF LinkOK, IsToken, IsSignal
<1>3. \A a \in M : IsToken(a, s, m, t) => a = r /\ ~h.granted
  BY <1>2 DEF Between, IsToken
<1>4. \A a \in M : ~IsSignal(a, "grant", m, s, t) /\ ~IsSignal(a, "ack", s, m, t)
  BY <1>2 DEF Between, IsSignal
<1>5. ASSUME h.granted
      PROVE  /\ h.timeLeft <= unicastGrantDuration
             /\ Backed(T, s, t, Longer(h.timeLeft, EXPIRY) + GRACE - 1 + Has(Q, s) - Has(Q, m))
  <2> DEFINE x == Longer(g.timeLeft, EXPIRY) + GRACE - 1 + Has(R, s) - Has(R, m)
             y == Longer(h.timeLeft, EXPIRY) + GRACE - 1 + Has(Q, s) - Has(Q, m)
  <2>1. /\ g.granted /\ ~(g.timeLeft <= EXPIRY) /\ h.timeLeft <= g.timeLeft - 1
        /\ g.timeLeft <= unicastGrantDuration /\ Backed(T, s, t, x)
    BY <1>5 DEF LinkOK, Expired
  <2>2. x \in Nat \ {0} /\ y \in Nat \ {0} /\ g.timeLeft \in Nat /\ h.timeLeft \in Nat
    BY Enough
  <2>3. y <= x /\ h.timeLeft <= unicastGrantDuration
    BY <1>1, <2>1, <2>2, TimesAssumption DEF Longer
  <2> HIDE DEF x, y
  <2>4. Backed(T, s, t, y)
    BY <2>1, <2>2, <2>3, BackedLess
  <2> QED BY <2>3, <2>4 DEF y
<1> QED BY <1>3, <1>4, <1>5 DEF LinkOK

(* refreshUnicastGrants() of the master: one round less, and what it       *)
(* withdraws nobody relies on.                                             *)
LEMMA MasterRefreshesLink ==
  ASSUME NEW s, NEW m, NEW t, NEW N, NEW R, NEW T, NEW g, LinkOK(s, m, t, N, R, T, g),
         GrantOK(g), TimesOK(T, t), s # m, m \notin R, NEW U, TimesOK(U, t),
         \A x \in Nat : x > EXPIRY /\ Backed(T, s, t, x) => Backed(U, s, t, x - 1),
         NEW M,
         \A a \in M : Between(a, s, m, t)
                        => a \in N \/ (a.kind = "cancel" /\ ~Backed(T, s, t, EXPIRY + 1))
  PROVE  LinkOK(s, m, t, M, R \cup {m}, U, g)
<1> DEFINE Q == R \cup {m}
           x == Longer(g.timeLeft, EXPIRY) + GRACE - 1 + Has(R, s) - Has(R, m)
           z == unicastGrantDuration + GRACE - Has(R, m)
<1>1. Has(R, m) = 0 /\ Has(Q, m) = 1 /\ Has(Q, s) = Has(R, s)
  BY DEF Has
<1>2. /\ x \in Nat /\ x >= EXPIRY + 1 /\ z \in Nat /\ z >= EXPIRY + 1
      /\ x > EXPIRY /\ z > EXPIRY /\ EXPIRY + 1 \in Int
      /\ x - 1 = Longer(g.timeLeft, EXPIRY) + GRACE - 1 + Has(Q, s) - Has(Q, m)
      /\ z - 1 = unicastGrantDuration + GRACE - Has(Q, m)
  <2>1. Has(R, s) \in {0, 1} /\ Longer(g.timeLeft, EXPIRY) \in Nat
        /\ Longer(g.timeLeft, EXPIRY) >= EXPIRY /\ g.timeLeft \in Nat
    BY Enough
  <2> QED BY <1>1, <2>1, TimesAssumption, GraceAssumption
<1>3. g.granted => /\ g.timeLeft <= unicastGrantDuration /\ Backed(T, s, t, x)
  BY DEF LinkOK
<1>4. \A a \in N : IsSignal(a, "grant", m, s, t) => Backed(T, s, t, z)
  BY DEF LinkOK
<1>5. \A a \in M : \/ IsToken(a, s, m, t) \/ IsSignal(a, "grant", m, s, t)
                   \/ IsSignal(a, "ack", s, m, t)
                   => a \in N
  BY DEF Between, IsSignal, IsToken
<1> HIDE DEF x, z
<1>6. g.granted => g.timeLeft <= unicastGrantDuration /\ Backed(U, s, t, x - 1)
  BY <1>2, <1>3
<1>7. \A a \in M : IsSignal(a, "grant", m, s, t) => Backed(U, s, t, z - 1)
  BY <1>2, <1>4, <1>5
<1>8. /\ \A a, b \in M : IsToken(a, s, m, t) /\ IsToken(b, s, m, t) => a = b
      /\ \A a \in M : IsToken(a, s, m, t) => s \in Q
      /\ \A a \in M : IsSignal(a, "ack", s, m, t)
                    => s \in Q /\ ~g.granted /\ \A b \in M : ~IsToken(b, s, m, t)
  BY <1>5, Zenon DEF LinkOK
<1>9. ASSUME NEW a \in M, IsSignal(a, "cancel", m, s, t), g.granted
      PROVE  s \in Q /\ \A b \in M : ~IsToken(b, s, m, t)
  <2>1. a \in N
    <3>1. x \in Int /\ EXPIRY + 1 <= x /\ Backed(T, s, t, x)
      BY <1>2, <1>3, <1>9
    <3>2. Backed(T, s, t, EXPIRY + 1)
      BY <1>2, <3>1, BackedLess
    <3>3. Between(a, s, m, t)
      BY <1>9 DEF Between, IsSignal
    <3> QED BY <3>2, <3>3
  <2> QED BY <1>5, <1>9, <2>1 DEF LinkOK
<1> QED BY <1>2, <1>6, <1>7, <1>8, <1>9 DEF LinkOK

(* The round is over. *)
LEMMA LinkRestarts ==
  ASSUME NEW s, NEW m, NEW t, NEW N, NEW R, NEW T, NEW g, LinkOK(s, m, t, N, R, T, g),
         s \in R, m \in R
  PROVE  LinkOK(s, m, t, {}, {}, T, g)
<1>1. /\ Longer(g.timeLeft, EXPIRY) + GRACE - 1 + Has(R, s) - Has(R, m)
           = Longer(g.timeLeft, EXPIRY) + GRACE - 1 + Has({}, s) - Has({}, m)
      \/ ~(Longer(g.timeLeft, EXPIRY) \in Int)
  BY GraceAssumption, TimesAssumption DEF Has
<1> QED BY <1>1 DEF LinkOK, Has

(* handleSMRequestUnicastTransmission() answers the slave's question.      *)
LEMMA RequestOfLink ==
  ASSUME NEW s, NEW m, NEW t, NEW N, NEW R, NEW T, NEW g, LinkOK(s, m, t, N, R, T, g),
         GrantOK(g), NEW r \in N, IsSignal(r, "request", s, m, t),
         NEW kind \in {"grant", "deny"}, NEW a, IsSignal(a, kind, m, s, t), s # m,
         NEW M, \A b \in M : Between(b, s, m, t) => b = a \/ (b \in N /\ b # r),
         NEW U, TimesOK(U, t),
         kind = "grant" => Backed(U, s, t, unicastGrantDuration + GRACE),
         kind = "deny" => \A x \in Nat \ {0} : Backed(T, s, t, x) => Backed(U, s, t, x)
  PROVE  LinkOK(s, m, t, M, R, U, g)
<1>1. IsToken(r, s, m, t) /\ IsToken(a, s, m, t)
  BY DEF IsToken, IsSignal
<1>2. s \in R /\ \A b \in N : /\ IsToken(b, s, m, t) => b = r
                              /\ ~IsSignal(b, "ack", s, m, t)
                              /\ IsSignal(b, "cancel", m, s, t) => ~g.granted
  BY <1>1, Zenon DEF LinkOK
<1>3. \A b \in M : /\ IsToken(b, s, m, t) => b = a
                   /\ ~IsSignal(b, "ack", s, m, t)
                   /\ IsSignal(b, "cancel", m, s, t) => ~g.granted
  <2>1. \A b : IsToken(b, s, m, t) \/ IsSignal(b, "ack", s, m, t) \/ IsSignal(b, "cancel", m, s, t)
                 => Between(b, s, m, t)
    BY DEF IsToken, IsSignal, Between
  <2>2. ~IsSignal(a, "ack", s, m, t) /\ ~IsSignal(a, "cancel", m, s, t)
    BY DEF IsSignal
  <2> QED BY <1>2, <2>1, <2>2, Zenon
<1>4. ASSUME NEW y \in Nat \ {0}, Backed(T, s, t, y), y <= unicastGrantDuration + GRACE
      PROVE  Backed(U, s, t, y)
  <2>1. kind = "grant" => Backed(U, s, t, y)
    BY <1>4, BackedLess, TimesAssumption
  <2> QED BY <1>4, <2>1
<1>5. ASSUME g.granted
      PROVE  /\ g.timeLeft <= unicastGrantDuration
             /\ Backed(U, s, t, Longer(g.timeLeft, EXPIRY) + GRACE - 1 + Has(R, s) - Has(R, m))
  <2> DEFINE x == Longer(g.timeLeft, EXPIRY) + GRACE - 1 + Has(R, s) - Has(R, m)
  <2>1. g.timeLeft <= unicastGrantDuration /\ Backed(T, s, t, x)
    BY <1>5 DEF LinkOK
  <2>2. x \in Nat \ {0} /\ Has(R, s) \in {0, 1} /\ Has(R, m) \in {0, 1} /\ g.timeLeft \in Nat
    BY Enough
  <2>3. x <= unicastGrantDuration + GRACE
    BY <2>1, <2>2, TimesAssumption, GraceAssumption DEF Longer
  <2> HIDE DEF x
  <2>4. Backed(U, s, t, x)
    BY <1>4, <2>1, <2>2, <2>3
  <2> QED BY <2>1, <2>4 DEF x
<1>6. ASSUME NEW b \in M, IsSignal(b, "grant", m, s, t)
      PROVE  Backed(U, s, t, unicastGrantDuration + GRACE - Has(R, m))
  <2> DEFINE x == unicastGrantDuration + GRACE - Has(R, m)
  <2>1. IsToken(b, s, m, t)
    BY <1>6 DEF IsToken, IsSignal
  <2>2. kind = "grant"
    BY <1>3, <1>6, <2>1 DEF IsSignal
  <2>3. x \in Int /\ unicastGrantDuration + GRACE \in Int /\ x <= unicastGrantDuration + GRACE
    BY TimesAssumption DEF Has
  <2> HIDE DEF x
  <2>4. Backed(U, s, t, x)
    BY <2>2, <2>3, BackedLess
  <2> QED BY <2>4 DEF x
<1> QED BY <1>2, <1>3, <1>5, <1>6 DEF LinkOK

(* The slave takes the answer. *)
LEMMA GrantOfLink ==
  ASSUME NEW s, NEW m, NEW t, NEW N, NEW R, NEW T, NEW g, LinkOK(s, m, t, N, R, T, g),
         GrantOK(g), TimesOK(T, t), NEW r \in N, IsToken(r, s, m, t),
         NEW M, \A b \in M : Between(b, s, m, t) => b \in N /\ b # r,
         NEW h, GrantOK(h),
         h.granted => \/ g.granted /\ h.timeLeft <= g.timeLeft
                      \/ IsSignal(r, "grant", m, s, t) /\ h.timeLeft = unicastGrantDuration
  PROVE  LinkOK(s, m, t, M, R, T, h)
<1>1. s \in R /\ \A b \in N : /\ IsToken(b, s, m, t) => b = r
                              /\ ~IsSignal(b, "ack", s, m, t)
  BY Zenon DEF LinkOK
<1>2. \A b \in M : /\ ~IsToken(b, s, m, t) /\ ~IsSignal(b, "ack", s, m, t)
                   /\ ~IsSignal(b, "grant", m, s, t)
  <2>1. \A b : IsToken(b, s, m, t) \/ IsSignal(b, "ack", s, m, t)
                 => Between(b, s, m, t)
    BY DEF IsToken, IsSignal, Between
  <2>2. \A b : IsSignal(b, "grant", m, s, t) => IsToken(b, s, m, t)
    BY DEF IsToken, IsSignal
  <2> QED BY <1>1, <2>1, <2>2, Zenon
<1>3. ASSUME h.granted
      PROVE  /\ h.timeLeft <= unicastGrantDuration
             /\ Backed(T, s, t, Longer(h.timeLeft, EXPIRY) + GRACE - 1 + Has(R, s) - Has(R, m))
  <2> DEFINE x == Longer(g.timeLeft, EXPIRY) + GRACE - 1 + Has(R, s) - Has(R, m)
             z == unicastGrantDuration + GRACE - Has(R, m)
             y == Longer(h.timeLeft, EXPIRY) + GRACE - 1 + Has(R, s) - Has(R, m)
  <2>1. /\ x \in Int /\ y \in Int /\ z \in Int /\ g.timeLeft \in Nat /\ h.timeLeft \in Nat
        /\ Has(R, m) \in {0, 1} /\ Has(R, s) = 1
    <3>1. x \in Nat \ {0} /\ z \in Nat \ {0} /\ g.timeLeft \in Nat /\ Has(R, m) \in {0, 1}
      BY Enough
    <3>2. y \in Nat \ {0} /\ h.timeLeft \in Nat
      BY Enough
    <3>3. Has(R, s) = 1
      BY <1>1 DEF Has
    <3> HIDE DEF x, y, z
    <3> QED BY <3>1, <3>2, <3>3
  <2>2. CASE g.granted /\ h.timeLeft <= g.timeLeft
    <3>1. g.timeLeft <= unicastGrantDuration /\ Backed(T, s, t, x)
      BY <2>2 DEF LinkOK
    <3>2. y <= x /\ h.timeLeft <= unicastGrantDuration
      BY <2>1, <2>2, <3>1, TimesAssumption DEF Longer
    <3> HIDE DEF x, y
    <3>3. Backed(T, s, t, y)
      BY <2>1, <3>1, <3>2, BackedLess
    <3> QED BY <3>2, <3>3 DEF y
  <2>3. CASE IsSignal(r, "grant", m, s, t) /\ h.timeLeft = unicastGrantDuration
    <3>1. Backed(T, s, t, z)
      BY <2>3 DEF LinkOK
    <3>2. y <= z /\ h.timeLeft <= unicastGrantDuration
      BY <2>1, <2>3, TimesAssumption, GraceAssumption DEF Longer
    <3> HIDE DEF z, y
    <3>3. Backed(T, s, t, y)
      BY <2>1, <3>1, <3>2, BackedLess
    <3> QED BY <3>2, <3>3 DEF y
  <2> QED BY <1>3, <2>2, <2>3
<1> QED BY <1>1, <1>2, <1>3 DEF LinkOK

(* The slave acknowledges a cancellation. *)
LEMMA CancelOfLink ==
  ASSUME NEW s, NEW m, NEW t, NEW N, NEW R, NEW T, NEW g, LinkOK(s, m, t, N, R, T, g),
         NEW r \in N, IsSignal(r, "cancel", m, s, t), g.granted,
         NEW M, NEW a, a.kind = "ack", \A b \in M : b \in N \/ b = a,
         NEW h, ~h.granted
  PROVE  LinkOK(s, m, t, M, R, T, h)
<1>1. s \in R /\ \A b \in N : ~IsToken(b, s, m, t)
  BY DEF LinkOK
<1>2. \A b \in M : ~IsToken(b, s, m, t) /\ ~IsSignal(b, "grant", m, s, t)
  BY <1>1 DEF IsToken, IsSignal
<1> QED BY <1>1, <1>2, Zenon DEF LinkOK

(* The master takes the acknowledgment. *)
LEMMA AckOfLink ==
  ASSUME NEW s, NEW m, NEW t, NEW N, NEW R, NEW T, NEW g, LinkOK(s, m, t, N, R, T, g),
         NEW r \in N, IsSignal(r, "ack", s, m, t),
         NEW M, M \subseteq N, NEW U
  PROVE  LinkOK(s, m, t, M, R, U, g)
<1>1. s \in R /\ ~g.granted /\ \A b \in N : ~IsToken(b, s, m, t)
  BY Zenon DEF LinkOK
<1>2. \A b \in M : ~IsToken(b, s, m, t) /\ ~IsSignal(b, "grant", m, s, t)
  BY <1>1 DEF IsToken, IsSignal
<1> QED BY <1>1, <1>2, Zenon DEF LinkOK

-----------------------------------------------------------------------------
(* A reliable master has a slot for each of its slaves: those in use are   *)
(* of different slaves, of which there are no more than slots.             *)
LEMMA FoundRequester ==
  ASSUME TableInv, SlotsInv, Reliable, NEW s \in Slaves, NEW m \in Peers(s)
  PROVE  LET i == Find(m, s, s, config.size) IN
         /\ i \in SlotsOf(m)
         /\ table[m][i].address = s \/ table[m][i].timeLeft = 0
<1> DEFINE i == Find(m, s, s, config.size)
           Served == {k \in Slaves : Count(k) > 0}
           Others == Served \ {s}
<1>1. /\ s \in Nodes /\ m \in Nodes /\ m \in Masters /\ s # None /\ Count(s) = 1
      /\ config.size \in Nat /\ config.size \in 0..config.size /\ SlotsOf(m) = 1..config.size
  <2>1. /\ s \in Nodes /\ m \in Nodes /\ m \in Masters /\ s # None /\ Count(s) = 1
    BY OnlyPeer
  <2>2. config.size \in Nat
    BY TablesAssumption DEF TableInv
  <2> QED BY <2>1, <2>2 DEF SlotsOf
<1>2. /\ i \in {0} \cup SlotsOf(m)
      /\ \/ i # 0 /\ table[m][i].address = s
         \/ /\ \A j \in SlotsOf(m) : table[m][j].address # s
            /\ \/ i \in SlotsOf(m) /\ table[m][i].timeLeft = 0
               \/ i = 0 /\ \A j \in SlotsOf(m) : table[m][j].timeLeft # 0
  <2>1. s \in {s, None}
    OBVIOUS
  <2>2. /\ i \in {0} \cup SlotsOf(m)
        /\ \/ i # 0 /\ table[m][i].address = s
           \/ /\ \A j \in 1..config.size : table[m][j].identity # s
                                           /\ (s = s => table[m][j].address # s)
              /\ \/ i \in 1..config.size /\ table[m][i].timeLeft = 0
                 \/ i = 0 /\ \A j \in 1..config.size : table[m][j].timeLeft # 0
    BY <1>1, <2>1, FoundFor
  <2> HIDE DEF i
  <2> QED BY <1>1, <2>2
<1>3. ASSUME i = 0
      PROVE  FALSE
  <2> DEFINE f == [j \in SlotsOf(m) |-> table[m][j].address]
  <2>1. \A j \in SlotsOf(m) : table[m][j].address # s /\ table[m][j].timeLeft # 0
    <3> HIDE DEF i
    <3>1. 0 \notin SlotsOf(m)
      BY <1>1
    <3> QED BY <1>2, <1>3, <3>1
  <2>2. IsFiniteSet(Served) /\ Cardinality(Served) <= config.size
    <3>1. IsFiniteSet(Served) /\ Cardinality(Served) \in Nat
      BY NodesAssumption, FS_Subset, FS_CardinalityType
    <3> QED BY <1>1, <3>1 DEF Reliable
  <2>3. s \in Served
    BY <1>1
  <2> HIDE DEF Served
  <2>4. IsFiniteSet(Others) /\ Cardinality(Others) = Cardinality(Served) - 1
    BY <2>2, <2>3, FS_RemoveElement
  <2>5. ASSUME NEW j \in SlotsOf(m)
        PROVE  table[m][j].address \in Others /\ table[m][j].address # None
    <3> DEFINE k == table[m][j].address
    <3>1. UseOK(m, table[m][j])
      BY <1>1 DEF SlotsInv, MastersOK
    <3>2. k # None /\ k # s /\ k \in Slaves /\ m \in Peers(k)
      BY <2>1, <3>1 DEF UseOK
    <3> HIDE DEF k
    <3>3. Count(k) > 0
      BY <3>2, OnlyPeer
    <3> QED BY <3>2, <3>3 DEF k, Served
  <2>6. f \in [SlotsOf(m) -> Others]
    BY <2>5
  <2>7. IsFiniteSet(SlotsOf(m)) /\ Cardinality(SlotsOf(m)) = config.size
    <3>1. SlotsOf(m) = 1..config.size /\ config.size \in Nat
      BY <1>1
    <3>2. ExistsBijection(1..config.size, SlotsOf(m))
      <4> DEFINE id == [j \in 1..config.size |-> j]
      <4>1. id \in Bijection(1..config.size, 1..config.size)
        BY DEF Bijection, Injection, Surjection, IsInjective
      <4> QED BY <3>1, <4>1 DEF ExistsBijection
    <3> QED BY <3>1, <3>2, FS_NatBijection, FS_CountingElements
  <2>8. Cardinality(Others) < Cardinality(SlotsOf(m))
    <3>1. Cardinality(Served) \in Nat
      BY <2>2, FS_CardinalityType
    <3> QED BY <1>1, <2>2, <2>4, <2>7, <3>1
  <2> HIDE DEF Others
  <2>9. \E x, y \in SlotsOf(m) : x # y /\ f[x] = f[y]
    <3> HIDE DEF f
    <3> QED BY <2>4, <2>6, <2>7, <2>8, FS_PigeonHole
  <2> QED BY <1>1, <2>5, <2>9 DEF SlotsInv, MastersOK
<1> QED BY <1>2, <1>3

-----------------------------------------------------------------------------
LinkKeptHere(s, m, t) ==
  LinkOK(s, m, t, net', refreshed', table'[m], table'[s][1].grants[t])

LEMMA NextTimes ==
  ASSUME TableInv, SlotsInv, Reliable, TableStep, TablesStep,
         NEW s \in Slaves, NEW m \in Peers(s), NEW t \in Types
  PROVE  /\ TimesOK(table[m], t) /\ TimesOK(table'[m], t)
         /\ DOMAIN table[m] = SlotsOf(m) /\ DOMAIN table'[m] = SlotsOf(m)
         /\ GrantOK(table[s][1].grants[t]) /\ GrantOK(table'[s][1].grants[t])
         /\ Fades(table[s][1].grants[t], table'[s][1].grants[t]) \/ Accepts(s, m, t)
<1>1. m \in Masters /\ s \in Nodes /\ m \in Nodes /\ 1 \in SlotsOf(s) /\ table[s][1].address = m
  BY OnlyPeer
<1>2. /\ TimesOK(table[m], t) /\ DOMAIN table[m] = SlotsOf(m)
      /\ GrantOK(table[s][1].grants[t])
  BY <1>1, TimesHeld
<1>3. /\ DOMAIN table'[m] = SlotsOf(m)
      /\ \A i \in SlotsOf(m) : SlotOK(Types, table'[m][i])
  BY <1>1 DEF TableStep, StepOK
<1>4. \A i \in SlotsOf(m) : GrantOK(table'[m][i].grants[t])
  BY <1>3 DEF SlotOK
<1>5. TimesOK(table'[m], t)
  <2>1. \A g : GrantOK(g) => g.timeLeft \in Nat
    BY TimesAssumption DEF GrantOK, MaxTime
  <2> QED BY <1>3, <1>4, <2>1 DEF TimesOK
<1>6. SlaveSlotStep(s, 1, table'[s][1])
  BY <1>1 DEF TablesStep
<1>7. /\ GrantOK(table'[s][1].grants[t])
      /\ Fades(table[s][1].grants[t], table'[s][1].grants[t]) \/ Accepts(s, m, t)
  BY <1>1, <1>6, Zenon DEF SlaveSlotStep, ShapeOK
<1> QED BY <1>2, <1>3, <1>5, <1>7

LEMMA QuietLink ==
  ASSUME TableInv, SlotsInv, Reliable, LinksOK, TableStep, TablesStep,
         NEW s \in Slaves, NEW m \in Peers(s), NEW t \in Types,
         ~Accepts(s, m, t),
         \A x \in Nat \ {0} : Backed(table[m], s, t, x) => Backed(table'[m], s, t, x),
         s \in refreshed' <=> s \in refreshed, m \in refreshed' <=> m \in refreshed,
         \A msg \in net' : Between(msg, s, m, t) => msg \in net
  PROVE  LinkKeptHere(s, m, t)
<1> DEFINE g == table[s][1].grants[t]
           h == table'[s][1].grants[t]
<1>1. /\ TimesOK(table'[m], t) /\ GrantOK(g) /\ GrantOK(h) /\ Fades(g, h)
  BY NextTimes
<1>2. LinkOK(s, m, t, net, refreshed, table[m], g)
  BY DEF LinksOK
<1> HIDE DEF g, h
<1>3. h.granted => g.granted /\ h.timeLeft <= g.timeLeft
  BY <1>1, Zenon DEF Fades
<1>4. LinkOK(s, m, t, net', refreshed', table'[m], h)
  BY <1>1, <1>2, <1>3, LinkKept
<1> QED BY <1>4 DEF LinkKeptHere, h

(* A step that gives and takes nothing and sends nothing.                  *)
LEMMA QuietStep ==
  ASSUME TableInv, SlotsInv, Reliable, LinksOK, TableStep, TablesStep,
         \A m \in Masters : table'[m] = table[m], refreshed' = refreshed, net' \subseteq net,
         \A msg \in net \ net' : msg.kind # "grant",
         NEW s \in Slaves, NEW m \in Peers(s), NEW t \in Types
  PROVE  LinkKeptHere(s, m, t)
<1>1. m \in Masters
  BY OnlyPeer
<1>2. ~Accepts(s, m, t)
  BY DEF Accepts
<1> QED BY <1>1, <1>2, QuietLink

-----------------------------------------------------------------------------
(* What the refresh of a slave leaves of a grant, and what it asks for.    *)
LEMMA RenewedGrant ==
  ASSUME TableInv, SlotsInv, Reliable, NEW s \in Slaves, NEW m \in Peers(s), NEW t \in Types,
         ToCancel(s) = {}
  PROVE  LET g == table[s][1].grants[t]
             h == Renewed(s)[1].grants[t]
             left == CancelSlots(AgedSlots(s), ToCancel(s))
         IN  /\ h.granted => g.granted /\ ~Expired(g) /\ h.timeLeft <= g.timeLeft - 1
             /\ NeedsRequest(s, t, g) => ~h.granted /\ <<1, t>> \notin ToRequest(s, left)
             /\ <<1, t>> \in ToRequest(s, left) => ~h.granted
<1> DEFINE g == table[s][1].grants[t]
           h == Renewed(s)[1].grants[t]
           aged == AgedSlots(s)
           left == CancelSlots(aged, ToCancel(s))
           a == SlaveGrant(s, t, g)
<1>1. /\ 1 \in SlotsOf(s) /\ 1 \in 1..Count(s) /\ s \in Nodes
  BY OnlyPeer
<1>2. ShapeOK(Types, table[s][1]) /\ GrantOK(g)
  BY <1>1, ShapeOfSlots DEF ShapeOK
<1>3. SlotFades(Types, table[s][1], aged[1]) /\ aged[1].grants[t] = a
  BY <1>1, AgedSlot
<1>4. DOMAIN aged = SlotsOf(s)
  BY DEF AgedSlots
<1>5. left[1].grants[t] = a /\ SlotFades(Types, aged[1], left[1]) /\ DOMAIN left = SlotsOf(s)
  <2> HIDE DEF aged, a
  <2>1. SlotFades(Types, aged[1], left[1])
        /\ left[1].grants[t] = IF <<1, t>> \in ToCancel(s) THEN Cancelled(aged[1].grants[t])
                                ELSE aged[1].grants[t]
    <3>1. 1 \in DOMAIN aged /\ ShapeOK(Types, aged[1])
      BY <1>1, <1>3, <1>4 DEF SlotFades
    <3> DEFINE S == ToCancel(s)
    <3> HIDE DEF S
    <3>2. /\ SlotFades(Types, aged[1], CancelSlots(aged, S)[1])
          /\ \A u \in Types : CancelSlots(aged, S)[1].grants[u] =
               IF <<1, u>> \in S THEN Cancelled(aged[1].grants[u]) ELSE aged[1].grants[u]
      BY <3>1, CancelledSlot
    <3>3. left = CancelSlots(aged, S)
      BY DEF S
    <3> HIDE DEF left
    <3>4. left[1].grants[t] = IF <<1, t>> \in S THEN Cancelled(aged[1].grants[t]) ELSE aged[1].grants[t]
      BY <3>2, <3>3
    <3> QED BY <3>2, <3>3, <3>4 DEF S
  <2>2. DOMAIN left = SlotsOf(s)
    BY <1>4 DEF CancelSlots
  <2> QED BY <1>3, <2>1, <2>2
<1>6. h = IF <<1, t>> \in ToRequest(s, left) THEN Requested(a) ELSE a
  <2>1. Renewed(s) = RequestSlots(left, ToRequest(s, left))
    BY DEF Renewed
  <2> HIDE DEF aged, a, left
  <2>2. RequestSlots(left, ToRequest(s, left))[1].grants[t] =
          IF <<1, t>> \in ToRequest(s, left) THEN Requested(left[1].grants[t]) ELSE left[1].grants[t]
    BY <1>1, <1>5, RequestedSlot DEF SlotFades
  <2> QED BY <1>5, <2>1, <2>2
<1>7. /\ GrantOK(a) /\ Fades(g, a)
      /\ a.granted => ~Expired(g) /\ a.timeLeft = g.timeLeft - 1
      /\ NeedsRequest(s, t, g) => a.requested = TRUE /\ a.granted = FALSE
  <2> HIDE DEF g
  <2> QED BY <1>2, SlaveGrantFades
<1>8. /\ Requested(a).granted = FALSE
      /\ g.timeLeft \in Nat /\ a.timeLeft \in Nat
  <2> HIDE DEF g, a
  <2>1. Requested(a).granted = FALSE
    BY <1>7, RequestedFades
  <2>2. g.timeLeft \in Nat /\ a.timeLeft \in Nat
    <3>1. \A k : GrantOK(k) => k.timeLeft \in Nat
      BY TimesAssumption DEF GrantOK, MaxTime
    <3> QED BY <1>2, <1>7, <3>1
  <2> QED BY <2>1, <2>2
<1>9. <<1, t>> \in ToRequest(s, left) => left[1].grants[t].requested = FALSE \/ ~left[1].grants[t].requested
  <2> HIDE DEF left
  <2> QED BY DEF ToRequest
<1>10. NeedsRequest(s, t, g) => <<1, t>> \notin ToRequest(s, left)
  BY <1>5, <1>7, <1>9
<1> HIDE DEF g, h, a, left
<1>11. h.granted => g.granted /\ ~Expired(g) /\ h.timeLeft <= g.timeLeft - 1
  BY <1>6, <1>7, <1>8 DEF Fades
<1>12. (<<1, t>> \in ToRequest(s, left) => ~h.granted) /\ (NeedsRequest(s, t, g) => ~h.granted)
  BY <1>6, <1>7, <1>8, <1>10
<1> QED BY <1>10, <1>11, <1>12 DEF g, h, left, aged

(* The question that it sends.                                             *)
LEMMA RenewedSignals ==
  ASSUME TableInv, SlotsInv, Reliable, NEW s \in Slaves, NEW m \in Peers(s), NEW t \in Types,
         ToCancel(s) = {}, RefreshSlave(s)
  PROVE  \E r : /\ r.kind = "request"
                /\ \A a \in net' : Between(a, s, m, t)
                     => a \in net \/ (a = r /\ ~Renewed(s)[1].grants[t].granted)
<1> DEFINE aged == AgedSlots(s)
           left == CancelSlots(aged, ToCancel(s))
           g == table[s][1].grants[t]
           expired == {x \in (1..Count(s)) \X Types :
                           NeedsRequest(s, x[2], table[s][x[1]].grants[x[2]])}
           q == Signal("request", s, aged[1].address, t, aged[1].grants[t].logInterval)
           p == Signal("request", s, left[1].address, t, left[1].grants[t].logInterval)
           no == ~Renewed(s)[1].grants[t].granted
<1>1. net' = net \cup Requests(s, aged, expired) \cup Cancels(s, aged, ToCancel(s))
                  \cup Requests(s, left, ToRequest(s, left))
  BY DEF RefreshSlave
<1>2. 1..Count(s) = {1} /\ parentGrants[s] \in 0..1
  BY OnlyPeer DEF SlotsInv, ParentsOK
<1>3. /\ NeedsRequest(s, t, g) => no /\ <<1, t>> \notin ToRequest(s, left)
      /\ <<1, t>> \in ToRequest(s, left) => no
  <2> USE RenewedGrant
  <2> QED OBVIOUS
<1> HIDE DEF left, aged, no
<1>4. ASSUME NEW a \in Requests(s, aged, expired), Between(a, s, m, t)
      PROVE  a = q /\ NeedsRequest(s, t, g)
  <2>1. PICK x \in expired :
          a = Signal("request", s, aged[x[1]].address, x[2], aged[x[1]].grants[x[2]].logInterval)
    BY <1>4 DEF Requests
  <2>2. x[1] = 1 /\ NeedsRequest(s, x[2], table[s][x[1]].grants[x[2]])
    BY <1>2, <2>1
  <2>3. x[2] = t
    BY <1>4, <2>1 DEF Between, Signal
  <2> QED BY <2>1, <2>2, <2>3
<1>5. ASSUME NEW a \in Requests(s, left, ToRequest(s, left)), Between(a, s, m, t)
      PROVE  a = p /\ <<1, t>> \in ToRequest(s, left)
  <2>1. PICK x \in ToRequest(s, left) :
          a = Signal("request", s, left[x[1]].address, x[2], left[x[1]].grants[x[2]].logInterval)
    BY <1>5 DEF Requests
  <2>2. x = <<1, x[2]>>
    BY <1>2, <2>1 DEF ToRequest
  <2>3. x[2] = t
    BY <1>5, <2>1 DEF Between, Signal
  <2> QED BY <2>1, <2>2, <2>3
<1>6. Cancels(s, aged, ToCancel(s)) = {}
  BY DEF Cancels
<1> DEFINE r == IF NeedsRequest(s, t, g) THEN q ELSE p
<1>7. r.kind = "request"
  BY DEF Signal
<1>8. ASSUME NEW a \in net', Between(a, s, m, t)
      PROVE  a \in net \/ (a = r /\ no)
  <2> HIDE DEF expired, q, p, g
  <2> QED BY <1>1, <1>3, <1>4, <1>5, <1>6, <1>8
<1> QED BY <1>7, <1>8 DEF no

LEMMA RefreshSlaveLinks ==
  ASSUME TableInv, SlotsInv, Reliable, LeaseInv, TableStep, TablesStep,
         NEW k \in Slaves, RefreshSlave(k),
         NEW s \in Slaves, NEW m \in Peers(s), NEW t \in Types
  PROVE  LinkKeptHere(s, m, t)
<1>1. m \in Masters /\ m \in Nodes /\ m # k /\ s # m
  BY OnlyPeer, NodesAssumption
<1>2. k \in Nodes /\ table' = [table EXCEPT ![k] = Renewed(k)]
  BY DEF RefreshSlave, Renewed, Nodes
<1>3. table'[m] = table[m] /\ table'[k] = Renewed(k)
  BY <1>1, <1>2 DEF TableInv
<1>4. k \notin refreshed /\ refreshed' = refreshed \cup {k}
  BY DEF RefreshSlave
<1>5. CASE s = k
  <2> DEFINE g == table[s][1].grants[t]
             h == Renewed(s)[1].grants[t]
  <2>1. ToCancel(s) = {}
    BY DEF LeaseInv, ParentOK, ToCancel
  <2>2. h.granted => g.granted /\ ~Expired(g) /\ h.timeLeft <= g.timeLeft - 1
    BY <2>1, RenewedGrant
  <2>3. PICK r : /\ r.kind = "request"
                 /\ \A a \in net' : Between(a, s, m, t)
                      => a \in net \/ (a = r /\ ~h.granted)
    BY <1>5, <2>1, RenewedSignals
  <2>4. TimesOK(table[m], t) /\ GrantOK(g) /\ GrantOK(table'[s][1].grants[t])
    BY NextTimes
  <2>5. LinkOK(s, m, t, net, refreshed, table[m], g)
    BY DEF LeaseInv, LinksOK
  <2>6. table'[s][1].grants[t] = h
    BY <1>3, <1>5
  <2> HIDE DEF g, h
  <2>7. LinkOK(s, m, t, net', refreshed \cup {s}, table[m], h)
    BY <1>1, <1>4, <1>5, <2>2, <2>3, <2>4, <2>5, <2>6, SlaveRefreshesLink
  <2> QED BY <1>3, <1>4, <1>5, <2>6, <2>7 DEF LinkKeptHere
<1>6. CASE s # k
  <2>1. net \subseteq net' /\ \A msg \in net' : msg \in net \/ msg.from = k
    BY DEF RefreshSlave, Requests, Cancels, Signal
  <2>2. ~Accepts(s, m, t)
    BY <2>1 DEF Accepts
  <2>3. \A msg \in net' : Between(msg, s, m, t) => msg \in net
    BY <1>1, <1>6, <2>1 DEF Between
  <2>4. (s \in refreshed' <=> s \in refreshed) /\ (m \in refreshed' <=> m \in refreshed)
    BY <1>1, <1>4, <1>6
  <2>5. LinksOK
    BY DEF LeaseInv
  <2> QED BY <1>3, <2>2, <2>3, <2>4, <2>5, QuietLink
<1> QED BY <1>5, <1>6

-----------------------------------------------------------------------------
LEMMA RefreshMasterLinks ==
  ASSUME TableInv, SlotsInv, Reliable, LeaseInv, TableStep, TablesStep,
         NEW k \in Masters, RefreshMaster(k),
         NEW s \in Slaves, NEW m \in Peers(s), NEW t \in Types
  PROVE  LinkKeptHere(s, m, t)
<1> DEFINE aged == MasterAged(m)
           expired == ExpiredGrants(m)
           T == CancelSlots(aged, expired)
           g == table[s][1].grants[t]
<1>1. m \in Masters /\ m \in Nodes /\ s # k /\ s # m /\ s \in Nodes /\ s # None
  BY OnlyPeer, NodesAssumption
<1>2. k \notin refreshed /\ refreshed' = refreshed \cup {k}
  BY DEF RefreshMaster
<1>3. table' = [table EXCEPT ![k] = CancelSlots(MasterAged(k), ExpiredGrants(k))]
      /\ net' = net \cup Cancels(k, MasterAged(k), ExpiredGrants(k))
  BY DEF RefreshMaster, MasterAged, ExpiredGrants
<1>4. CASE m = k
  <2>1. table'[m] = T /\ table'[s] = table[s]
    BY <1>1, <1>3, <1>4 DEF TableInv
  <2>2. /\ TimesOK(table[m], t) /\ TimesOK(table'[m], t) /\ GrantOK(g)
        /\ DOMAIN table[m] = SlotsOf(m) /\ DOMAIN table'[m] = SlotsOf(m)
    BY NextTimes
  <2>3. LinkOK(s, m, t, net, refreshed, table[m], g)
    BY DEF LeaseInv, LinksOK
  <2>4. ASSUME NEW i \in SlotsOf(m)
        PROVE  /\ table[m][i].address = T[i].address
               /\ table[m][i].grants[t].granted /\ table[m][i].grants[t].timeLeft > EXPIRY
                    => T[i].grants[t].granted
                       /\ T[i].grants[t].timeLeft = table[m][i].grants[t].timeLeft - 1
    <3> DEFINE old == table[m][i]
    <3>1. /\ SlotFades(Types, old, aged[i])
          /\ \A u \in Types : aged[i].grants[u] = GivenUp(Aged(old.grants[u]))
      BY <1>1, MasterAgedSlot
    <3>2. DOMAIN aged = SlotsOf(m)
      BY DEF MasterAged
    <3> HIDE DEF aged
    <3>3. /\ SlotFades(Types, aged[i], T[i])
          /\ T[i].grants[t] = IF <<i, t>> \in expired THEN Cancelled(aged[i].grants[t])
                              ELSE aged[i].grants[t]
      <4> HIDE DEF expired
      <4> QED BY <3>1, <3>2, CancelledSlot DEF SlotFades
    <3>4. <<i, t>> \in expired => Expired(old.grants[t])
      BY DEF ExpiredGrants
    <3>5. /\ GrantOK(old.grants[t]) /\ old.grants[t].timeLeft \in Nat
          /\ old.grants[t].canceled => old.grants[t].timeLeft = 0
      BY <1>1, TimesHeld DEF SlotsInv, MastersOK, UseOK
    <3>6. old.grants[t].granted /\ old.grants[t].timeLeft > EXPIRY
            => <<i, t>> \notin expired /\ ~Expired(old.grants[t]) /\ ~old.grants[t].canceled
      BY <3>4, <3>5, TimesAssumption DEF Expired
    <3> HIDE DEF T, expired
    <3>7. T[i].address = old.address
      BY <3>1, <3>3 DEF SlotFades
    <3>8. old.grants[t].granted /\ old.grants[t].timeLeft > EXPIRY
            => GivenUp(Aged(old.grants[t])) = [old.grants[t] EXCEPT !.timeLeft = @ - 1]
      BY <3>5, <3>6 DEF GivenUp, Aged, GrantOK
    <3>9. old.grants[t].granted /\ old.grants[t].timeLeft > EXPIRY
            => T[i].grants[t] = [old.grants[t] EXCEPT !.timeLeft = @ - 1]
      BY <3>1, <3>3, <3>6, <3>8
    <3>10. old.grants[t].granted /\ old.grants[t].timeLeft > EXPIRY
             => T[i].grants[t].granted /\ T[i].grants[t].timeLeft = old.grants[t].timeLeft - 1
      <4> DEFINE G == old.grants[t]
                 H == T[i].grants[t]
      <4>1. G = [requested |-> G.requested, granted |-> G.granted, canceled |-> G.canceled,
          cancelCount |-> G.cancelCount, timeLeft |-> G.timeLeft,
          logInterval |-> G.logInterval, receiving |-> G.receiving]
        BY <3>5 DEF GrantOK
      <4>2. G.granted /\ G.timeLeft > EXPIRY => H = [G EXCEPT !.timeLeft = @ - 1]
        BY <3>9
      <4> HIDE DEF G, H
      <4>3. G.granted /\ G.timeLeft > EXPIRY => H.granted /\ H.timeLeft = G.timeLeft - 1
        BY <4>1, <4>2
      <4> QED BY <4>3 DEF G, H
    <3> QED BY <3>7, <3>10
  <2>5. ASSUME NEW x \in Nat, x > EXPIRY, Backed(table[m], s, t, x)
        PROVE  Backed(T, s, t, x - 1)
    <3>1. PICK i \in SlotsOf(m) : /\ table[m][i].address = s /\ table[m][i].grants[t].granted
                                  /\ table[m][i].grants[t].timeLeft >= x
      BY <2>2, <2>5 DEF Backed
    <3>2. table[m][i].grants[t].timeLeft \in Nat /\ DOMAIN T = SlotsOf(m)
      BY <2>1, <2>2 DEF TimesOK
    <3> HIDE DEF T
    <3>3. table[m][i].grants[t].timeLeft > EXPIRY
      BY <2>5, <3>1, <3>2, TimesAssumption
    <3>4. T[i].address = s /\ T[i].grants[t].granted /\ T[i].grants[t].timeLeft >= x - 1
      BY <2>4, <2>5, <3>1, <3>2, <3>3
    <3> QED BY <3>2, <3>4 DEF Backed
  <2>6. ASSUME NEW a \in net', Between(a, s, m, t)
        PROVE  a \in net \/ (a.kind = "cancel" /\ ~Backed(table[m], s, t, EXPIRY + 1))
    <3>1. CASE a \in net
      BY <3>1
    <3>2. CASE a \in Cancels(m, aged, expired)
      <4> HIDE DEF aged
      <4>1. PICK x \in expired :
              a = Signal("cancel", m, aged[x[1]].address, x[2], 0)
        BY <3>2 DEF Cancels
      <4>2. x[2] = t /\ aged[x[1]].address = s /\ a.kind = "cancel"
        BY <1>1, <2>6, <4>1 DEF Between, Signal
      <4>3. x[1] \in SlotsOf(m) /\ Expired(table[m][x[1]].grants[t])
        BY <4>1, <4>2 DEF ExpiredGrants
      <4>4. table[m][x[1]].address = s
        BY <1>1, <4>2, <4>3, MasterAgedSlot DEF SlotFades, aged
      <4>5. ASSUME NEW i \in SlotsOf(m), table[m][i].address = s
            PROVE  i = x[1]
        BY <1>1, <4>3, <4>4, <4>5 DEF SlotsInv, MastersOK
      <4>6. table[m][x[1]].grants[t].timeLeft <= EXPIRY /\ table[m][x[1]].grants[t].timeLeft \in Nat
        BY <2>2, <4>3 DEF Expired, TimesOK
      <4>7. ~(table[m][x[1]].grants[t].timeLeft >= EXPIRY + 1)
        BY <4>6, TimesAssumption
      <4>8. ~Backed(table[m], s, t, EXPIRY + 1)
        BY <2>2, <4>5, <4>7 DEF Backed
      <4> QED BY <4>2, <4>8
    <3> QED BY <1>3, <1>4, <3>1, <3>2
  <2> HIDE DEF T, g
  <2>7. LinkOK(s, m, t, net', refreshed \cup {m}, T, g)
    <3>1. TimesOK(T, t) /\ m \notin refreshed
      BY <1>2, <1>4, <2>1, <2>2
    <3> QED BY <1>1, <2>2, <2>3, <2>5, <2>6, <3>1, MasterRefreshesLink
  <2> QED BY <1>2, <1>4, <2>1, <2>7 DEF LinkKeptHere, g
<1>5. CASE m # k
  <2>1. net \subseteq net' /\ \A msg \in net' : msg \in net \/ msg.from = k
    BY <1>3 DEF Cancels, Signal
  <2>2. ~Accepts(s, m, t)
    BY <2>1 DEF Accepts
  <2>3. \A msg \in net' : Between(msg, s, m, t) => msg \in net
    BY <1>1, <1>5, <2>1 DEF Between
  <2>4. (s \in refreshed' <=> s \in refreshed) /\ (m \in refreshed' <=> m \in refreshed)
    BY <1>1, <1>2, <1>5
  <2>5. LinksOK /\ table'[m] = table[m]
    BY <1>1, <1>3, <1>5 DEF LeaseInv, TableInv
  <2> QED BY <2>2, <2>3, <2>4, <2>5, QuietLink
<1> QED BY <1>4, <1>5

LEMMA EndRoundLinks ==
  ASSUME TableInv, SlotsInv, Reliable, LeaseInv, EndRound,
         NEW s \in Slaves, NEW m \in Peers(s), NEW t \in Types
  PROVE  LinkKeptHere(s, m, t)
<1>1. /\ Count(s) = 1 /\ m \in Masters /\ Destination(s, 1) = m /\ s \in Nodes /\ m \in Nodes
  BY OnlyPeer
<1>2. s \in Present /\ m \in Present
  <2>1. config.destinations[s] # <<>> /\ config.destinations[s][1] = m
        /\ Len(config.destinations[s]) = 1
    <3>1. config.destinations[s] \in Seq(Masters)
      BY DestinationsAssumption DEF TableInv
    <3> QED BY <1>1, <3>1 DEF Count, Destination
  <2>2. m \notin Slaves /\ 1 \in 1..Len(config.destinations[s])
    BY <1>1, <2>1, NodesAssumption
  <2> QED BY <1>1, <2>1, <2>2 DEF Present
<1>3. net' = {} /\ refreshed' = {} /\ s \in refreshed /\ m \in refreshed
      /\ table' = table
  BY <1>2 DEF EndRound
<1>4. LinkOK(s, m, t, net, refreshed, table[m], table[s][1].grants[t])
  BY DEF LeaseInv, LinksOK
<1>5. LinkOK(s, m, t, {}, {}, table[m], table[s][1].grants[t])
  BY <1>3, <1>4, LinkRestarts
<1> QED BY <1>3, <1>5 DEF LinkKeptHere

-----------------------------------------------------------------------------
(* One slot of a master changes, which is free or that of a node: what the *)
(* other nodes have, and the node has of other types, stays.               *)
LEMMA OthersBacked ==
  ASSUME TableInv, SlotsInv, NEW m \in Masters, NEW i \in SlotsOf(m), NEW who, NEW S,
         NEW s, NEW t \in Types,
         table[m][i].address = who \/ table[m][i].timeLeft = 0,
         who = s => /\ S.address = s
                    /\ S.grants[t].granted = table[m][i].grants[t].granted
                    /\ S.grants[t].timeLeft = table[m][i].grants[t].timeLeft,
         NEW T, T = [table[m] EXCEPT ![i] = S]
  PROVE  \A x \in Nat \ {0} : Backed(table[m], s, t, x) => Backed(T, s, t, x)
<1>1. /\ DOMAIN table[m] = SlotsOf(m) /\ m \in Nodes
      /\ \A j \in SlotsOf(m) : /\ SlotOK(Types, table[m][j])
                               /\ table[m][j].grants[t].timeLeft \in Nat
  BY TimesHeld DEF TableInv, Nodes
<1>2. DOMAIN T = SlotsOf(m) /\ \A j \in SlotsOf(m) : T[j] = IF j = i THEN S ELSE table[m][j]
  BY <1>1 DEF TableInv
<1> SUFFICES ASSUME NEW x \in Nat \ {0}, Backed(table[m], s, t, x)
             PROVE  Backed(T, s, t, x)
  OBVIOUS
<1>3. PICK j \in SlotsOf(m) : /\ table[m][j].address = s /\ table[m][j].grants[t].granted
                              /\ table[m][j].grants[t].timeLeft >= x
  BY <1>1 DEF Backed
<1>4. CASE j # i
  BY <1>2, <1>3, <1>4 DEF Backed
<1>5. CASE j = i
  <2>1. table[m][i].grants[t].timeLeft # 0
    BY <1>1, <1>3, <1>5
  <2>2. table[m][i].timeLeft # 0
    BY <1>1, <2>1 DEF SlotOK
  <2>3. who = s
    BY <1>3, <1>5, <2>2
  <2>4. T[i].address = s /\ T[i].grants[t].granted /\ T[i].grants[t].timeLeft >= x
    BY <1>2, <1>3, <1>5, <2>3
  <2> QED BY <1>2, <2>4 DEF Backed
<1> QED BY <1>4, <1>5

-----------------------------------------------------------------------------
(* What a master makes of the slot of a requester. *)
LEMMA RequestedOf ==
  ASSUME TableInv, SlotsInv, NEW m \in Masters, NEW i \in SlotsOf(m), NEW msg, msg.type \in Types,
         GrantRequest(m, i, msg)
  PROVE  \E S : /\ table' = [table EXCEPT ![m] = [table[m] EXCEPT ![i] = S]]
                /\ S.address = msg.from
                /\ \A t \in Types : t # msg.type \/ ~(msg.interval >= config.minInterval) =>
                     /\ S.grants[t].granted = table[m][i].grants[t].granted
                     /\ S.grants[t].timeLeft = table[m][i].grants[t].timeLeft
                /\ msg.interval >= config.minInterval =>
                     /\ S.grants[msg.type].granted = TRUE
                     /\ S.grants[msg.type].timeLeft = unicastGrantDuration + GRACE
<1> DEFINE slot == Taken(m, i, msg.from)
           g == slot.grants[msg.type]
           yes == msg.interval >= config.minInterval
           denied == [g EXCEPT !.requested = TRUE]
           given == [g EXCEPT !.requested = TRUE, !.granted = TRUE, !.canceled = FALSE,
                       !.cancelCount = 0, !.timeLeft = ServedTime,
                       !.logInterval = msg.interval]
           S == IF yes THEN SetGrant(Reserved(slot), msg.type, given)
                ELSE SetGrant(slot, msg.type, denied)
<1>1. table' = [table EXCEPT ![m] = [table[m] EXCEPT ![i] = S]]
  BY DEF GrantRequest
<1>2. ShapeOK(Types, table[m][i])
  BY ShapeOfSlots DEF Nodes
<1>3. /\ ShapeOK(Types, slot) /\ slot.address = msg.from
      /\ slot.grants = table[m][i].grants
  BY <1>2, TakenShape
<1>4. GrantOK(g)
  BY <1>3 DEF ShapeOK
<1>5. /\ denied.granted = g.granted /\ denied.timeLeft = g.timeLeft
      /\ given.granted = TRUE /\ given.timeLeft = unicastGrantDuration + GRACE
  <2> HIDE DEF slot
  <2>1. denied.granted = g.granted /\ denied.timeLeft = g.timeLeft
    BY <1>4 DEF GrantOK
  <2>2. given.granted = TRUE /\ given.timeLeft = unicastGrantDuration + GRACE
    BY <1>4 DEF GrantOK, ServedTime
  <2> QED BY <2>1, <2>2
<1> HIDE DEF slot
<1>6. ASSUME NEW r, r = slot \/ r = Reserved(slot)
      PROVE  /\ r = [identity |-> r.identity, address |-> r.address,
                     timeLeft |-> r.timeLeft, grants |-> r.grants]
             /\ r.address = msg.from /\ r.grants = slot.grants
  BY <1>3, <1>6 DEF ShapeOK, Reserved
<1> HIDE DEF denied, given, yes
<1>7. ASSUME NEW r, NEW h, r = slot \/ r = Reserved(slot)
      PROVE  /\ SetGrant(r, msg.type, h).address = msg.from
             /\ \A t \in Types : SetGrant(r, msg.type, h).grants[t] =
                  IF t = msg.type THEN h ELSE table[m][i].grants[t]
  <2>1. /\ r = [identity |-> r.identity, address |-> r.address,
                     timeLeft |-> r.timeLeft, grants |-> r.grants]
        /\ r.address = msg.from /\ r.grants = slot.grants
    BY <1>6, <1>7
  <2>2. SetGrant(r, msg.type, h).address = msg.from
        /\ SetGrant(r, msg.type, h).grants = [slot.grants EXCEPT ![msg.type] = h]
    BY <2>1 DEF SetGrant
  <2>3. slot.grants = [t \in Types |-> slot.grants[t]]
    BY <1>3 DEF ShapeOK
  <2> QED BY <1>3, <2>2, <2>3
<1>8. S.address = msg.from
  BY <1>7
<1>9. ASSUME yes
      PROVE  \A t \in Types : S.grants[t] = IF t = msg.type THEN given ELSE table[m][i].grants[t]
  BY <1>7, <1>9
<1>10. ASSUME ~yes
       PROVE  \A t \in Types : S.grants[t] = IF t = msg.type THEN denied ELSE table[m][i].grants[t]
  BY <1>7, <1>10
<1>11. g = table[m][i].grants[msg.type]
  BY <1>3
<1> HIDE DEF S, g
<1>12. /\ \A t \in Types : t # msg.type \/ ~yes =>
            /\ S.grants[t].granted = table[m][i].grants[t].granted
            /\ S.grants[t].timeLeft = table[m][i].grants[t].timeLeft
       /\ yes => /\ S.grants[msg.type].granted = TRUE
                 /\ S.grants[msg.type].timeLeft = unicastGrantDuration + GRACE
  <2>1. CASE yes
    BY <1>5, <1>9, <2>1
  <2>2. CASE ~yes
    BY <1>5, <1>10, <1>11, <2>2
  <2> QED BY <2>1, <2>2
<1> QED BY <1>1, <1>8, <1>12 DEF yes

LEMMA RequestLinks ==
  ASSUME TableInv, SlotsInv, Reliable, LeaseInv, TableStep, TablesStep,
         NEW k \in Masters, NEW msg, k = msg.to, HandleRequest(k, msg),
         NEW s \in Slaves, NEW m \in Peers(s), NEW t \in Types
  PROVE  LinkKeptHere(s, m, t)
<1> DEFINE i == Find(k, msg.from, msg.from, config.size)
           yes == msg.interval >= config.minInterval
           kind == IF yes THEN "grant" ELSE "deny"
           answer == Signal(kind, k, msg.from, msg.type, msg.interval)
           g == table[s][1].grants[t]
<1>1. msg \in net /\ msg.kind = "request" /\ refreshed' = refreshed
  BY DEF HandleRequest, AnswerWithoutSlot, GrantRequest, Deliver
<1>2. msg.type \in Types /\ msg.from \in Slaves /\ k \in Peers(msg.from)
  BY <1>1 DEF SlotsInv, Linked
<1>3. /\ i \in SlotsOf(k) /\ 0 \notin SlotsOf(k)
      /\ table[k][i].address = msg.from \/ table[k][i].timeLeft = 0
  BY <1>2, FoundRequester DEF SlotsOf
<1>4. GrantRequest(k, i, msg)
  BY <1>3 DEF HandleRequest
<1>5. PICK S : /\ table' = [table EXCEPT ![k] = [table[k] EXCEPT ![i] = S]]
               /\ S.address = msg.from
               /\ \A u \in Types : u # msg.type \/ ~yes =>
                     /\ S.grants[u].granted = table[k][i].grants[u].granted
                     /\ S.grants[u].timeLeft = table[k][i].grants[u].timeLeft
               /\ yes => /\ S.grants[msg.type].granted = TRUE
                         /\ S.grants[msg.type].timeLeft = unicastGrantDuration + GRACE
  BY <1>2, <1>3, <1>4, RequestedOf
<1>6. net' = (net \ {msg}) \cup {answer}
  BY <1>4 DEF GrantRequest, Deliver
<1> HIDE DEF i, yes
<1>7. /\ m \in Masters /\ m \in Nodes /\ s \in Nodes /\ s # m /\ s # k /\ k \in Nodes
      /\ 1 \in SlotsOf(s)
  BY OnlyPeer, NodesAssumption DEF Nodes
<1>8. table'[s] = table[s] /\ (m # k => table'[m] = table[m])
      /\ table'[k] = [table[k] EXCEPT ![i] = S]
  BY <1>5, <1>7 DEF TableInv
<1>9. LinksOK /\ LinkOK(s, m, t, net, refreshed, table[m], g)
  BY DEF LeaseInv, LinksOK
<1>10. ~Accepts(s, m, t)
  BY <1>1, <1>6 DEF Accepts
<1>11. /\ answer.kind = kind /\ answer.from = k /\ answer.to = msg.from /\ answer.type = msg.type
  BY DEF Signal
<1>12. CASE m # k \/ s # msg.from \/ t # msg.type
  <2>1. \A x \in Nat \ {0} : Backed(table[m], s, t, x) => Backed(table'[m], s, t, x)
    <3>1. CASE m # k
      BY <1>8, <3>1
    <3>2. CASE m = k
      BY <1>3, <1>5, <1>8, <1>12, <3>2, OthersBacked
    <3> QED BY <3>1, <3>2
  <2>2. \A a \in net' : Between(a, s, m, t) => a \in net
    <3> HIDE DEF answer
    <3>1. ~Between(answer, s, m, t)
      BY <1>7, <1>11, <1>12 DEF Between
    <3> QED BY <1>6, <3>1
  <2> QED BY <1>1, <1>9, <1>10, <2>1, <2>2, QuietLink
<1>13. CASE m = k /\ s = msg.from /\ t = msg.type
  <2>1. IsSignal(msg, "request", s, m, t) /\ IsSignal(answer, kind, m, s, t)
    BY <1>1, <1>11, <1>13 DEF IsSignal
  <2>2. TimesOK(table'[m], t) /\ GrantOK(g) /\ DOMAIN table'[m] = SlotsOf(m)
    BY NextTimes
  <2>3. \A a \in net' : a = answer \/ (a \in net /\ a # msg)
    BY <1>6
  <2>4. kind = "grant" => Backed(table'[m], s, t, unicastGrantDuration + GRACE)
    <3>1. ASSUME yes
          PROVE  Backed(table'[m], s, t, unicastGrantDuration + GRACE)
      <4>1. i \in DOMAIN table'[m] /\ table'[m][i] = S
        BY <1>3, <1>8, <1>13, <2>2
      <4>2. S.grants[t].timeLeft >= unicastGrantDuration + GRACE
        BY <1>5, <1>13, <3>1, TimesAssumption
      <4> QED BY <1>5, <1>13, <3>1, <4>1, <4>2 DEF Backed
    <3> QED BY <3>1
  <2>5. kind = "deny" =>
          \A x \in Nat \ {0} : Backed(table[m], s, t, x) => Backed(table'[m], s, t, x)
    <3>1. ASSUME ~yes
          PROVE  \A x \in Nat \ {0} : Backed(table[m], s, t, x) => Backed(table'[m], s, t, x)
      <4>1. /\ S.address = s /\ S.grants[t].granted = table[m][i].grants[t].granted
            /\ S.grants[t].timeLeft = table[m][i].grants[t].timeLeft
        BY <1>5, <1>13, <3>1
      <4>2. /\ i \in SlotsOf(m) /\ table'[m] = [table[m] EXCEPT ![i] = S]
            /\ table[m][i].address = s \/ table[m][i].timeLeft = 0
        BY <1>3, <1>8, <1>13
      <4> HIDE DEF yes
      <4> QED BY <1>7, <4>1, <4>2, OthersBacked
    <3> QED BY <3>1
  <2>6. kind \in {"grant", "deny"}
    OBVIOUS
  <2> HIDE DEF answer, kind, g
  <2>7. LinkOK(s, m, t, net', refreshed, table'[m], g)
    BY <1>1, <1>7, <1>9, <2>1, <2>2, <2>3, <2>4, <2>5, <2>6, RequestOfLink
  <2> QED BY <1>1, <1>8, <2>7 DEF LinkKeptHere, g
<1> QED BY <1>12, <1>13

-----------------------------------------------------------------------------
(* Nothing but messages are lost. *)
LEMMA IgnoredLinks ==
  ASSUME TableInv, SlotsInv, Reliable, LinksOK,
         table' = table, refreshed' = refreshed, net' \subseteq net,
         NEW s \in Slaves, NEW m \in Peers(s), NEW t \in Types
  PROVE  LinkKeptHere(s, m, t)
<1> DEFINE g == table[s][1].grants[t]
<1>1. m \in Nodes /\ s \in Nodes /\ 1 \in SlotsOf(s)
  BY OnlyPeer
<1>2. TimesOK(table[m], t) /\ GrantOK(g)
  BY <1>1, TimesHeld
<1>3. LinkOK(s, m, t, net, refreshed, table[m], g)
  BY DEF LinksOK
<1>4. g.timeLeft <= g.timeLeft
  <2> HIDE DEF g
  <2> QED BY <1>2, TimesAssumption DEF GrantOK, MaxTime
<1> HIDE DEF g
<1>5. LinkOK(s, m, t, net', refreshed, table[m], g)
  BY <1>2, <1>3, <1>4, LinkKept
<1> QED BY <1>5 DEF LinkKeptHere, g

(* The grant of a message, in its slot. *)
LEMMA GrantOfSlot ==
  ASSUME NEW slot, ShapeOK(Types, slot), NEW t \in Types, NEW h
  PROVE  SetGrant(slot, t, h).grants[t] = h
<1>1. SetGrant(slot, t, h).grants = [slot.grants EXCEPT ![t] = h]
  BY DEF SetGrant, ShapeOK
<1>2. slot.grants = [u \in Types |-> slot.grants[u]]
  BY DEF ShapeOK
<1> QED BY <1>1, <1>2

LEMMA GrantLinks ==
  ASSUME TableInv, SlotsInv, Reliable, LeaseInv, TableStep, TablesStep,
         NEW k \in Slaves, NEW msg, k = msg.to, HandleGrant(k, msg),
         NEW s \in Slaves, NEW m \in Peers(s), NEW t \in Types
  PROVE  LinkKeptHere(s, m, t)
<1> DEFINE i == Find(k, msg.from, msg.from, Count(k))
           slot == Taken(k, i, msg.from)
           f == slot.grants[msg.type]
           h == IF ~f.requested THEN f ELSE IF msg.kind = "deny" THEN Denied(f) ELSE Given(f, msg)
           g == table[s][1].grants[t]
<1>1. /\ msg \in net /\ msg.kind \in {"grant", "deny"} /\ refreshed' = refreshed
      /\ net' = net \ {msg}
      /\ table' = [table EXCEPT ![k] = [table[k] EXCEPT ![i] = SetGrant(slot, msg.type, h)]]
  BY DEF HandleGrant, Deliver
<1>2. msg.type \in Types /\ msg.from \in Peers(k)
  BY <1>1 DEF SlotsInv, Linked
<1>3. /\ m \in Masters /\ m \in Nodes /\ s \in Nodes /\ s # m /\ m # k /\ k \in Nodes
      /\ 1 \in SlotsOf(s)
  BY OnlyPeer, NodesAssumption DEF Nodes
<1>4. table'[m] = table[m]
  BY <1>1, <1>3 DEF TableInv
<1>5. LinksOK /\ LinkOK(s, m, t, net, refreshed, table[m], g)
  BY DEF LeaseInv, LinksOK
<1>6. CASE s # k \/ t # msg.type
  <2>1. ~Accepts(s, m, t)
    BY <1>1, <1>6 DEF Accepts
  <2> QED BY <1>1, <1>4, <1>5, <2>1, QuietLink
<1>7. CASE s = k /\ t = msg.type
  <2>1. m = msg.from /\ 1..Count(k) = {1}
    BY <1>2, <1>7, OnlyPeer
  <2>2. i = 1
    <3>1. Count(k) \in Count(k)..config.size
      BY DestinationsOf DEF TableInv
    <3>2. i \in 1..Count(k)
      BY <1>2, <3>1, FoundPeer
    <3> HIDE DEF i
    <3> QED BY <2>1, <3>2
  <2>3. ShapeOK(Types, table[k][1]) /\ DOMAIN table[k] = SlotsOf(k) /\ GrantOK(g)
    BY <1>3, <1>7, ShapeOfSlots DEF ShapeOK
  <2>4. ShapeOK(Types, slot) /\ slot.grants = table[k][1].grants
    BY <2>2, <2>3, TakenShape
  <2>5. f = g
    BY <1>7, <2>4
  <2>6. table'[s][1].grants[t] = h
    <3> HIDE DEF slot, h, i
    <3>1. table'[k] = [table[k] EXCEPT ![1] = SetGrant(slot, msg.type, h)]
      BY <1>1, <1>3, <2>2 DEF TableInv
    <3>2. table'[k][1] = SetGrant(slot, msg.type, h)
      BY <1>3, <1>7, <2>3, <3>1
    <3> QED BY <1>2, <1>7, <2>4, <3>2, GrantOfSlot
  <2>7. h.granted => \/ g.granted /\ h.timeLeft <= g.timeLeft
                     \/ IsSignal(msg, "grant", m, s, t) /\ h.timeLeft = unicastGrantDuration
    <3> HIDE DEF slot, f, g
    <3>1. GrantOK(f) /\ f.timeLeft <= f.timeLeft
      BY <2>3, <2>5, TimesAssumption DEF GrantOK, MaxTime
    <3>2. Denied(f).granted => f.granted /\ Denied(f).timeLeft <= f.timeLeft
      BY <3>1, DeniedFades DEF Fades
    <3>3. Given(f, msg).timeLeft = unicastGrantDuration
      BY <3>1 DEF Given, GrantOK
    <3>4. msg.kind # "deny" => IsSignal(msg, "grant", m, s, t)
      BY <1>1, <1>7, <2>1 DEF IsSignal
    <3>5. h = f \/ h = Denied(f) \/ (msg.kind # "deny" /\ h = Given(f, msg))
      OBVIOUS
    <3> HIDE DEF h
    <3> QED BY <2>5, <3>1, <3>2, <3>3, <3>4, <3>5
  <2>8. /\ TimesOK(table[m], t) /\ GrantOK(g) /\ GrantOK(table'[s][1].grants[t])
    BY NextTimes
  <2>9. IsToken(msg, s, m, t)
    BY <1>1, <1>7, <2>1 DEF IsToken
  <2>10. \A b \in net' : Between(b, s, m, t) => b \in net /\ b # msg
    BY <1>1
  <2> HIDE DEF g, h
  <2>11. LinkOK(s, m, t, net', refreshed, table[m], h)
    BY <1>1, <1>5, <2>6, <2>7, <2>8, <2>9, <2>10, GrantOfLink
  <2> QED BY <1>1, <1>4, <2>6, <2>11 DEF LinkKeptHere
<1> QED BY <1>6, <1>7

-----------------------------------------------------------------------------
LEMMA CancelLinks ==
  ASSUME TableInv, SlotsInv, Reliable, LeaseInv, TableStep, TablesStep,
         NEW k, NEW msg, k = msg.to, HandleCancel(k, msg),
         NEW s \in Slaves, NEW m \in Peers(s), NEW t \in Types
  PROVE  LinkKeptHere(s, m, t)
<1> DEFINE i == Find(k, msg.from, msg.from, config.size)
           f == table[k][i].grants[msg.type]
           known == i # 0 /\ f.requested /\ f.granted
           ack == Signal("ack", k, msg.from, msg.type, 0)
           g == table[s][1].grants[t]
<1>1. msg \in net /\ msg.kind = "cancel" /\ refreshed' = refreshed
  BY DEF HandleCancel, Deliver
<1>2. msg.type \in Types /\ k \in Slaves /\ msg.from \in Peers(k)
  <2>1. msg.from \in Masters /\ Linked(msg)
    BY <1>1 DEF LeaseInv, SendersOK, SlotsInv
  <2> QED BY <1>1, <2>1, NodesAssumption DEF Linked
<1>3. /\ m \in Masters /\ m \in Nodes /\ s \in Nodes /\ s # m /\ m # k /\ k \in Nodes
      /\ 1 \in SlotsOf(s)
  BY <1>2, OnlyPeer, NodesAssumption DEF Nodes
<1>4. LinksOK /\ LinkOK(s, m, t, net, refreshed, table[m], g)
  BY DEF LeaseInv, LinksOK
<1>5. CASE ~known
  <2>1. table' = table /\ net' \subseteq net
    BY <1>5 DEF HandleCancel, Deliver
  <2> QED BY <1>1, <1>4, <2>1, IgnoredLinks
<1>6. CASE known
  <2>1. /\ table' = [table EXCEPT ![k] = [table[k] EXCEPT ![i] =
                        SetGrant(table[k][i], msg.type, Ended(f))]]
        /\ net' = (net \ {msg}) \cup {ack}
    BY <1>6 DEF HandleCancel, Deliver, SetGrant
  <2>2. ack.kind = "ack" /\ ack.from = k /\ ack.to = msg.from /\ ack.type = msg.type
    BY DEF Signal
  <2> HIDE DEF ack
  <2>3. table'[m] = table[m]
    BY <1>3, <2>1 DEF TableInv
  <2>4. CASE s # k \/ t # msg.type
    <3>1. ~Accepts(s, m, t)
      BY <1>1, <2>1 DEF Accepts
    <3>2. \A a \in net' : Between(a, s, m, t) => a \in net
      BY <1>3, <2>1, <2>2, <2>4 DEF Between
    <3> QED BY <1>1, <1>4, <2>3, <3>1, <3>2, QuietLink
  <2>5. CASE s = k /\ t = msg.type
    <3>1. m = msg.from /\ 1..Count(k) = {1}
      BY <1>2, <2>5, OnlyPeer
    <3>2. i = 1
      <4>1. config.size \in Count(k)..config.size
        BY <1>2, DestinationsOf DEF TableInv
      <4>2. i \in 1..Count(k)
        BY <1>2, <4>1, FoundPeer
      <4> HIDE DEF i
      <4> QED BY <3>1, <4>2
    <3>3. ShapeOK(Types, table[k][1]) /\ DOMAIN table[k] = SlotsOf(k) /\ GrantOK(g)
      BY <1>3, <2>5, ShapeOfSlots DEF ShapeOK
    <3>4. f = g /\ g.granted
      BY <1>6, <2>5, <3>2
    <3>5. table'[s][1].grants[t] = Ended(g)
      <4> HIDE DEF f, i, g
      <4>1. table'[k] = [table[k] EXCEPT ![1] = SetGrant(table[k][1], msg.type, Ended(g))]
        BY <1>3, <2>1, <3>2, <3>4 DEF TableInv
      <4>2. table'[k][1] = SetGrant(table[k][1], msg.type, Ended(g))
        BY <1>3, <2>5, <3>3, <4>1
      <4> QED BY <1>2, <2>5, <3>3, <4>2, GrantOfSlot
    <3> HIDE DEF g
    <3>6. ~Ended(g).granted
      BY <3>3, EndedFades
    <3>7. IsSignal(msg, "cancel", m, s, t)
      BY <1>1, <2>5, <3>1 DEF IsSignal
    <3>8. \A b \in net' : b \in net \/ b = ack
      BY <2>1
    <3>9. LinkOK(s, m, t, net', refreshed, table[m], Ended(g))
      BY <1>1, <1>4, <2>2, <3>4, <3>6, <3>7, <3>8, CancelOfLink
    <3> QED BY <1>1, <2>3, <3>5, <3>9 DEF LinkKeptHere
  <2> QED BY <2>4, <2>5
<1> QED BY <1>5, <1>6

LEMMA AckedSlot ==
  ASSUME TableInv, SlotsInv, Reliable, LeaseInv, NEW msg \in net, msg.kind = "ack"
  PROVE  LET k == msg.to
             i == Find(k, msg.from, msg.from, config.size)
         IN /\ msg.type \in Types /\ msg.from \in Slaves /\ k \in Peers(msg.from)
            /\ k \in Masters /\ i \in SlotsOf(k) /\ i # 0
            /\ table[k][i].address = msg.from \/ table[k][i].timeLeft = 0
<1> DEFINE k == msg.to
           i == Find(k, msg.from, msg.from, config.size)
<1>1. msg.from \in Slaves /\ Linked(msg)
  BY DEF LeaseInv, SendersOK, SlotsInv
<1>2. msg.type \in Types /\ k \in Peers(msg.from)
  <2>1. \A s \in Slaves : Peers(s) \subseteq Masters
    BY DestinationsOf DEF TableInv
  <2> QED BY <1>1, <2>1, NodesAssumption DEF Linked
<1>3. /\ i \in SlotsOf(k) /\ k \in Masters
      /\ table[k][i].address = msg.from \/ table[k][i].timeLeft = 0
  BY <1>1, <1>2, FoundRequester, OnlyPeer
<1> HIDE DEF i
<1>4. i # 0
  BY <1>3 DEF SlotsOf
<1> QED BY <1>1, <1>2, <1>3, <1>4 DEF i

LEMMA AckLinks ==
  ASSUME TableInv, SlotsInv, Reliable, LeaseInv, TableStep, TablesStep,
         NEW k, NEW msg, k = msg.to, HandleAck(k, msg),
         NEW s \in Slaves, NEW m \in Peers(s), NEW t \in Types
  PROVE  LinkKeptHere(s, m, t)
<1> DEFINE i == Find(k, msg.from, msg.from, config.size)
           h == [Ended(table[k][i].grants[msg.type]) EXCEPT !.canceled = FALSE]
           S == SetGrant(table[k][i], msg.type, h)
           g == table[s][1].grants[t]
<1>1. /\ msg \in net /\ msg.kind = "ack" /\ refreshed' = refreshed /\ net' = net \ {msg}
      /\ table' = [table EXCEPT ![k] = [table[k] EXCEPT ![i] = S]]
  BY DEF HandleAck, Deliver, SetGrant
<1>2. /\ msg.type \in Types /\ msg.from \in Slaves /\ k \in Peers(msg.from)
      /\ k \in Masters /\ i \in SlotsOf(k)
      /\ table[k][i].address = msg.from \/ table[k][i].timeLeft = 0
  BY <1>1, AckedSlot
<1>3. /\ m \in Masters /\ m \in Nodes /\ s \in Nodes /\ s # m /\ s # k /\ k \in Nodes
  BY <1>2, OnlyPeer, NodesAssumption DEF Nodes
<1>4. LinksOK /\ LinkOK(s, m, t, net, refreshed, table[m], g)
  BY DEF LeaseInv, LinksOK
<1>5. ShapeOK(Types, table[k][i]) /\ table[k] = [j \in SlotsOf(k) |-> table[k][j]]
  BY <1>2, <1>3, ShapeOfSlots
<1> HIDE DEF h, i
<1>6. /\ S.address = table[k][i].address
      /\ \A u \in Types : u # msg.type => S.grants[u] = table[k][i].grants[u]
  <2>1. S.address = table[k][i].address /\ S.grants = [table[k][i].grants EXCEPT ![msg.type] = h]
    BY <1>5 DEF SetGrant, ShapeOK
  <2> QED BY <1>5, <2>1 DEF ShapeOK
<1> HIDE DEF S
<1>7. /\ table'[s] = table[s] /\ (m # k => table'[m] = table[m])
      /\ table'[k] = [table[k] EXCEPT ![i] = S]
  BY <1>1, <1>3 DEF TableInv
<1>8. CASE m # k \/ s # msg.from \/ t # msg.type
  <2>1. \A x \in Nat \ {0} : Backed(table[m], s, t, x) => Backed(table'[m], s, t, x)
    <3>1. CASE m # k
      BY <1>7, <3>1
    <3>2. CASE m = k /\ t # msg.type
      <4> DEFINE who == table[m][i].address
      <4>1. /\ i \in SlotsOf(m) /\ table'[m] = [table[m] EXCEPT ![i] = S]
            /\ S.grants[t] = table[m][i].grants[t] /\ S.address = who
        BY <1>2, <1>6, <1>7, <3>2
      <4>2. who = s => /\ S.address = s
                       /\ S.grants[t].granted = table[m][i].grants[t].granted
                       /\ S.grants[t].timeLeft = table[m][i].grants[t].timeLeft
        BY <4>1
      <4>3. table[m][i].address = who \/ table[m][i].timeLeft = 0
        OBVIOUS
      <4> HIDE DEF who
      <4> QED BY <1>3, <4>1, <4>2, <4>3, OthersBacked
    <3>3. CASE m = k /\ s # msg.from
      BY <1>2, <1>7, <3>3, OthersBacked
    <3> QED BY <1>8, <3>1, <3>2, <3>3
  <2>2. ~Accepts(s, m, t)
    BY <1>1 DEF Accepts
  <2> QED BY <1>1, <1>4, <2>1, <2>2, QuietLink
<1>9. CASE m = k /\ s = msg.from /\ t = msg.type
  <2>1. IsSignal(msg, "ack", s, m, t) /\ net' \subseteq net
    BY <1>1, <1>9 DEF IsSignal
  <2>2. LinkOK(s, m, t, net', refreshed, table'[m], g)
    BY <1>1, <1>4, <2>1, AckOfLink
  <2> QED BY <1>1, <1>7, <2>2 DEF LinkKeptHere
<1> QED BY <1>8, <1>9

-----------------------------------------------------------------------------
(* No master leaves its state while all is reliable.                       *)
LEMMA NoMasterFails ==
  ASSUME TableInv, SlotsInv, Reliable, LeaseInv
  PROVE  /\ \A m \in Masters : ~BecomeMaster(m) /\ ~InitializeMaster(m)
         /\ \A m, state : ~LeaveMaster(m, state)
         /\ \A msg \in net : ~AckWithoutSlot(msg.to, msg)
<1>1. \A m \in Masters : portState[m] = "MASTER"
  BY DEF LeaseInv
<1>2. \A m \in Masters : ~BecomeMaster(m) /\ ~InitializeMaster(m)
  BY <1>1 DEF BecomeMaster, InitializeMaster
<1>3. \A m, state : ~LeaveMaster(m, state)
  BY DEF Reliable, LeaveMaster
<1>4. \A msg \in net : ~AckWithoutSlot(msg.to, msg)
  BY AckedSlot DEF AckWithoutSlot
<1> QED BY <1>2, <1>3, <1>4

LEMMA StepOfLinks ==
  ASSUME TableInv, SlotsInv, Reliable, LeaseInv, Next,
         NEW s \in Slaves, NEW m \in Peers(s), NEW t \in Types
  PROVE  LinkKeptHere(s, m, t)
<1>1. TableStep /\ TablesStep
  BY StepOfTables, StepOfSlots
<1>2. LinksOK /\ \A k \in Masters : k \in Nodes /\ k \notin Slaves
  BY NodesAssumption DEF LeaseInv, Nodes
<1>3. ASSUME NEW k, Refresh(k)
      PROVE  LinkKeptHere(s, m, t)
  <2>1. CASE k \in Slaves /\ RefreshSlave(k)
    BY <1>1, <2>1, RefreshSlaveLinks
  <2>2. CASE k \in Masters /\ RefreshMaster(k)
    BY <1>1, <2>2, RefreshMasterLinks
  <2> QED BY <1>3, <2>1, <2>2 DEF Refresh
<1>4. ASSUME EndRound
      PROVE  LinkKeptHere(s, m, t)
  BY <1>4, EndRoundLinks
<1>5. ASSUME NEW msg \in net, HandleSignaling(msg)
      PROVE  LinkKeptHere(s, m, t)
  <2> DEFINE k == msg.to
  <2>1. CASE k \in Masters /\ HandleRequest(k, msg)
    BY <1>1, <2>1, RequestLinks
  <2>2. CASE k \in Slaves /\ HandleGrant(k, msg)
    BY <1>1, <2>2, GrantLinks
  <2>3. CASE HandleCancel(k, msg)
    BY <1>1, <2>3, CancelLinks
  <2>4. CASE HandleAck(k, msg)
    BY <1>1, <2>4, AckLinks
  <2>5. CASE IgnoreSignal(k, msg)
    <3>1. table' = table /\ refreshed' = refreshed /\ net' \subseteq net
      BY <2>5 DEF IgnoreSignal, Ignore, Deliver
    <3> QED BY <1>2, <3>1, IgnoredLinks
  <2> QED BY <1>5, <2>1, <2>2, <2>3, <2>4, <2>5 DEF HandleSignaling
<1>6. ASSUME NEW msg \in net, Lose(msg)
      PROVE  LinkKeptHere(s, m, t)
  <2>1. table' = table /\ refreshed' = refreshed /\ net' \subseteq net
    BY <1>6 DEF Lose, Ignore, Deliver
  <2> QED BY <1>2, <2>1, IgnoredLinks
<1>7. ASSUME NEW k \in Slaves, net' = net, refreshed' = refreshed,
             \A n \in Nodes : n # k => table'[n] = table[n]
      PROVE  LinkKeptHere(s, m, t)
  <2>1. \A n \in Masters : table'[n] = table[n]
    BY <1>2, <1>7
  <2> QED BY <1>1, <1>2, <1>7, <2>1, QuietStep
<1>8. ASSUME NEW k \in Slaves, NEW n \in Masters, Messages(k, n)
      PROVE  LinkKeptHere(s, m, t)
  <2>1. PICK i, u, v : Receive(k, i, u, v)
    BY <1>8 DEF Messages, HearTiming, HearAnnounce
  <2>2. net' = net /\ refreshed' = refreshed
    BY <1>8 DEF Messages, HearTiming, HearAnnounce
  <2>3. \A x \in Nodes : x # k => table'[x] = table[x]
    BY <2>1 DEF Receive, TableInv
  <2> QED BY <1>7, <2>2, <2>3
<1>9. ASSUME NEW k \in Slaves, LeaveSlave(k) \/ RestartSlave(k) \/ UpdateGrantTable(k)
      PROVE  LinkKeptHere(s, m, t)
  <2>1. net' = net /\ refreshed' = refreshed
    BY <1>9 DEF LeaveSlave, RestartSlave, UpdateGrantTable
  <2>2. PICK T : table' = [table EXCEPT ![k] = T]
    BY <1>9, Zenon DEF LeaveSlave, RestartSlave, UpdateGrantTable, Initialized
  <2>3. \A x \in Nodes : x # k => table'[x] = table[x]
    BY <2>2 DEF TableInv
  <2> QED BY <1>7, <2>1, <2>3
<1> QED BY <1>3, <1>4, <1>5, <1>6, <1>8, <1>9, NoMasterFails DEF Next, Handle, Disturbance

-----------------------------------------------------------------------------
LEMMA StepOfSenders ==
  ASSUME TableInv, SlotsInv, Reliable, LeaseInv, Next
  PROVE  SendersOK'
<1>1. SendersOK
  BY DEF LeaseInv
<1>2. CASE net' \subseteq net
  BY <1>1, <1>2 DEF SendersOK
<1>3. ASSUME NEW k \in Slaves, RefreshSlave(k)
      PROVE  SendersOK'
  <2>1. ToCancel(k) = {}
    BY DEF LeaseInv, ParentOK, ToCancel
  <2>2. ASSUME NEW slots, NEW S
        PROVE  /\ \A msg \in Requests(k, slots, S) : msg.kind = "request"
               /\ Cancels(k, slots, {}) = {}
    BY DEF Requests, Cancels, Signal
  <2>3. PICK slots, S, left, Q :
          net' = net \cup Requests(k, slots, S) \cup Cancels(k, slots, {}) \cup Requests(k, left, Q)
    BY <1>3, <2>1, Zenon DEF RefreshSlave
  <2>4. \A msg \in net' : msg \in net \/ msg.kind = "request"
    BY <2>2, <2>3
  <2> QED BY <1>1, <2>4 DEF SendersOK
<1>4. ASSUME NEW k \in Masters, RefreshMaster(k)
      PROVE  SendersOK'
  <2>1. net' = net \cup Cancels(k, MasterAged(k), ExpiredGrants(k))
    BY <1>4 DEF RefreshMaster, MasterAged, ExpiredGrants
  <2>2. \A msg \in net' : msg \in net \/ (msg.kind = "cancel" /\ msg.from \in Masters)
    BY <2>1 DEF Cancels, Signal
  <2> QED BY <1>1, <2>2 DEF SendersOK
<1>5. ASSUME NEW msg \in net, HandleSignaling(msg)
      PROVE  SendersOK'
  <2> DEFINE k == msg.to
  <2>1. CASE HandleRequest(k, msg)
    <3>1. \A a \in net' : a \in net \/ a.kind = "grant" \/ a.kind = "deny"
      BY <2>1 DEF HandleRequest, AnswerWithoutSlot, GrantRequest, Deliver, Signal
    <3> QED BY <1>1, <3>1 DEF SendersOK
  <2>2. CASE HandleCancel(k, msg)
    <3>1. k \in Slaves
      <4>1. msg.from \in Masters /\ Linked(msg) /\ msg.kind = "cancel"
        BY <1>1, <2>2 DEF SendersOK, SlotsInv, HandleCancel
      <4> QED BY <4>1, NodesAssumption DEF Linked
    <3>2. \A a \in net' : a \in net \/ (a.kind = "ack" /\ a.from \in Slaves)
      BY <2>2, <3>1 DEF HandleCancel, Deliver, Signal
    <3> QED BY <1>1, <3>2 DEF SendersOK
  <2>3. CASE HandleGrant(k, msg) \/ HandleAck(k, msg) \/ IgnoreSignal(k, msg)
    BY <1>2, <2>3 DEF HandleGrant, HandleAck, IgnoreSignal, Ignore, Deliver
  <2> QED BY <1>5, <2>1, <2>2, <2>3 DEF HandleSignaling
<1>6. EndRound \/ (\E msg \in net : Lose(msg)) => net' \subseteq net
  BY DEF EndRound, Lose, Ignore, Deliver
<1>7. (\E s \in Slaves, m \in Masters : Messages(s, m)) => net' \subseteq net
  BY DEF Messages, HearTiming, HearAnnounce
<1>8. (\E s \in Slaves : LeaveSlave(s) \/ RestartSlave(s) \/ UpdateGrantTable(s)) => net' \subseteq net
  BY DEF LeaveSlave, RestartSlave, UpdateGrantTable
<1> QED BY <1>2, <1>3, <1>4, <1>5, <1>6, <1>7, <1>8, NoMasterFails
        DEF Next, Handle, Disturbance, Refresh

-----------------------------------------------------------------------------
(* A slave with one master selects that one. *)
LEMMA SelectParents ==
  ASSUME TableInv, SlotsInv, Reliable, LeaseInv, NEW s \in Slaves, NEW m \in Masters, NEW mark,
         HearAnnounce(s, m, mark)
  PROVE  /\ portState' = [portState EXCEPT ![s] = "SLAVE"]
         /\ \A k \in Slaves : ParentOK(k)'
<1> DEFINE best == IF portState[s] = "SLAVE" /\ Rank[parentDS[s]] > Rank[m] THEN parentDS[s] ELSE m
<1>1. Sends(m, s, "ANNOUNCE") /\ Select(s, best) /\ config' = config
  BY DEF HearAnnounce
<1>2. PICK i \in SlotsOf(m) : table[m][i].address = s
  BY <1>1 DEF Sends
<1>3. s # None /\ None \notin Masters
  BY NodesAssumption DEF Nodes
<1>4. m \in Peers(s)
  BY <1>2, <1>3 DEF SlotsInv, MastersOK, UseOK
<1>5. Peers(s) = {m}
  BY <1>4, OnlyPeer
<1>6. /\ \A k \in Slaves : ParentOK(k)
      /\ parentDS[s] \in {m, None}
      /\ portState[s] = "SLAVE" => parentDS[s] \in Masters
  BY <1>5 DEF LeaseInv, ParentOK, SlotsInv, ParentsOK
<1>7. best = m
  BY <1>3, <1>6
<1> HIDE DEF best
<1>8. /\ previousGrants' = [previousGrants EXCEPT ![s] =
           IF parentDS[s] # m /\ parentGrants[s] # 0 THEN parentGrants[s] ELSE @]
      /\ parentDS' = [parentDS EXCEPT ![s] = m]
      /\ parentGrants' = [parentGrants EXCEPT ![s] = Find(s, m, None, Count(s))]
      /\ portState' = [portState EXCEPT ![s] = "SLAVE"]
  BY <1>1, <1>7 DEF Select
<1>9. /\ parentDS = [k \in Slaves |-> parentDS[k]]
      /\ parentGrants = [k \in Slaves |-> parentGrants[k]]
      /\ previousGrants = [k \in Slaves |-> previousGrants[k]]
  BY DEF SlotsInv, ParentsOK
<1>10. ASSUME NEW k \in Slaves
       PROVE  ParentOK(k)'
  <2>1. CASE k # s
    <3>1. parentDS'[k] = parentDS[k] /\ parentGrants'[k] = parentGrants[k]
          /\ previousGrants'[k] = previousGrants[k]
      BY <1>8, <1>9, <2>1
    <3> QED BY <1>1, <1>6, <3>1 DEF ParentOK, Peers, Count
  <2>2. CASE k = s
    <3>1. parentDS'[s] = m
      BY <1>8, <1>9
    <3>2. previousGrants'[s] = 0
      BY <1>6, <1>8, <1>9 DEF ParentOK
    <3> QED BY <1>1, <1>3, <1>4, <2>2, <3>1, <3>2 DEF ParentOK, Peers, Count
  <2> QED BY <2>1, <2>2
<1> QED BY <1>8, <1>10

LEMMA StepOfMasters ==
  ASSUME TableInv, SlotsInv, Reliable, LeaseInv, Next
  PROVE  /\ \A m \in Masters : portState'[m] = "MASTER"
         /\ \A s \in Slaves : ParentOK(s)'
<1>1. config' = config
  BY StepOfParents
<1>2. /\ \A m \in Masters : portState[m] = "MASTER"
      /\ \A s \in Slaves : ParentOK(s)
  BY DEF LeaseInv
<1>3. /\ portState = [n \in Nodes |-> portState[n]]
      /\ parentDS = [k \in Slaves |-> parentDS[k]]
      /\ parentGrants = [k \in Slaves |-> parentGrants[k]]
      /\ previousGrants = [k \in Slaves |-> previousGrants[k]]
      /\ \A s \in Slaves : s \in Nodes /\ s \notin Masters
  BY NodesAssumption DEF SlotsInv, ParentsOK, Nodes
<1>4. ASSUME NEW k \in Slaves, NEW state, portState' = portState \/ portState' = [portState EXCEPT ![k] = state]
      PROVE  \A m \in Masters : portState'[m] = "MASTER"
  BY <1>2, <1>3, <1>4 DEF Nodes
<1>5. ASSUME \A s \in Slaves : /\ parentDS'[s] = parentDS[s] \/ parentDS'[s] = None
                               /\ \/ parentGrants'[s] = parentGrants[s] /\ parentDS'[s] = parentDS[s]
                                  \/ parentGrants'[s] = 0
                               /\ previousGrants'[s] \in {previousGrants[s], 0}
      PROVE  \A s \in Slaves : ParentOK(s)'
  BY <1>1, <1>2, <1>5 DEF ParentOK, Peers, Count
<1>6. ASSUME UNCHANGED <<portState, parentDS, parentGrants, previousGrants>>
      PROVE  /\ \A m \in Masters : portState'[m] = "MASTER"
             /\ \A s \in Slaves : ParentOK(s)'
  BY <1>2, <1>5, <1>6
<1>7. ASSUME NEW n, Refresh(n)
      PROVE  /\ \A m \in Masters : portState'[m] = "MASTER"
             /\ \A s \in Slaves : ParentOK(s)'
  <2>1. CASE n \in Slaves /\ RefreshSlave(n)
    <3>1. /\ portState' = portState /\ parentDS' = parentDS /\ parentGrants' = parentGrants
          /\ previousGrants' = [previousGrants EXCEPT ![n] = 0]
      BY <2>1 DEF RefreshSlave
    <3>2. \A s \in Slaves : previousGrants'[s] \in {previousGrants[s], 0}
      BY <1>3, <3>1
    <3> QED BY <1>2, <1>5, <3>1, <3>2
  <2>2. CASE RefreshMaster(n)
    BY <1>6, <2>2 DEF RefreshMaster, slaveVars
  <2> QED BY <1>7, <2>1, <2>2 DEF Refresh
<1>8. ASSUME EndRound \/ (\E msg \in net : Lose(msg))
      PROVE  UNCHANGED <<portState, parentDS, parentGrants, previousGrants>>
  BY <1>8 DEF EndRound, Lose, Ignore, slaveVars
<1>9. ASSUME NEW msg, HandleSignaling(msg)
      PROVE  UNCHANGED <<portState, parentDS, parentGrants, previousGrants>>
  BY <1>9 DEF HandleSignaling, HandleRequest, HandleGrant, HandleCancel, HandleAck, IgnoreSignal,
              Ignore, slaveVars
<1>10. ASSUME NEW s \in Slaves, NEW m \in Masters, Messages(s, m)
       PROVE  /\ \A n \in Masters : portState'[n] = "MASTER"
              /\ \A k \in Slaves : ParentOK(k)'
  <2>1. ASSUME NEW t, NEW mark, HearTiming(s, m, t, mark)
        PROVE  UNCHANGED <<portState, parentDS, parentGrants, previousGrants>>
    BY <2>1 DEF HearTiming, slaveVars
  <2>2. ASSUME NEW mark, HearAnnounce(s, m, mark)
        PROVE  /\ \A n \in Masters : portState'[n] = "MASTER"
               /\ \A k \in Slaves : ParentOK(k)'
    BY <1>4, <2>2, SelectParents
  <2> QED BY <1>6, <1>10, <2>1, <2>2 DEF Messages
<1>11. ASSUME NEW s \in Slaves, LeaveSlave(s) \/ RestartSlave(s) \/ UpdateGrantTable(s)
       PROVE  /\ \A m \in Masters : portState'[m] = "MASTER"
              /\ \A k \in Slaves : ParentOK(k)'
  <2>1. CASE LeaveSlave(s)
    <3>1. /\ portState' = [portState EXCEPT ![s] = "LISTENING"]
          /\ parentDS' = parentDS /\ previousGrants' = previousGrants
          /\ parentGrants' = [parentGrants EXCEPT ![s] = 0]
      BY <2>1 DEF LeaveSlave
    <3>2. \A k \in Slaves : parentGrants'[k] \in {parentGrants[k], 0}
      BY <1>3, <3>1
    <3> QED BY <1>4, <1>5, <3>1, <3>2
  <2>2. CASE RestartSlave(s)
    <3>1. /\ portState' = [portState EXCEPT ![s] = "LISTENING"]
          /\ parentDS' = [parentDS EXCEPT ![s] = None]
          /\ parentGrants' = [parentGrants EXCEPT ![s] = 0]
          /\ previousGrants' = [previousGrants EXCEPT ![s] = 0]
      BY <2>2 DEF RestartSlave
    <3>2. \A k \in Slaves : /\ parentDS'[k] = parentDS[k] \/ parentDS'[k] = None
                            /\ \/ parentGrants'[k] = parentGrants[k] /\ parentDS'[k] = parentDS[k]
                               \/ parentGrants'[k] = 0
                            /\ previousGrants'[k] \in {previousGrants[k], 0}
      BY <1>3, <3>1
    <3> QED BY <1>4, <1>5, <3>1, <3>2
  <2>3. CASE UpdateGrantTable(s)
    BY <1>6, <2>3 DEF UpdateGrantTable, slaveVars
  <2> QED BY <1>11, <2>1, <2>2, <2>3
<1> QED BY <1>6, <1>7, <1>8, <1>9, <1>10, <1>11, NoMasterFails
        DEF Next, Handle, Disturbance

-----------------------------------------------------------------------------
LEMMA LeaseInvStep ==
  ASSUME TableInv, SlotsInv, LeaseInv, Next
  PROVE  LeaseInv'
<1>1. config' = config
  BY StepOfParents
<1>2. Reliable' => Reliable
  BY <1>1 DEF Reliable, Count
<1>3. ASSUME Reliable
      PROVE  LinksOK'
  <2>1. ASSUME NEW s \in Slaves, NEW m \in Peers(s), NEW t \in Types
        PROVE  LinkOK(s, m, t, net', refreshed', table'[m], table'[s][1].grants[t])
    BY <1>3, <2>1, StepOfLinks DEF LinkKeptHere
  <2> QED BY <1>1, <2>1 DEF LinksOK, Peers, Count, Types
<1>4. ASSUME Reliable
      PROVE  /\ SendersOK'
             /\ \A m \in Masters : portState'[m] = "MASTER"
             /\ \A s \in Slaves : ParentOK(s)'
  BY <1>4, StepOfSenders, StepOfMasters
<1> QED BY <1>2, <1>3, <1>4 DEF LeaseInv

LEMMA LeaseInvStays ==
  ASSUME LeaseInv, UNCHANGED vars
  PROVE  LeaseInv'
<1>1. /\ config' = config /\ portState' = portState /\ table' = table /\ parentDS' = parentDS
      /\ parentGrants' = parentGrants /\ previousGrants' = previousGrants
      /\ net' = net /\ refreshed' = refreshed
  BY DEF vars
<1>2. Reliable' => Reliable
  BY <1>1 DEF Reliable, Count
<1>3. LinksOK => LinksOK'
  BY <1>1 DEF LinksOK, Peers, Count, Types
<1>4. SendersOK => SendersOK'
  BY <1>1 DEF SendersOK
<1>5. ASSUME NEW s
      PROVE  ParentOK(s) => ParentOK(s)'
  BY <1>1 DEF ParentOK, Peers, Count
<1> QED BY <1>1, <1>2, <1>3, <1>4, <1>5 DEF LeaseInv

LEMMA LeaseInvInit ==
  ASSUME Init
  PROVE  LeaseInv
<1>1. /\ config \in Configurations /\ net = {} /\ refreshed = {}
      /\ table = [n \in Nodes |-> EmptyTable(n)]
      /\ portState = [n \in Nodes |-> IF n \in Masters THEN "MASTER" ELSE "LISTENING"]
      /\ parentDS = [s \in Slaves |-> None]
      /\ parentGrants = [s \in Slaves |-> 0] /\ previousGrants = [s \in Slaves |-> 0]
  BY DEF Init
<1>2. /\ SendersOK
      /\ \A m \in Masters : portState[m] = "MASTER"
      /\ \A s \in Slaves : ParentOK(s)
  BY <1>1 DEF SendersOK, ParentOK, Nodes
<1>3. ASSUME NEW s \in Slaves, NEW m \in Peers(s), NEW t \in Types
      PROVE  LinkOK(s, m, t, net, refreshed, table[m], table[s][1].grants[t])
  <2>1. 1 \in SlotsOf(s) /\ s \in Nodes
    <3>1. config.size \in Nat /\ Count(s) \in 0..config.size /\ 1..Count(s) # {}
      BY <1>1, DestinationsOf
    <3> QED BY <3>1 DEF SlotsOf, Nodes
  <2>2. ~table[s][1].grants[t].granted
    BY <1>1, <2>1, EmptyTableOK
  <2> QED BY <1>1, <2>2 DEF LinkOK
<1> QED BY <1>2, <1>3 DEF LeaseInv, LinksOK

(* While masters do not fail and have room, each link between a slave and  *)
(* its master carries one question or answer at most, and the master has   *)
(* longer left of every grant than the slave: what refreshUnicastGrants()  *)
(* of both sides and the handlers of signaling messages keep.              *)
THEOREM LeaseInvariant == Spec => [](TableInv /\ SlotsInv /\ LeaseInv)
<1>1. Init => LeaseInv
  BY LeaseInvInit
<1>2. TableInv /\ SlotsInv /\ LeaseInv /\ [Next]_vars => LeaseInv'
  BY LeaseInvStep, LeaseInvStays
<1> QED BY <1>1, <1>2, SlotsInvariant, PTL DEF Spec

-----------------------------------------------------------------------------
(* What changes the table of a master changes nothing of a slave and takes *)
(* no grant out of the network.                                            *)
LEMMA MasterAlone ==
  ASSUME TableInv, SlotsInv, Reliable, LeaseInv, Next, NEW m \in Masters, table'[m] # table[m]
  PROVE  /\ \A s \in Slaves : table'[s] = table[s]
         /\ \A msg \in net : msg.kind = "grant" => msg \in net'
<1>1. \A k \in Masters : k \in Nodes /\ k \notin Slaves
  BY NodesAssumption DEF Nodes
<1>2. ASSUME NEW k \in Slaves, NEW T, table' = [table EXCEPT ![k] = T]
      PROVE  FALSE
  BY <1>1, <1>2 DEF TableInv
<1>3. ASSUME NEW k \in Masters, NEW T, table' = [table EXCEPT ![k] = T]
      PROVE  \A s \in Slaves : table'[s] = table[s]
  <2>1. \A s \in Slaves : s \in Nodes /\ s # k
    BY <1>1 DEF Nodes
  <2> QED BY <1>3, <2>1 DEF TableInv
<1>4. ASSUME NEW k, Refresh(k)
      PROVE  /\ \A s \in Slaves : table'[s] = table[s]
             /\ \A msg \in net : msg.kind = "grant" => msg \in net'
  <2>1. CASE k \in Slaves /\ RefreshSlave(k)
    BY <1>2, <2>1, Zenon DEF RefreshSlave
  <2>2. CASE k \in Masters /\ RefreshMaster(k)
    <3>1. net \subseteq net'
      BY <2>2 DEF RefreshMaster
    <3>2. PICK T : table' = [table EXCEPT ![k] = T]
      BY <2>2, Zenon DEF RefreshMaster
    <3> QED BY <1>3, <2>2, <3>1, <3>2
  <2> QED BY <1>4, <2>1, <2>2 DEF Refresh
<1>5. ASSUME NEW msg \in net, HandleSignaling(msg)
      PROVE  /\ \A s \in Slaves : table'[s] = table[s]
             /\ \A a \in net : a.kind = "grant" => a \in net'
  <2> DEFINE k == msg.to
  <2>1. CASE k \in Masters /\ HandleRequest(k, msg)
    <3>1. \A a \in net : a.kind = "grant" => a \in net'
      BY <2>1 DEF HandleRequest, AnswerWithoutSlot, GrantRequest, Deliver
    <3>2. PICK T : table' = table \/ table' = [table EXCEPT ![k] = T]
      <4>1. PICK i, S : table' = table \/ table' = [table EXCEPT ![k][i] = S]
        BY <2>1, Zenon DEF HandleRequest, AnswerWithoutSlot, GrantRequest
      <4>2. [table EXCEPT ![k][i] = S] = [table EXCEPT ![k] = [table[k] EXCEPT ![i] = S]]
        OBVIOUS
      <4> QED BY <4>1, <4>2
    <3> QED BY <1>3, <2>1, <3>1, <3>2
  <2>2. CASE k \in Slaves /\ HandleGrant(k, msg)
    <3>1. PICK i, S : table' = [table EXCEPT ![k][i] = S]
      BY <2>2, Zenon DEF HandleGrant
    <3>2. table' = [table EXCEPT ![k] = [table[k] EXCEPT ![i] = S]]
      BY <3>1
    <3> QED BY <1>2, <2>2, <3>2
  <2>3. CASE HandleCancel(k, msg)
    <3>1. k \in Slaves
      <4>1. msg.from \in Masters /\ Linked(msg) /\ msg.kind = "cancel"
        BY <2>3 DEF LeaseInv, SendersOK, SlotsInv, HandleCancel
      <4> QED BY <4>1, NodesAssumption DEF Linked
    <3>2. PICK i, u, h : table' = table \/ table' = [table EXCEPT ![k][i].grants[u] = h]
      <4> DEFINE i0 == Find(k, msg.from, msg.from, config.size)
                 h0 == Ended(table[k][i0].grants[msg.type])
      <4>1. table' = table \/ table' = [table EXCEPT ![k][i0].grants[msg.type] = h0]
        BY <2>3 DEF HandleCancel
      <4> HIDE DEF i0, h0
      <4> QED BY <4>1
    <3>3. [table EXCEPT ![k][i].grants[u] = h]
            = [table EXCEPT ![k] = [table[k] EXCEPT ![i].grants[u] = h]]
      OBVIOUS
    <3> QED BY <1>2, <3>1, <3>2, <3>3
  <2>4. CASE HandleAck(k, msg)
    <3>1. k \in Masters
      BY <2>4, AckedSlot DEF HandleAck
    <3>2. PICK i, u, h : table' = [table EXCEPT ![k][i].grants[u] = h]
      BY <2>4, Zenon DEF HandleAck
    <3>3. [table EXCEPT ![k][i].grants[u] = h]
            = [table EXCEPT ![k] = [table[k] EXCEPT ![i].grants[u] = h]]
      OBVIOUS
    <3>4. \A a \in net : a.kind = "grant" => a \in net'
      BY <2>4 DEF HandleAck, Deliver
    <3> QED BY <1>3, <3>1, <3>2, <3>3, <3>4
  <2>5. CASE IgnoreSignal(k, msg)
    BY <2>5 DEF IgnoreSignal, Ignore
  <2> QED BY <1>5, <2>1, <2>2, <2>3, <2>4, <2>5 DEF HandleSignaling
<1>6. ASSUME NEW msg, Lose(msg)
      PROVE  FALSE
  BY <1>6 DEF Lose, Ignore
<1>7. ASSUME EndRound
      PROVE  FALSE
  BY <1>7 DEF EndRound
<1>8. ASSUME NEW k \in Slaves, NEW n \in Masters, Messages(k, n)
      PROVE  FALSE
  <2>1. PICK i, u, v : Receive(k, i, u, v)
    BY <1>8 DEF Messages, HearTiming, HearAnnounce
  <2>2. table' = [table EXCEPT ![k] = [table[k] EXCEPT ![i].grants[u].receiving = v /\ config.keepalive]]
    BY <2>1 DEF Receive
  <2> QED BY <1>2, <2>2
<1>9. ASSUME NEW k \in Slaves, LeaveSlave(k) \/ RestartSlave(k) \/ UpdateGrantTable(k)
      PROVE  FALSE
  <2>1. PICK T : table' = [table EXCEPT ![k] = T]
    BY <1>9, Zenon DEF LeaveSlave, RestartSlave, UpdateGrantTable, Initialized
  <2> QED BY <1>2, <2>1
<1> QED BY <1>4, <1>5, <1>6, <1>7, <1>8, <1>9, NoMasterFails DEF Next, Handle, Disturbance

-----------------------------------------------------------------------------
LEMMA LeaseInit ==
  ASSUME Init
  PROVE  Lease!Init
<1>1. /\ config \in Configurations /\ net = {}
      /\ table = [n \in Nodes |-> EmptyTable(n)]
  BY DEF Init
<1>2. ASSUME NEW n \in Nodes, NEW i \in SlotsOf(n), NEW t \in Types
      PROVE  ~table[n][i].grants[t].granted
  BY <1>1, <1>2 DEF EmptyTable, NoGrant
<1>3. ASSUME NEW s \in Slaves, NEW m \in Masters, NEW t
      PROVE  ~Offers(s, m, t) /\ ~Serves(s, m, t) /\ ~Relies(s, m, t)
  <2>1. 1..Count(s) \subseteq SlotsOf(s)
    BY <1>1, DestinationsOf
  <2> QED BY <1>1, <1>2, <2>1 DEF Offers, Serves, Relies, Nodes
<1> QED BY <1>3 DEF Lease!Init, Leases

LEMMA RelyStep ==
  ASSUME TableInv, SlotsInv, Next, NEW s \in Slaves, NEW m \in Masters, NEW t,
         Relies(s, m, t)', ~Relies(s, m, t)
  PROVE  Offers(s, m, t)
<1>1. config' = config /\ TablesStep
  BY StepOfParents, StepOfSlots
<1>2. PICK i \in 1..Count(s) : /\ t \in Types /\ table'[s][i].address = m
                              /\ table'[s][i].grants[t].granted
                              /\ ~table'[s][i].grants[t].canceled
  BY <1>1 DEF Relies, Count, Types
<1>3. i \in SlotsOf(s)
  BY DestinationsOf DEF TableInv
<1>4. SlaveSlotStep(s, i, table'[s][i])
  BY <1>1, <1>3 DEF TablesStep
<1>5. table[s][i].address = m
  BY <1>2, <1>4 DEF SlaveSlotStep
<1>6. ~Fades(table[s][i].grants[t], table'[s][i].grants[t])
  BY <1>2, <1>5 DEF Relies, Fades
<1> QED BY <1>2, <1>4, <1>5, <1>6 DEF SlaveSlotStep, Accepts, Offers

LEMMA ServesAfter ==
  ASSUME TableInv, SlotsInv, LeaseInv, Reliable, Next, NEW s \in Slaves, NEW m \in Peers(s), NEW t \in Types,
         \/ table'[s][1].grants[t].granted
         \/ \E msg \in net' : IsSignal(msg, "grant", m, s, t)
  PROVE  Serves(s, m, t)'
<1>1. LinkOK(s, m, t, net', refreshed', table'[m], table'[s][1].grants[t])
  BY StepOfLinks DEF LinkKeptHere
<1>2. PICK x : Backed(table'[m], s, t, x)
  BY <1>1 DEF LinkOK
<1>3. TableStep /\ TablesStep /\ config' = config
  BY StepOfTables, StepOfSlots, StepOfParents
<1>4. DOMAIN table'[m] = SlotsOf(m)
  BY <1>3, NextTimes
<1> QED BY <1>2, <1>3, <1>4 DEF Backed, Serves, Types, SlotsOf

LEMMA OfferStep ==
  ASSUME TableInv, SlotsInv, LeaseInv, Reliable, Next, NEW s \in Slaves, NEW m \in Masters, NEW t,
         Offers(s, m, t)'
  PROVE  Serves(s, m, t)'
<1>1. PICK msg \in net' : msg.kind = "grant" /\ msg.from = m /\ msg.to = s /\ msg.type = t
  BY DEF Offers
<1>2. Linked(msg)
  BY StepOfNet DEF NetStep, SlotsInv
<1>3. t \in Types /\ m \in Peers(s)
  BY <1>1, <1>2 DEF Linked
<1> QED BY <1>1, <1>3, ServesAfter DEF IsSignal

LEMMA WithdrawStep ==
  ASSUME TableInv, SlotsInv, LeaseInv, Reliable, Next, NEW s \in Slaves, NEW m \in Masters, NEW t,
         Relies(s, m, t) \/ Offers(s, m, t), Serves(s, m, t)
  PROVE  Serves(s, m, t)'
<1>1. CASE table'[m] = table[m]
  <2>1. config' = config
    BY StepOfParents
  <2> QED BY <1>1, <2>1 DEF Serves, Types, SlotsOf
<1>2. CASE table'[m] # table[m]
  <2>1. table'[s] = table[s] /\ \A msg \in net : msg.kind = "grant" => msg \in net'
    BY <1>2, MasterAlone
  <2>2. CASE Relies(s, m, t)
    <3>1. PICK i \in 1..Count(s) : t \in Types /\ table[s][i].address = m /\ table[s][i].grants[t].granted
      BY <2>2 DEF Relies
    <3>2. Count(s) \in Nat /\ ~(Count(s) > 1) /\ i \in SlotsOf(s) /\ Destination(s, i) \in Peers(s)
      BY DestinationsOf DEF TableInv, Reliable
    <3>3. i = 1 /\ m \in Peers(s)
      <4>1. i = 1
        BY <3>1, <3>2
      <4>2. table[s][i].address = Destination(s, i)
        BY <3>2 DEF SlotsInv, SlavesOK
      <4> QED BY <3>1, <3>2, <4>1, <4>2
    <3> QED BY <2>1, <3>1, <3>3, ServesAfter
  <2>3. CASE Offers(s, m, t)
    <3>1. PICK msg \in net : msg.kind = "grant" /\ msg.from = m /\ msg.to = s /\ msg.type = t
      BY <2>3 DEF Offers
    <3>2. msg \in net' /\ Linked(msg)
      BY <2>1, <3>1 DEF SlotsInv
    <3>3. t \in Types /\ m \in Peers(s)
      BY <3>1, <3>2 DEF Linked
    <3> QED BY <3>1, <3>2, <3>3, ServesAfter DEF IsSignal
  <2> QED BY <2>2, <2>3
<1> QED BY <1>1, <1>2

LEMMA LeaseStep ==
  ASSUME TableInv, SlotsInv, LeaseInv, Next
  PROVE  Lease!Next
<1>1. config' = config
  BY StepOfParents
<1> DEFINE unreliable == \/ "master" \in config.faults
                         \/ \E s \in Slaves : Count(s) > 1
                         \/ Cardinality({s \in Slaves : Count(s) > 0}) > config.size
<1>2. ~unreliable => Reliable
  BY DEF Reliable
<1>3. unreliable' = unreliable
  BY <1>1 DEF Count
<1>4. ASSUME NEW l \in Leases
      PROVE  /\ Relies(l[1], l[2], l[3])' /\ ~Relies(l[1], l[2], l[3]) => Offers(l[1], l[2], l[3])
             /\ Offers(l[1], l[2], l[3])' => Serves(l[1], l[2], l[3])' \/ unreliable
             /\ Serves(l[1], l[2], l[3]) /\ ~Serves(l[1], l[2], l[3])'
                  => (~Relies(l[1], l[2], l[3]) /\ ~Offers(l[1], l[2], l[3])) \/ unreliable
  <2>1. l[1] \in Slaves /\ l[2] \in Masters
    BY DEF Leases
  <2> HIDE DEF unreliable
  <2>2. Relies(l[1], l[2], l[3])' /\ ~Relies(l[1], l[2], l[3]) => Offers(l[1], l[2], l[3])
    BY <2>1, RelyStep
  <2>3. Offers(l[1], l[2], l[3])' => Serves(l[1], l[2], l[3])' \/ unreliable
    BY <1>2, <2>1, OfferStep
  <2>4. Serves(l[1], l[2], l[3]) /\ ~Serves(l[1], l[2], l[3])'
            => (~Relies(l[1], l[2], l[3]) /\ ~Offers(l[1], l[2], l[3])) \/ unreliable
    BY <1>2, <2>1, WithdrawStep
  <2> QED BY <2>2, <2>3, <2>4
<1> QED BY <1>3, <1>4, Zenon DEF Lease!Next, Lease!Offer, Lease!Rely, Lease!Withdraw

(* For any number of slaves and masters and any durations, refreshes and   *)
(* signaling messages, lost and reordered, implement UnicastLease.         *)
THEOREM KeepsThePromise == Spec => ImplementsLease
<1>1. Init => Lease!Init
  BY LeaseInit
<1>2. TableInv /\ SlotsInv /\ LeaseInv /\ [Next]_vars => [Lease!Next]_Lease!vars
  <2>1. TableInv /\ SlotsInv /\ LeaseInv /\ Next => Lease!Next
    BY LeaseStep
  <2>2. UNCHANGED vars => UNCHANGED Lease!vars
    BY DEF vars, Lease!vars, Leases, Offers, Serves, Relies, Types, Count, SlotsOf
  <2> QED BY <2>1, <2>2
<1> QED BY <1>1, <1>2, LeaseInvariant, PTL DEF Spec, ImplementsLease, Lease!Spec
=============================================================================
