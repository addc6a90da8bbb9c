----------------------------- MODULE Rack_proofs -----------------------------
(***************************************************************************)
(* The Rack helper, for any number of slots, presets, clicks, plug-ins,      *)
(* attempts and edits: first the control plane (RackTopology), then the      *)
(* chain it publishes to the audio thread (RackChain), which implements      *)
(* AtomicChain.  The two share no variable.                                 *)
(***************************************************************************)
EXTENDS RackTopology, RackChain, SequenceTheorems, FiniteSetTheorems, WellFoundedInduction, TLAPS

-----------------------------------------------------------------------------
(* The operators of the model on sequences of slots.                        *)

(* Min is the least element of a set of naturals that has one.               *)
LEMMA LeastElement ==
  ASSUME NEW S \in SUBSET Nat, S # {}
  PROVE  /\ Min(S) \in S
         /\ \A y \in S : Min(S) <= y
<1>1. \E x \in S : \A y \in S : x <= y
  <2> DEFINE less == OpToRel(<, Nat)
  <2>0. IsWellFoundedOn(less, Nat)
    BY ONLY NatLessThanWellFounded
  <2> HIDE DEF less
  <2>1. PICK x \in S : \A y \in S : <<y, x>> \notin less
    BY <2>0, WFMin
  <2>2. \A y \in S : ~ (y < x)
    BY <2>1 DEF less, OpToRel
  <2> QED BY <2>2
<1> QED BY <1>1 DEF Min

(* find_dynamic_slot: a slot of that identity, or 0 when there is none; the   *)
(* slot itself where no other has its identity.                             *)
LEMMA FindFinds ==
  ASSUME NEW row \in Seq(Slot), NEW id \in Nat
  PROVE  /\ FindIn(row, id) \in 0 .. Len(row)
         /\ FindIn(row, id) # 0 => row[FindIn(row, id)].id = id
         /\ FindIn(row, id) = 0 => \A i \in DOMAIN row : row[i].id # id
<1> DEFINE I == {i \in 1 .. Len(row) : row[i].id = id}
<1>1. FindIn(row, id) = IF I # {} THEN Min(I) ELSE 0
  BY DEF FindIn, SelectInSeq
<1>2. I \in SUBSET Nat
  OBVIOUS
<1>3. CASE I = {}
  BY <1>1, <1>3
<1>4. CASE I # {}
  <2>1. Min(I) \in I
    BY <1>2, <1>4, LeastElement
  <2> QED BY <2>1, <1>1, <1>4
<1> QED BY <1>3, <1>4

(* assign_next_dynamic_slot_id: there is an identity that no slot has.       *)
LEMMA FirstFreeIsFree ==
  ASSUME NEW S, NEW row \in Seq(S)
  PROVE  /\ FirstFree(row) \in Nat \ {0}
         /\ \A i \in DOMAIN row : row[i].id # FirstFree(row)
<1> DEFINE L == Len(row)
           free == {n \in 1 .. L + 1 : \A i \in DOMAIN row : row[i].id # n}
<1>0. L \in Nat /\ DOMAIN row = 1 .. L
  OBVIOUS
<1>1. free # {}
  <2>1. SUFFICES ASSUME free = {} PROVE FALSE
    OBVIOUS
  <2>2. \A n \in 1 .. L + 1 : \E i \in 1 .. L : row[i].id = n
    BY <1>0, <2>1
  <2> DEFINE f == [n \in 1 .. L + 1 |-> CHOOSE i \in 1 .. L : row[i].id = n]
  <2>3. f \in [1 .. L + 1 -> 1 .. L]
    BY <2>2
  <2>4. /\ IsFiniteSet(1 .. L + 1) /\ Cardinality(1 .. L + 1) = L + 1
        /\ IsFiniteSet(1 .. L) /\ Cardinality(1 .. L) = L
    BY <1>0, FS_Interval
  <2>5. PICK x, y \in 1 .. L + 1 : x # y /\ f[x] = f[y]
    <3> HIDE DEF f
    <3> QED BY <1>0, <2>3, <2>4, FS_PigeonHole
  <2>6. row[f[x]].id = x /\ row[f[y]].id = y
    BY <2>2
  <2> QED BY <2>5, <2>6
<1>2. free \in SUBSET Nat
  BY <1>0
<1>3. FirstFree(row) = Min(free)
  BY DEF FirstFree
<1>4. Min(free) \in free
  <2> HIDE DEF free
  <2> QED BY <1>1, <1>2, LeastElement
<1> QED BY <1>0, <1>3, <1>4

(* What InsertAt and RemoveAt leave where.                                   *)
LEMMA InsertAtInserts ==
  ASSUME NEW S, NEW s \in Seq(S), NEW i \in 1 .. Len(s) + 1, NEW e \in S
  PROVE  /\ InsertAt(s, i, e) \in Seq(S)
         /\ Len(InsertAt(s, i, e)) = Len(s) + 1
         /\ InsertAt(s, i, e)[i] = e
         /\ \A j \in 1 .. i - 1 : InsertAt(s, i, e)[j] = s[j]
         /\ \A j \in i .. Len(s) : InsertAt(s, i, e)[j + 1] = s[j]
<1> DEFINE a == SubSeq(s, 1, i - 1)
           b == SubSeq(s, i, Len(s))
<1>1. a \in Seq(S) /\ Len(a) = i - 1 /\ \A j \in 1 .. i - 1 : a[j] = s[j]
  BY SubSeqProperties
<1>2. b \in Seq(S) /\ Len(b) = Len(s) - i + 1 /\ \A j \in 1 .. Len(s) - i + 1 : b[j] = s[i + j - 1]
  BY SubSeqProperties
<1>3. <<e>> \in Seq(S) /\ Len(<<e>>) = 1 /\ <<e>>[1] = e
  OBVIOUS
<1> DEFINE c == a \o <<e>>
<1>4. InsertAt(s, i, e) = c \o b
  BY DEF InsertAt
<1> HIDE DEF a, b
<1>5. c \in Seq(S) /\ Len(c) = i /\ c[i] = e /\ \A j \in 1 .. i - 1 : c[j] = s[j]
  <2>1. i - 1 \in Nat /\ 1 \in Nat /\ (i - 1) + 1 = i /\ i \in 1 .. i
    OBVIOUS
  <2>2. /\ c \in Seq(S) /\ Len(c) = (i - 1) + 1
        /\ \A j \in 1 .. (i - 1) + 1 : c[j] = IF j <= i - 1 THEN a[j] ELSE <<e>>[j - (i - 1)]
    <3>1. a \in Seq(S) /\ <<e>> \in Seq(S)
      BY <1>1, <1>3
    <3>2. c \in Seq(S) /\ Len(c) = Len(a) + Len(<<e>>)
      BY ONLY <3>1, ConcatProperties
    <3>3. \A j \in 1 .. Len(a) + Len(<<e>>) : c[j] = IF j <= Len(a) THEN a[j] ELSE <<e>>[j - Len(a)]
      BY ONLY <3>1, ConcatProperties
    <3>4. Len(a) = i - 1 /\ Len(<<e>>) = 1
      BY <1>1, <1>3
    <3> HIDE DEF c
    <3> QED BY ONLY <3>2, <3>3, <3>4
  <2>3. c[i] = <<e>>[i - (i - 1)] /\ i - (i - 1) = 1
    BY <2>1, <2>2
  <2>4. \A j \in 1 .. i - 1 : c[j] = a[j]
    BY <2>2
  <2> HIDE DEF c
  <2> QED BY <1>1, <1>3, <2>1, <2>2, <2>3, <2>4
<1> HIDE DEF c
<1>6. /\ c \o b \in Seq(S) /\ Len(c \o b) = Len(s) + 1
      /\ \A j \in 1 .. Len(s) + 1 : (c \o b)[j] = IF j <= i THEN c[j] ELSE b[j - i]
  <2>1. /\ c \in Seq(S) /\ b \in Seq(S) /\ i \in Nat /\ Len(s) - i + 1 \in Nat
        /\ Len(c) = i /\ Len(b) = Len(s) - i + 1 /\ i + (Len(s) - i + 1) = Len(s) + 1
    BY <1>2, <1>5
  <2>2. /\ c \o b \in Seq(S) /\ Len(c \o b) = i + (Len(s) - i + 1)
        /\ \A j \in 1 .. i + (Len(s) - i + 1) : (c \o b)[j] = IF j <= i THEN c[j] ELSE b[j - i]
    <3>1. c \in Seq(S) /\ b \in Seq(S)
      BY <2>1
    <3>2. c \o b \in Seq(S) /\ Len(c \o b) = Len(c) + Len(b)
      BY ONLY <3>1, ConcatProperties
    <3>3. \A j \in 1 .. Len(c) + Len(b) : (c \o b)[j] = IF j <= Len(c) THEN c[j] ELSE b[j - Len(c)]
      BY ONLY <3>1, ConcatProperties
    <3> QED BY ONLY <2>1, <3>2, <3>3
  <2> QED BY <2>1, <2>2
<1>7. \A j \in i .. Len(s) : (c \o b)[j + 1] = s[j]
  <2> TAKE j \in i .. Len(s)
  <2>1. (c \o b)[j + 1] = b[j + 1 - i]
    BY <1>6
  <2>2. b[j + 1 - i] = s[i + (j + 1 - i) - 1]
    BY <1>2
  <2> QED BY <2>1, <2>2
<1> QED BY <1>4, <1>5, <1>6, <1>7

(* RemoveAt leaves the others in their order.                               *)
LEMMA RemoveAtRemoves ==
  ASSUME NEW S, NEW s \in Seq(S), NEW i \in 1 .. Len(s)
  PROVE  /\ RemoveAt(s, i) \in Seq(S)
         /\ Len(RemoveAt(s, i)) = Len(s) - 1
         /\ \A j \in 1 .. i - 1 : RemoveAt(s, i)[j] = s[j]
         /\ \A j \in i .. Len(s) - 1 : RemoveAt(s, i)[j] = s[j + 1]
<1> DEFINE a == SubSeq(s, 1, i - 1)
           b == SubSeq(s, i + 1, Len(s))
<1>1. a \in Seq(S) /\ Len(a) = i - 1 /\ \A j \in 1 .. i - 1 : a[j] = s[j]
  BY SubSeqProperties
<1>2. b \in Seq(S) /\ Len(b) = Len(s) - i /\ \A j \in 1 .. Len(s) - i : b[j] = s[i + j]
  BY SubSeqProperties
<1>3. RemoveAt(s, i) = a \o b
  BY DEF RemoveAt
<1> HIDE DEF a, b
<1>4. /\ a \o b \in Seq(S) /\ Len(a \o b) = Len(s) - 1
      /\ \A j \in 1 .. Len(s) - 1 : (a \o b)[j] = IF j <= i - 1 THEN a[j] ELSE b[j - (i - 1)]
  <2>1. /\ a \in Seq(S) /\ b \in Seq(S) /\ i - 1 \in Nat /\ Len(s) - i \in Nat
        /\ Len(a) = i - 1 /\ Len(b) = Len(s) - i /\ (i - 1) + (Len(s) - i) = Len(s) - 1
    BY <1>1, <1>2
  <2>2. /\ a \o b \in Seq(S) /\ Len(a \o b) = (i - 1) + (Len(s) - i)
        /\ \A j \in 1 .. (i - 1) + (Len(s) - i) :
              (a \o b)[j] = IF j <= i - 1 THEN a[j] ELSE b[j - (i - 1)]
    <3>1. a \in Seq(S) /\ b \in Seq(S)
      BY <2>1
    <3>2. a \o b \in Seq(S) /\ Len(a \o b) = Len(a) + Len(b)
      BY ONLY <3>1, ConcatProperties
    <3>3. \A j \in 1 .. Len(a) + Len(b) : (a \o b)[j] = IF j <= Len(a) THEN a[j] ELSE b[j - Len(a)]
      BY ONLY <3>1, ConcatProperties
    <3> QED BY ONLY <2>1, <3>2, <3>3
  <2> QED BY <2>1, <2>2
<1>5. \A j \in i .. Len(s) - 1 : (a \o b)[j] = s[j + 1]
  <2> TAKE j \in i .. Len(s) - 1
  <2>1. (a \o b)[j] = b[j - (i - 1)]
    BY <1>4
  <2>2. b[j - (i - 1)] = s[i + (j - (i - 1))]
    BY <1>2
  <2> QED BY <2>1, <2>2
<1> QED BY <1>1, <1>3, <1>4, <1>5

-----------------------------------------------------------------------------
(* The edits of a Rack.                                                     *)

(* A slot without a plug-in was one before, of the same identity and class.  *)
KeepsPlaceholders(old, new) ==
    \A j \in DOMAIN new :
        ~new[j].live =>
            \E k \in DOMAIN old : ~old[k].live /\ old[k].id = new[j].id /\ old[k].plug = new[j].plug

(* A plug-in stays in its slot, unless that is the slot the edit is about.   *)
KeepsOccupants(old, new, gone) ==
    \A k \in DOMAIN old :
        old[k].live /\ old[k].id # gone
            => \E j \in DOMAIN new : new[j].live /\ new[j].id = old[k].id /\ new[j].unit = old[k].unit

IsEdit(old, new, gone) ==
    new \in Racks /\ KeepsPlaceholders(old, new) /\ KeepsOccupants(old, new, gone)

(* Every slot of one Rack is in the other as well.                          *)
LEMMA SameSlotsIsEdit ==
  ASSUME NEW old \in Racks, NEW new \in Seq(Slot), Len(new) <= MaxSlots,
         \A j \in DOMAIN new : \E k \in DOMAIN old : new[j] = old[k],
         NEW gone,
         \A k \in DOMAIN old : old[k].id # gone => \E j \in DOMAIN new : new[j] = old[k]
  PROVE  IsEdit(old, new, gone)
<1>1. \A j \in DOMAIN new : new[j].live <=> new[j].health = "ready"
  BY DEF Racks
<1>2. KeepsPlaceholders(old, new)
  BY DEF KeepsPlaceholders
<1>3. KeepsOccupants(old, new, gone)
  BY DEF KeepsOccupants
<1> QED BY <1>1, <1>2, <1>3 DEF IsEdit, Racks

(* A slot with a plug-in is inserted: ExecuteAdd.                           *)
LEMMA AddIsEdit ==
  ASSUME NEW old \in Racks, Len(old) < MaxSlots, MaxSlots \in Nat, NEW i \in 1 .. Len(old) + 1,
         NEW s \in Slot, s.live, s.health = "ready"
  PROVE  IsEdit(old, InsertAt(old, i, s), 0)
<1> DEFINE new == InsertAt(old, i, s)
<1>0. old \in Seq(Slot) /\ Len(old) \in Nat /\ DOMAIN old = 1 .. Len(old)
  BY DEF Racks
<1>1. /\ new \in Seq(Slot) /\ Len(new) = Len(old) + 1 /\ new[i] = s
      /\ \A j \in 1 .. i - 1 : new[j] = old[j]
      /\ \A j \in i .. Len(old) : new[j + 1] = old[j]
  <2>1. old \in Seq(Slot)
    BY <1>0
  <2> QED BY ONLY <2>1, i \in 1 .. Len(old) + 1, s \in Slot, InsertAtInserts
<1>2. DOMAIN new = 1 .. Len(old) + 1
  BY <1>1
<1> HIDE DEF new
<1>3. \A j \in DOMAIN new : j = i \/ \E k \in DOMAIN old : new[j] = old[k]
  <2> SUFFICES ASSUME NEW j \in 1 .. Len(old) + 1, j # i
               PROVE  \E k \in 1 .. Len(old) : new[j] = old[k]
    BY <1>0, <1>2
  <2>1. CASE j < i
    BY <2>1, <1>0, <1>1
  <2>2. CASE j > i
    <3>1. j - 1 \in i .. Len(old) /\ (j - 1) + 1 = j
      BY <2>2, <1>0
    <3>2. new[(j - 1) + 1] = old[j - 1]
      BY <3>1, <1>1
    <3>3. j - 1 \in 1 .. Len(old) /\ new[j] = old[j - 1]
      BY <3>1, <3>2
    <3> QED BY <3>3
  <2> QED BY <1>0, <2>1, <2>2
<1>4. \A k \in DOMAIN old : \E j \in DOMAIN new : new[j] = old[k]
  <2> SUFFICES ASSUME NEW k \in 1 .. Len(old) PROVE \E j \in 1 .. Len(old) + 1 : new[j] = old[k]
    BY <1>0, <1>2
  <2>1. CASE k < i
    BY <2>1, <1>0, <1>1
  <2>2. CASE k >= i
    BY <2>2, <1>0, <1>1
  <2> QED BY <1>0, <2>1, <2>2
<1>5. new \in Racks
  <2>1. \A j \in DOMAIN new : new[j].live <=> new[j].health = "ready"
    BY <1>1, <1>3 DEF Racks
  <2> QED BY <1>0, <1>1, <2>1 DEF Racks
<1>6. KeepsPlaceholders(old, new)
  BY <1>1, <1>3 DEF KeepsPlaceholders
<1>7. KeepsOccupants(old, new, 0)
  BY <1>4 DEF KeepsOccupants
<1> QED BY <1>5, <1>6, <1>7 DEF IsEdit, new

(* A slot is taken out: ExecuteRemove is about that slot only.              *)
LEMMA RemoveIsEdit ==
  ASSUME NEW old \in Racks, MaxSlots \in Nat, NEW i \in 1 .. Len(old)
  PROVE  IsEdit(old, RemoveAt(old, i), old[i].id)
<1> DEFINE new == RemoveAt(old, i)
<1>0. old \in Seq(Slot) /\ Len(old) \in Nat /\ DOMAIN old = 1 .. Len(old) /\ Len(old) <= MaxSlots
  BY DEF Racks
<1>1. /\ new \in Seq(Slot) /\ Len(new) = Len(old) - 1
      /\ \A j \in 1 .. i - 1 : new[j] = old[j]
      /\ \A j \in i .. Len(old) - 1 : new[j] = old[j + 1]
  BY <1>0, RemoveAtRemoves
<1>2. DOMAIN new = 1 .. Len(old) - 1
  BY <1>1
<1> HIDE DEF new
<1>3. \A j \in DOMAIN new : \E k \in DOMAIN old : new[j] = old[k]
  <2> SUFFICES ASSUME NEW j \in 1 .. Len(old) - 1 PROVE \E k \in 1 .. Len(old) : new[j] = old[k]
    BY <1>0, <1>2
  <2>1. CASE j < i
    BY <2>1, <1>0, <1>1
  <2>2. CASE j >= i
    BY <2>2, <1>0, <1>1
  <2> QED BY <1>0, <2>1, <2>2
<1>4. \A k \in DOMAIN old : old[k].id # old[i].id => \E j \in DOMAIN new : new[j] = old[k]
  <2> SUFFICES ASSUME NEW k \in 1 .. Len(old), k # i PROVE \E j \in 1 .. Len(old) - 1 : new[j] = old[k]
    BY <1>0, <1>2
  <2>1. CASE k < i
    BY <2>1, <1>0, <1>1
  <2>2. CASE k > i
    <3>1. k - 1 \in i .. Len(old) - 1 /\ (k - 1) + 1 = k
      BY <2>2, <1>0
    <3>2. new[k - 1] = old[(k - 1) + 1]
      BY <3>1, <1>1
    <3>3. k - 1 \in 1 .. Len(old) - 1 /\ new[k - 1] = old[k]
      BY <3>1, <3>2
    <3> QED BY <3>3
  <2> QED BY <1>0, <2>1, <2>2
<1> DEFINE gone == old[i].id
<1>5. \A k \in DOMAIN old : old[k].id # gone => \E j \in DOMAIN new : new[j] = old[k]
  BY <1>4
<1>6. Len(new) <= MaxSlots
  BY <1>0, <1>1
<1> HIDE DEF gone
<1>7. IsEdit(old, new, gone)
  <2>1. new \in Seq(Slot) /\ old \in Racks
    BY <1>1
  <2> QED BY ONLY <2>1, <1>3, <1>5, <1>6, SameSlotsIsEdit, Zenon
<1> QED BY <1>7 DEF new, gone

(* A slot is moved to another place: ExecuteMove keeps every occupant.      *)
LEMMA MoveIsEdit ==
  ASSUME NEW old \in Racks, MaxSlots \in Nat, NEW i \in 1 .. Len(old), NEW k \in 1 .. Len(old)
  PROVE  IsEdit(old, InsertAt(RemoveAt(old, i), k, old[i]), 0)
<1> DEFINE cut == RemoveAt(old, i)
           new == InsertAt(cut, k, old[i])
<1>0. /\ old \in Seq(Slot) /\ Len(old) \in Nat /\ DOMAIN old = 1 .. Len(old) /\ Len(old) <= MaxSlots
      /\ old[i] \in Slot
  BY DEF Racks
<1>1. /\ cut \in Seq(Slot) /\ Len(cut) = Len(old) - 1
      /\ \A j \in 1 .. i - 1 : cut[j] = old[j]
      /\ \A j \in i .. Len(old) - 1 : cut[j] = old[j + 1]
  BY <1>0, RemoveAtRemoves
<1> HIDE DEF cut
<1>2. /\ new \in Seq(Slot) /\ Len(new) = Len(old) /\ new[k] = old[i]
      /\ \A j \in 1 .. k - 1 : new[j] = cut[j]
      /\ \A j \in k .. Len(old) - 1 : new[j + 1] = cut[j]
  <2>1. k \in 1 .. Len(cut) + 1 /\ old[i] \in Slot /\ cut \in Seq(Slot)
    BY <1>0, <1>1
  <2>2. /\ new \in Seq(Slot) /\ Len(new) = Len(cut) + 1 /\ new[k] = old[i]
        /\ \A j \in 1 .. k - 1 : new[j] = cut[j]
        /\ \A j \in k .. Len(cut) : new[j + 1] = cut[j]
    <3> HIDE DEF new
    <3>1. new = InsertAt(cut, k, old[i])
      BY DEF new
    <3>2. InsertAt(cut, k, old[i]) \in Seq(Slot) /\ Len(InsertAt(cut, k, old[i])) = Len(cut) + 1
          /\ InsertAt(cut, k, old[i])[k] = old[i]
      BY ONLY <2>1, InsertAtInserts
    <3>3. \A j \in 1 .. k - 1 : InsertAt(cut, k, old[i])[j] = cut[j]
      BY ONLY <2>1, InsertAtInserts
    <3>4. \A j \in k .. Len(cut) : InsertAt(cut, k, old[i])[j + 1] = cut[j]
      BY ONLY <2>1, InsertAtInserts
    <3> QED BY ONLY <3>1, <3>2, <3>3, <3>4
  <2>3. Len(cut) = Len(old) - 1 /\ Len(cut) + 1 = Len(old)
    BY <1>0, <1>1
  <2> HIDE DEF new
  <2> QED BY <2>2, <2>3
<1>3. DOMAIN new = 1 .. Len(old)
  BY <1>2
<1> HIDE DEF new
<1>4. \A j \in 1 .. Len(old) - 1 : \E l \in 1 .. Len(old) : cut[j] = old[l]
  <2> TAKE j \in 1 .. Len(old) - 1
  <2>1. CASE j < i
    <3>1. j \in 1 .. i - 1 /\ j \in 1 .. Len(old)
      BY ONLY <2>1, <1>0, j \in 1 .. Len(old) - 1, i \in 1 .. Len(old)
    <3>2. cut[j] = old[j]
      BY <1>1, <3>1
    <3> QED BY <3>1, <3>2
  <2>2. CASE j >= i
    <3>1. j \in i .. Len(old) - 1 /\ j + 1 \in 1 .. Len(old)
      BY ONLY <2>2, <1>0, j \in 1 .. Len(old) - 1, i \in 1 .. Len(old)
    <3>2. cut[j] = old[j + 1]
      BY <1>1, <3>1
    <3> QED BY <3>1, <3>2
  <2> QED BY <1>0, <2>1, <2>2
<1>5. \A j \in 1 .. Len(old) : j = k \/ \E l \in 1 .. Len(old) - 1 : new[j] = cut[l]
  <2> TAKE j \in 1 .. Len(old)
  <2>1. CASE j < k
    BY <2>1, <1>0, <1>2
  <2>2. CASE j > k
    <3>1. j - 1 \in k .. Len(old) - 1 /\ (j - 1) + 1 = j
      BY <2>2, <1>0
    <3>2. new[(j - 1) + 1] = cut[j - 1]
      BY <3>1, <1>2
    <3>3. j - 1 \in 1 .. Len(old) - 1 /\ new[j] = cut[j - 1]
      BY <3>1, <3>2
    <3> QED BY <3>3
  <2> QED BY <1>0, <2>1, <2>2
<1>6. \A j \in DOMAIN new : \E l \in DOMAIN old : new[j] = old[l]
  <2> SUFFICES ASSUME NEW j \in 1 .. Len(old) PROVE \E l \in 1 .. Len(old) : new[j] = old[l]
    BY <1>0, <1>3
  <2>1. CASE j = k
    BY <2>1, <1>2
  <2>2. CASE \E l \in 1 .. Len(old) - 1 : new[j] = cut[l]
    BY <2>2, <1>4
  <2> QED BY <1>5, <2>1, <2>2
<1>7. \A l \in 1 .. Len(old) : l = i \/ \E j \in 1 .. Len(old) - 1 : cut[j] = old[l]
  <2> TAKE l \in 1 .. Len(old)
  <2>1. CASE l < i
    BY <2>1, <1>0, <1>1
  <2>2. CASE l > i
    <3>1. l - 1 \in i .. Len(old) - 1 /\ (l - 1) + 1 = l
      BY <2>2, <1>0
    <3>2. cut[l - 1] = old[(l - 1) + 1]
      BY <3>1, <1>1
    <3>3. l - 1 \in 1 .. Len(old) - 1 /\ cut[l - 1] = old[l]
      BY <3>1, <3>2
    <3> QED BY <3>3
  <2> QED BY <1>0, <2>1, <2>2
<1>8. \A j \in 1 .. Len(old) - 1 : \E l \in 1 .. Len(old) : new[l] = cut[j]
  <2> TAKE j \in 1 .. Len(old) - 1
  <2>1. CASE j < k
    <3>1. j \in 1 .. k - 1 /\ j \in 1 .. Len(old)
      BY ONLY <2>1, <1>0, j \in 1 .. Len(old) - 1, k \in 1 .. Len(old)
    <3>2. new[j] = cut[j]
      BY <1>2, <3>1
    <3> QED BY <3>1, <3>2
  <2>2. CASE j >= k
    <3>1. j \in k .. Len(old) - 1 /\ j + 1 \in 1 .. Len(old)
      BY ONLY <2>2, <1>0, j \in 1 .. Len(old) - 1, k \in 1 .. Len(old)
    <3>2. new[j + 1] = cut[j]
      BY <1>2, <3>1
    <3> QED BY <3>1, <3>2
  <2> QED BY <1>0, <2>1, <2>2
<1>9. \A l \in DOMAIN old : \E j \in DOMAIN new : new[j] = old[l]
  <2> SUFFICES ASSUME NEW l \in 1 .. Len(old) PROVE \E j \in 1 .. Len(old) : new[j] = old[l]
    BY <1>0, <1>3
  <2>1. CASE l = i
    BY <2>1, <1>2
  <2>2. CASE \E j \in 1 .. Len(old) - 1 : cut[j] = old[l]
    BY <2>2, <1>8
  <2> QED BY <1>7, <2>1, <2>2
<1>10. IsEdit(old, new, 0)
  <2>1. new \in Seq(Slot) /\ old \in Racks /\ Len(new) <= MaxSlots
    BY <1>0, <1>2
  <2>2. \A l \in DOMAIN old : old[l].id # 0 => \E j \in DOMAIN new : new[j] = old[l]
    BY <1>9
  <2> QED BY ONLY <2>1, <1>6, <2>2, SameSlotsIsEdit, Zenon
<1> QED BY <1>10 DEF new, cut

(* A slot is bypassed or not: ExecuteBypass keeps every occupant.           *)
LEMMA BypassIsEdit ==
  ASSUME NEW old \in Racks, MaxSlots \in Nat, NEW i \in 1 .. Len(old), NEW b \in BOOLEAN
  PROVE  IsEdit(old, [old EXCEPT ![i].bypass = b], 0)
<1> DEFINE s == [old[i] EXCEPT !.bypass = b]
           new == [old EXCEPT ![i] = s]
<1>0. old \in Seq(Slot) /\ DOMAIN old = 1 .. Len(old) /\ Len(old) <= MaxSlots /\ old[i] \in Slot
  BY DEF Racks
<1>1. /\ s \in Slot /\ s.id = old[i].id /\ s.plug = old[i].plug /\ s.health = old[i].health
      /\ s.live = old[i].live /\ s.unit = old[i].unit
  BY <1>0 DEF Slot
<1> HIDE DEF s
<1>2. /\ new \in Seq(Slot) /\ Len(new) = Len(old)
      /\ \A j \in 1 .. Len(old) : new[j] = IF j = i THEN s ELSE old[j]
  BY <1>0, <1>1, ExceptSeq
<1>3. DOMAIN new = DOMAIN old
  BY <1>0
<1> HIDE DEF new
<1>4. new \in Racks
  <2>1. \A j \in DOMAIN new : new[j].live <=> new[j].health = "ready"
    BY <1>0, <1>1, <1>2, <1>3 DEF Racks
  <2> QED BY <1>0, <1>2, <2>1 DEF Racks
<1>5. KeepsPlaceholders(old, new)
  BY <1>0, <1>1, <1>2, <1>3 DEF KeepsPlaceholders
<1>6. KeepsOccupants(old, new, 0)
  BY <1>0, <1>1, <1>2, <1>3 DEF KeepsOccupants
<1>7. IsEdit(old, new, 0)
  BY <1>4, <1>5, <1>6 DEF IsEdit
<1> QED BY <1>7 DEF new, s

(* Another plug-in in a slot: ExecuteReplace is about that slot only.       *)
LEMMA ReplaceIsEdit ==
  ASSUME NEW old \in Racks, MaxSlots \in Nat, NEW i \in 1 .. Len(old),
         NEW s \in Slot, s.live, s.health = "ready"
  PROVE  IsEdit(old, [old EXCEPT ![i] = s], old[i].id)
<1> DEFINE new == [old EXCEPT ![i] = s]
<1>0. old \in Seq(Slot) /\ DOMAIN old = 1 .. Len(old) /\ Len(old) <= MaxSlots
  BY DEF Racks
<1>1. /\ new \in Seq(Slot) /\ Len(new) = Len(old)
      /\ \A j \in 1 .. Len(old) : new[j] = IF j = i THEN s ELSE old[j]
  BY <1>0, ExceptSeq
<1>2. DOMAIN new = DOMAIN old
  BY <1>0
<1> HIDE DEF new
<1>3. new \in Racks
  <2>1. \A j \in DOMAIN new : new[j].live <=> new[j].health = "ready"
    BY <1>0, <1>1, <1>2 DEF Racks
  <2> QED BY <1>0, <1>1, <2>1 DEF Racks
<1>4. KeepsPlaceholders(old, new)
  BY <1>0, <1>1, <1>2 DEF KeepsPlaceholders
<1>5. KeepsOccupants(old, new, old[i].id)
  BY <1>0, <1>1, <1>2 DEF KeepsOccupants
<1> QED BY <1>3, <1>4, <1>5 DEF IsEdit, new

(* materialize_preset_candidate: a Rack without an identity twice, whose      *)
(* placeholders are the slots that were not opened.                         *)
LEMMA MaterializeBuilds ==
  ASSUME NEW saved \in SavedSlots, NEW alive \in SUBSET Openable(saved), units \in Nat
  PROVE  /\ Materialize(saved, alive) \in Racks
         /\ DistinctIds(Materialize(saved, alive))
         /\ DOMAIN Materialize(saved, alive) = DOMAIN saved
         /\ \A i \in DOMAIN saved :
                /\ Materialize(saved, alive)[i].id = saved[i].id
                /\ Materialize(saved, alive)[i].plug = saved[i].plug
                /\ Materialize(saved, alive)[i].live <=> i \in alive
<1> DEFINE new == Materialize(saved, alive)
<1>0. /\ saved \in Seq(SavedSlot) /\ Len(saved) \in Nat /\ DOMAIN saved = 1 .. Len(saved)
      /\ Len(saved) <= MaxSlots /\ DistinctIds(saved)
  BY DEF SavedSlots
<1>1. DOMAIN new = DOMAIN saved
  BY DEF Materialize
<1>2. \A i \in DOMAIN saved :
        /\ new[i] \in Slot /\ new[i].id = saved[i].id /\ new[i].plug = saved[i].plug
        /\ new[i].live <=> i \in alive
        /\ new[i].live <=> new[i].health = "ready"
  <2> SUFFICES ASSUME NEW i \in DOMAIN saved
               PROVE  /\ new[i] \in Slot /\ new[i].id = saved[i].id /\ new[i].plug = saved[i].plug
                      /\ new[i].live <=> i \in alive
                      /\ new[i].live <=> new[i].health = "ready"
    OBVIOUS
  <2>1. saved[i] \in SavedSlot /\ i \in Nat
    BY <1>0
  <2>2. new[i] = [id |-> saved[i].id, plug |-> saved[i].plug, bypass |-> saved[i].bypass,
                  health |-> IF i \in alive THEN "ready"
                             ELSE IF i \in Openable(saved) THEN "missing" ELSE "quarantined",
                  live |-> i \in alive, unit |-> units + i]
    BY DEF Materialize
  <2>3. units + i \in Nat
    BY <2>1
  <2> DEFINE h == IF i \in alive THEN "ready"
                  ELSE IF i \in Openable(saved) THEN "missing" ELSE "quarantined"
             l == i \in alive
  <2>4. h \in {"ready", "missing", "quarantined"} /\ (l <=> h = "ready") /\ l \in BOOLEAN
    OBVIOUS
  <2>5. new[i] = [id |-> saved[i].id, plug |-> saved[i].plug, bypass |-> saved[i].bypass,
                  health |-> h, live |-> l, unit |-> units + i]
    BY <2>2
  <2>6. l <=> i \in alive
    OBVIOUS
  <2> HIDE DEF h, l, new
  <2>7. new[i] \in Slot
    BY <2>1, <2>3, <2>4, <2>5 DEF Slot, SavedSlot, Healths
  <2>8. new[i].id = saved[i].id /\ new[i].plug = saved[i].plug /\ new[i].health = h /\ new[i].live = l
    BY <2>5
  <2> QED BY <2>4, <2>6, <2>7, <2>8
<1> HIDE DEF new
<1>3. new \in Seq(Slot) /\ Len(new) = Len(saved)
  <2>1. new = [i \in 1 .. Len(saved) |-> new[i]]
    BY <1>0, <1>1 DEF new, Materialize
  <2> QED BY <1>0, <1>1, <1>2, <2>1
<1>4. DistinctIds(new)
  BY <1>0, <1>1, <1>2 DEF DistinctIds
<1>5. new \in Racks
  BY <1>0, <1>1, <1>2, <1>3 DEF Racks
<1> QED BY <1>1, <1>2, <1>4, <1>5 DEF new

-----------------------------------------------------------------------------
(* The contract of the editor's models.                                     *)

(* begin_command. *)
LEMMA BeginGives ==
  ASSUME NEW V, NEW R, NEW m \in Models(V, R), NEW c \in R
  PROVE  /\ Begin(m, c) \in Models(V, R)
         /\ Begin(m, c).generation = m.generation /\ Begin(m, c).view = m.view
         /\ Begin(m, c).pending = c /\ Begin(m, c).from = m.generation /\ Begin(m, c).accepted = 0
BY DEF Begin, Models

(* What ends a wait. *)
LEMMA ClearedGives ==
  ASSUME NEW V, NEW R, NEW m \in Models(V, R)
  PROVE  /\ Cleared(m) \in Models(V, R)
         /\ Cleared(m).generation = m.generation /\ Cleared(m).view = m.view
         /\ Cleared(m).pending = None /\ Cleared(m).from = 0 /\ Cleared(m).accepted = 0
BY DEF Cleared, Models

(* publish_snapshot: an older snapshot changes nothing, a newer one is shown  *)
(* and ends the wait for it.                                                *)
LEMMA AfterPublishGives ==
  ASSUME NEW V, NEW R, NEW m \in Models(V, R), NEW n \in Nat \ {0}, NEW v \in V
  PROVE  /\ AfterPublish(m, n, v) \in Models(V, R)
         /\ n <= m.generation => AfterPublish(m, n, v) = m
         /\ n > m.generation =>
                /\ AfterPublish(m, n, v).generation = n
                /\ AfterPublish(m, n, v).view = v
         /\ n > m.generation /\ m.accepted # 0 /\ n >= m.accepted =>
                /\ AfterPublish(m, n, v).pending = None
                /\ AfterPublish(m, n, v).from = 0
                /\ AfterPublish(m, n, v).accepted = 0
         /\ n > m.generation /\ ~(m.accepted # 0 /\ n >= m.accepted) =>
                /\ AfterPublish(m, n, v).pending = m.pending
                /\ AfterPublish(m, n, v).from = m.from
                /\ AfterPublish(m, n, v).accepted = m.accepted
<1> DEFINE shown == [m EXCEPT !.generation = n, !.view = v]
<1>1. /\ shown \in Models(V, R) /\ shown.generation = n /\ shown.view = v
      /\ shown.pending = m.pending /\ shown.from = m.from /\ shown.accepted = m.accepted
  BY DEF Models
<1>2. m.generation \in Nat
  BY DEF Models
<1>3. AfterPublish(m, n, v) = IF n <= m.generation THEN m
                              ELSE IF m.accepted # 0 /\ n >= m.accepted THEN Cleared(shown) ELSE shown
  BY DEF AfterPublish
<1> HIDE DEF shown
<1>4. CASE n <= m.generation
  BY <1>2, <1>3, <1>4
<1>5. CASE ~(n <= m.generation) /\ m.accepted # 0 /\ n >= m.accepted
  <2>1. AfterPublish(m, n, v) = Cleared(shown)
    BY <1>3, <1>5
  <2> QED BY <2>1, <1>1, <1>2, <1>5, ClearedGives
<1>6. CASE ~(n <= m.generation) /\ ~(m.accepted # 0 /\ n >= m.accepted)
  <2>1. AfterPublish(m, n, v) = shown
    BY <1>3, <1>6
  <2> QED BY <2>1, <1>1, <1>2, <1>6
<1> QED BY <1>4, <1>5, <1>6

(* apply_ack never touches what is shown; it ends the wait, or sets the       *)
(* generation that the wait is for.                                         *)
LEMMA AfterAckGives ==
  ASSUME NEW V, NEW R, NEW m \in Models(V, R), NEW answer, answer.generation \in Nat
  PROVE  /\ AfterAck(m, answer) \in Models(V, R)
         /\ AfterAck(m, answer).generation = m.generation
         /\ AfterAck(m, answer).view = m.view
         /\ AfterAck(m, answer).from \in {m.from, 0}
         /\ m.pending = None => AfterAck(m, answer) = m
         /\ m.pending # None /\ m.pending.id = answer.id
            /\ (answer.result # "accepted" \/ m.pending.type \in Transient)
            => AfterAck(m, answer).pending = None
         /\ m.pending # None /\ m.pending.id = answer.id
            /\ answer.result = "accepted" /\ m.pending.type \notin Transient
            /\ answer.generation > m.from /\ answer.generation > m.generation
            => /\ AfterAck(m, answer).pending = m.pending
               /\ AfterAck(m, answer).accepted = answer.generation
<1> DEFINE waits == [m EXCEPT !.accepted = answer.generation]
<1>1. /\ waits \in Models(V, R) /\ waits.generation = m.generation /\ waits.view = m.view
      /\ waits.pending = m.pending /\ waits.from = m.from /\ waits.accepted = answer.generation
  BY DEF Models
<1>2. m.generation \in Nat /\ m.from \in Nat
  BY DEF Models
<1>3. CASE m.pending = None \/ m.pending.id # answer.id
  <2>1. AfterAck(m, answer) = m
    BY <1>3 DEF AfterAck
  <2> QED BY <1>3, <2>1
<1>4. CASE /\ m.pending # None /\ m.pending.id = answer.id
           /\ answer.result # "accepted" \/ m.pending.type \in Transient
  <2>1. AfterAck(m, answer) = Cleared(m)
    BY <1>4 DEF AfterAck
  <2> QED BY <1>4, <2>1, ClearedGives
<1>5. CASE /\ m.pending # None /\ m.pending.id = answer.id
           /\ ~(answer.result # "accepted" \/ m.pending.type \in Transient)
  <2>1. AfterAck(m, answer) = IF answer.generation <= m.from THEN m
                              ELSE IF m.generation >= answer.generation THEN Cleared(m) ELSE waits
    BY <1>5 DEF AfterAck
  <2> HIDE DEF waits
  <2>2. CASE answer.generation <= m.from
    BY <1>2, <1>5, <2>1, <2>2
  <2>3. CASE ~(answer.generation <= m.from) /\ m.generation >= answer.generation
    <3>1. AfterAck(m, answer) = Cleared(m)
      BY <2>1, <2>3
    <3> QED BY <1>2, <1>5, <2>3, <3>1, ClearedGives
  <2>4. CASE ~(answer.generation <= m.from) /\ ~(m.generation >= answer.generation)
    <3>1. AfterAck(m, answer) = waits
      BY <2>1, <2>4
    <3> QED BY <1>1, <1>2, <1>5, <2>4, <3>1
  <2> QED BY <2>2, <2>3, <2>4
<1> QED BY <1>3, <1>4, <1>5

-----------------------------------------------------------------------------
(* What a click, an executed command and an adopted Rack have in common.    *)

RackClicked(c) ==
    /\ editor.pending = None /\ preset_editor.pending = None /\ ~stopping
    /\ c \in RackRequest
    /\ ~c.outdated => command_worker.pc # "snapshot"
    /\ ~c.outdated /\ c.slot # 0 =>
        /\ FindIn(editor.view, c.slot) # 0
        /\ c.seen = editor.view[FindIn(editor.view, c.slot)].unit
    /\ frame' = NoFrame
    /\ issued' = issued + 1
    /\ editor' = Begin(editor, c)
    /\ queue' = Append(queue, c)
    /\ UNCHANGED <<setup, rackVars, catalogVars, presetVars, preset_queue, command_worker,
                   preset_editor, stopping>>

PresetClicked(c) ==
    /\ editor.pending = None /\ preset_editor.pending = None /\ ~stopping
    /\ c \in PresetRequest
    /\ frame' = NoFrame
    /\ issued' = issued + 1
    /\ preset_editor' = Begin(preset_editor, c)
    /\ preset_queue' = Append(preset_queue, c)
    /\ UNCHANGED <<setup, rackVars, catalogVars, presetVars, queue, command_worker, editor, stopping>>

RackTaken ==
    /\ Ready /\ preset_queue = <<>> /\ queue # <<>>
    /\ queue' = Tail(queue) /\ preset_queue' = preset_queue

RackEdited ==
    /\ RackTaken
    /\ Command.type \notin Transient
    /\ Commit
    /\ windows' \in SUBSET windows
    /\ \E gone \in Nat : IsEdit(rack, rack', gone) /\ (gone = 0 \/ \A w \in windows' : w.slot # gone)
    /\ next_slot_id' \in Nat \ {0} /\ units' \in Nat /\ missing_states' = missing_states
    /\ UNCHANGED restUnchanged

RackRefused ==
    /\ RackTaken
    /\ \E result \in {"rejected", "failed"} : Refuse(result)
    /\ UNCHANGED restUnchanged

WindowOpened ==
    /\ RackTaken
    /\ Command.type \in Transient
    /\ Answer("accepted", generation, FALSE)
    /\ windows' \in SUBSET [slot : Nat, unit : Nat]
    /\ \A w \in windows' :
        w \in windows \/ \E i \in DOMAIN rack : rack[i].live /\ rack[i].id = w.slot /\ rack[i].unit = w.unit
    /\ UNCHANGED <<rack, next_slot_id, missing_states, generation, units>>
    /\ UNCHANGED restUnchanged

RackAdopted(number) ==
    /\ rack' \in Racks /\ DistinctIds(rack') /\ PlaceholdersKept'
    /\ missing_states' \in SUBSET SavedSlot
    /\ next_slot_id' \in Nat \ {0} /\ units' \in Nat
    /\ windows' = {} /\ generation' = number

(* A command that is about a slot is about one on display, and remembers the  *)
(* occupant in the frame; unless that frame is outdated, the one on display.  *)
LEMMA RequestsAreTyped ==
  ASSUME TopologyTypes,
         NEW type \in RackCommands, NEW slot \in Nat, NEW place \in Nat, NEW plug \in Plugs \cup {None},
         MayClick(type), RackCommand(type, slot, place, plug),
         slot # 0 => Shown(slot) # 0
  PROVE  \E c : RackClicked(c)
<1> DEFINE seen == Occupant(frame.view, slot)
           late == command_worker.pc = "snapshot" \/ Occupant(editor.view, slot) # seen
           c == [id |-> issued + 1, type |-> type, slot |-> slot, index |-> place, plug |-> plug,
                 catalog |-> shown_catalog.generation, seen |-> seen, outdated |-> late]
<1>1. /\ frame.view \in Seq(Slot) /\ editor.view \in Seq(Slot)
      /\ shown_catalog.generation \in Nat /\ issued + 1 \in Nat
  BY DEF TopologyTypes, Frames, Models, Racks, PluginCatalog
<1>2. seen \in Nat
  <2> DEFINE target == FindIn(frame.view, slot)
  <2>1. target \in 0 .. Len(frame.view)
    BY <1>1, FindFinds
  <2>2. seen = IF target = 0 THEN 0 ELSE frame.view[target].unit
    BY DEF Occupant
  <2> HIDE DEF target, seen
  <2>3. target # 0 => frame.view[target] \in Slot
    BY <1>1, <2>1
  <2>4. target # 0 => frame.view[target].unit \in Nat
    BY <2>3 DEF Slot
  <2> QED BY <2>2, <2>4
<1>3. slot # 0 /\ ~late =>
        FindIn(editor.view, slot) # 0 /\ seen = editor.view[FindIn(editor.view, slot)].unit
  <2> HIDE DEF seen
  <2> QED BY DEF Shown, Occupant
<1>4. late \in BOOLEAN /\ (~late => command_worker.pc # "snapshot")
  OBVIOUS
<1>5. /\ issued' = issued + 1 /\ editor' = Begin(editor, c) /\ queue' = Append(queue, c)
      /\ frame' = NoFrame
      /\ UNCHANGED <<setup, rackVars, catalogVars, presetVars, preset_queue, command_worker,
                     preset_editor, stopping>>
  BY DEF RackCommand
<1> HIDE DEF seen, late
<1>6. c \in RackRequest
  BY <1>1, <1>2, <1>4 DEF RackRequest
<1>7. c.slot = slot /\ c.seen = seen /\ c.outdated = late
  OBVIOUS
<1>8. editor.pending = None /\ preset_editor.pending = None /\ ~stopping
  BY DEF MayClick
<1> HIDE DEF c
<1>9. RackClicked(c)
  BY <1>3, <1>4, <1>5, <1>6, <1>7, <1>8 DEF RackClicked
<1> QED BY <1>9

SomeRackClick ==
    \/ ClickAdd \/ ClickReplace \/ ClickRemove \/ ClickMove \/ ClickBypass \/ ClickOpenEditor
    \/ ClickRefresh

(* Every click that asks for a command of the Rack is of that kind.         *)
LEMMA RackClicks ==
  ASSUME TopologyTypes, SomeRackClick
  PROVE  \E c : RackClicked(c)
<1>1. /\ frame.view \in Seq(Slot) /\ Len(frame.view) \in Nat
      /\ \A i \in DOMAIN frame.view : frame.view[i].id \in Nat
      /\ \A j \in DOMAIN editor.view : j \in Nat \ {0}
      /\ frame.entries \in SUBSET Plugs
  <2>1. frame.view \in Seq(Slot) /\ editor.view \in Seq(Slot) /\ frame.entries \in SUBSET Plugs
    BY DEF TopologyTypes, Frames, Models, Racks
  <2>2. \A i \in DOMAIN frame.view : frame.view[i] \in Slot
    BY <2>1
  <2>3. \A j \in DOMAIN editor.view : j \in 1 .. Len(editor.view)
    BY <2>1
  <2> QED BY <2>1, <2>2, <2>3 DEF Slot
<1>2. CASE ClickAdd
  <2>1. PICK e \in frame.entries, i \in 0 .. Len(frame.view) : RackCommand("Add", 0, i, e)
    BY <1>2 DEF ClickAdd
  <2>2. "Add" \in RackCommands /\ MayClick("Add") /\ i \in Nat /\ 0 \in Nat /\ e \in Plugs \cup {None}
    BY <1>1, <1>2 DEF ClickAdd, RackCommands
  <2> QED BY <2>1, <2>2, RequestsAreTyped
<1>3. CASE ClickReplace
  <2>1. PICK e \in frame.entries, i \in DOMAIN frame.view :
            Shown(frame.view[i].id) # 0 /\ RackCommand("Replace", frame.view[i].id, 0, e)
    BY <1>3 DEF ClickReplace
  <2>2. /\ "Replace" \in RackCommands /\ MayClick("Replace") /\ frame.view[i].id \in Nat
        /\ 0 \in Nat /\ e \in Plugs \cup {None}
    BY <1>1, <1>3 DEF ClickReplace, RackCommands
  <2> QED BY <2>1, <2>2, RequestsAreTyped
<1>4. CASE ClickRemove
  <2>1. PICK i \in DOMAIN frame.view :
            Shown(frame.view[i].id) # 0 /\ RackCommand("Remove", frame.view[i].id, 0, None)
    BY <1>4 DEF ClickRemove
  <2>2. "Remove" \in RackCommands /\ MayClick("Remove") /\ frame.view[i].id \in Nat /\ 0 \in Nat
    BY <1>1, <1>4 DEF ClickRemove, RackCommands
  <2> QED BY <2>1, <2>2, RequestsAreTyped
<1>5. CASE ClickMove
  <2>1. PICK i \in DOMAIN frame.view, j \in DOMAIN editor.view :
            /\ Shown(frame.view[i].id) \notin {0, j}
            /\ RackCommand("Move", frame.view[i].id, j - 1, None)
    BY <1>5 DEF ClickMove
  <2>2. /\ "Move" \in RackCommands /\ MayClick("Move") /\ frame.view[i].id \in Nat /\ j - 1 \in Nat
        /\ Shown(frame.view[i].id) # 0
    BY <1>1, <1>5, <2>1 DEF ClickMove, RackCommands
  <2> QED BY <2>1, <2>2, RequestsAreTyped
<1>6. CASE ClickBypass
  <2>1. PICK i \in DOMAIN frame.view :
            /\ Shown(frame.view[i].id) # 0
            /\ RackCommand("Bypass", frame.view[i].id, IF frame.view[i].bypass THEN 0 ELSE 1, None)
    BY <1>6 DEF ClickBypass
  <2>2. /\ "Bypass" \in RackCommands /\ MayClick("Bypass") /\ frame.view[i].id \in Nat
        /\ (IF frame.view[i].bypass THEN 0 ELSE 1) \in Nat
    BY <1>1, <1>6 DEF ClickBypass, RackCommands
  <2> QED BY <2>1, <2>2, RequestsAreTyped
<1>7. CASE ClickOpenEditor
  <2>1. PICK i \in DOMAIN frame.view :
            /\ Shown(frame.view[i].id) # 0
            /\ RackCommand("OpenEditor", frame.view[i].id, 0, None)
    BY <1>7 DEF ClickOpenEditor
  <2>2. "OpenEditor" \in RackCommands /\ MayClick("OpenEditor") /\ frame.view[i].id \in Nat /\ 0 \in Nat
    BY <1>1, <1>7 DEF ClickOpenEditor, RackCommands
  <2> QED BY <2>1, <2>2, RequestsAreTyped
<1>8. CASE ClickRefresh
  <2>1. /\ "Refresh" \in RackCommands /\ MayClick("Refresh") /\ 0 \in Nat
        /\ RackCommand("Refresh", 0, 0, None)
    BY <1>8 DEF ClickRefresh, RackCommands
  <2> QED BY <2>1, RequestsAreTyped
<1> QED BY <1>2, <1>3, <1>4, <1>5, <1>6, <1>7, <1>8 DEF SomeRackClick

SomePresetClick == ClickSaveAs \/ ClickLoad \/ ClickActive

(* Every click that asks for a preset command is of the other.              *)
LEMMA PresetClicks ==
  ASSUME TopologyTypes, SomePresetClick
  PROVE  \E c : PresetClicked(c)
<1>1. SUFFICES ASSUME NEW type \in PresetCommands, NEW preset \in Presets \cup {None},
                      NEW name \in Names \cup {None}, type \in {"SaveAs", "Rename"} => name \in Names,
                      MayClick(type), PresetCommand(type, preset, name)
               PROVE  \E c : PresetClicked(c)
  <2>1. frame.presets.entries \in SUBSET Listing /\ frame.presets.active \in Listing \cup {None}
    BY DEF TopologyTypes, Frames, PresetList
  <2>2. CASE ClickSaveAs
    <3>1. PICK n \in Names : PresetCommand("SaveAs", None, n)
      BY <2>2 DEF ClickSaveAs
    <3> QED BY <1>1, <2>2, <3>1 DEF ClickSaveAs, PresetCommands
  <2>3. CASE ClickLoad
    <3>1. PICK e \in frame.presets.entries : PresetCommand("Load", e.id, None)
      BY <2>3 DEF ClickLoad
    <3>2. e.id \in Presets
      BY <2>1 DEF Listing
    <3> QED BY <1>1, <2>3, <3>1, <3>2 DEF ClickLoad, PresetCommands
  <2>4. CASE ClickActive
    <3> DEFINE active == frame.presets.active.id
    <3>1. active \in Presets
      BY <2>1, <2>4 DEF ClickActive, Listing
    <3>2. \/ MayClick("Rename") /\ \E n \in Names : PresetCommand("Rename", active, n)
          \/ MayClick("Delete") /\ PresetCommand("Delete", active, None)
          \/ MayClick("Update") /\ PresetCommand("Update", active, None)
      BY <2>4 DEF ClickActive
    <3> QED BY <1>1, <3>1, <3>2 DEF PresetCommands
  <2> QED BY <2>2, <2>3, <2>4 DEF SomePresetClick
<1> DEFINE c == [id |-> issued + 1, type |-> type, preset |-> preset, name |-> name]
<1>2. c \in PresetRequest
  BY <1>1 DEF PresetRequest, TopologyTypes
<1>3. PresetClicked(c)
  BY <1>1, <1>2 DEF PresetCommand, MayClick, PresetClicked
<1> QED BY <1>3

(* The slot that a command names, in the Rack.                              *)
LEMMA TakenCommand ==
  ASSUME TopologyTypes, NEW type, Take(type)
  PROVE  /\ RackTaken /\ Command \in RackRequest /\ Command.type = type
         /\ Command.slot \in Nat /\ Command.index \in Nat
         /\ Find(Command.slot) \in 0 .. Len(rack)
         /\ Find(Command.slot) # 0 =>
                Find(Command.slot) \in 1 .. Len(rack) /\ rack[Find(Command.slot)].id = Command.slot
<1>1. RackTaken /\ Command.type = type
  BY DEF Take, RackTaken, Command
<1>2. Command \in RackRequest
  BY DEF Take, TopologyTypes, Command
<1>3. Command.slot \in Nat /\ Command.index \in Nat
  BY <1>2 DEF RackRequest
<1>4. rack \in Seq(Slot) /\ Len(rack) \in Nat
  BY DEF TopologyTypes, Racks
<1>5. /\ Find(Command.slot) \in 0 .. Len(rack)
      /\ Find(Command.slot) # 0 => rack[Find(Command.slot)].id = Command.slot
  BY <1>3, <1>4, FindFinds DEF Find
<1> QED BY <1>1, <1>2, <1>3, <1>4, <1>5

(* A slot that is opened has its plug-in.                                   *)
LEMMA OpenedIsLive ==
  ASSUME NEW id \in Nat \ {0}, NEW plug \in Plugs, NEW b \in BOOLEAN, NEW unit \in Nat
  PROVE  Opened(id, plug, b, unit) \in Slot /\ Opened(id, plug, b, unit).live
         /\ Opened(id, plug, b, unit).health = "ready" /\ Opened(id, plug, b, unit).id = id
BY DEF Opened, Slot, Healths

(* An executed command refuses or edits, or opens a window.                  *)
LEMMA AddEdits ==
  ASSUME TopologyTypes, ExecuteAdd
  PROVE  RackEdited \/ RackRefused
<1>1. Take("Add")
  BY DEF ExecuteAdd
<1>2. RackTaken /\ Command.type = "Add" /\ Command.index \in Nat
  BY <1>1, TakenCommand
<1>3. UNCHANGED restUnchanged
  BY DEF ExecuteAdd
<1>4. CASE Refuse("rejected") \/ Refuse("failed")
  BY <1>2, <1>3, <1>4 DEF RackRefused
<1>5. CASE /\ MayAdd
           /\ rack' = InsertAt(rack, Command.index + 1, Opened(next_slot_id, Command.plug, FALSE, units + 1))
           /\ next_slot_id' = next_slot_id + 1
           /\ units' = units + 1
           /\ Commit
           /\ UNCHANGED <<missing_states, windows>>
  <2> DEFINE s == Opened(next_slot_id, Command.plug, FALSE, units + 1)
  <2>1. /\ rack \in Racks /\ Len(rack) \in Nat /\ next_slot_id \in Nat \ {0} /\ units + 1 \in Nat
        /\ catalog.entries \in SUBSET Plugs /\ windows \in SUBSET [slot : Nat, unit : Nat]
    BY DEF TopologyTypes, Racks, PluginCatalog
  <2>2. /\ Len(rack) < MaxSlots /\ Command.index + 1 \in 1 .. Len(rack) + 1 /\ Command.plug \in Plugs
    BY <1>2, <1>5, <2>1 DEF MayAdd, Resolves
  <2>3. s \in Slot /\ s.live /\ s.health = "ready"
    BY <2>1, <2>2, OpenedIsLive
  <2> HIDE DEF s
  <2>4. IsEdit(rack, InsertAt(rack, Command.index + 1, s), 0)
    BY <2>1, <2>2, <2>3, TopologyBounds, AddIsEdit
  <2>5. IsEdit(rack, rack', 0)
    BY <1>5, <2>4 DEF s
  <2>6. next_slot_id' \in Nat \ {0} /\ units' \in Nat /\ windows' \in SUBSET windows
    BY <1>5, <2>1
  <2>7. Commit /\ missing_states' = missing_states
    BY <1>5
  <2> QED BY <1>2, <1>3, <2>5, <2>6, <2>7 DEF RackEdited, Transient
<1> QED BY <1>4, <1>5 DEF ExecuteAdd

(* The same of a move.                                                      *)
LEMMA MoveEdits ==
  ASSUME TopologyTypes, ExecuteMove
  PROVE  RackEdited \/ RackRefused
<1> DEFINE source == Find(Command.slot)
           may == source # 0 /\ Command.index < Len(rack) /\ source # Command.index + 1
<1>1. /\ Take("Move") /\ UNCHANGED restUnchanged
      /\ \/ ~may /\ Refuse("rejected")
         \/ may /\ Refuse("failed")
         \/ /\ may
            /\ rack' = InsertAt(RemoveAt(rack, source), Command.index + 1, rack[source])
            /\ Commit
            /\ UNCHANGED <<next_slot_id, missing_states, units, windows>>
  BY DEF ExecuteMove
<1>2. /\ RackTaken /\ Command.type = "Move" /\ Command.index \in Nat
      /\ source # 0 => source \in 1 .. Len(rack)
  BY <1>1, TakenCommand
<1> HIDE DEF source
<1>3. CASE Refuse("rejected") \/ Refuse("failed")
  BY <1>1, <1>2, <1>3 DEF RackRefused
<1>4. CASE /\ may
           /\ rack' = InsertAt(RemoveAt(rack, source), Command.index + 1, rack[source])
           /\ Commit
           /\ UNCHANGED <<next_slot_id, missing_states, units, windows>>
  <2>1. rack \in Racks /\ Len(rack) \in Nat /\ next_slot_id \in Nat \ {0} /\ units \in Nat
    BY DEF TopologyTypes, Racks
  <2>2. source \in 1 .. Len(rack) /\ Command.index + 1 \in 1 .. Len(rack)
    BY <1>2, <1>4, <2>1
  <2>3. IsEdit(rack, rack', 0)
    BY <1>4, <2>1, <2>2, TopologyBounds, MoveIsEdit
  <2> QED BY <1>1, <1>2, <1>4, <2>1, <2>3 DEF RackEdited, Transient
<1> QED BY <1>1, <1>3, <1>4

(* The same of a bypass.                                                    *)
LEMMA BypassEdits ==
  ASSUME TopologyTypes, ExecuteBypass
  PROVE  RackEdited \/ RackRefused
<1> DEFINE i == Find(Command.slot)
           b == Command.index = 1
           may == i # 0 /\ rack[i].bypass # b /\ CanBypass(rack[i].health)
<1>1. /\ Take("Bypass") /\ UNCHANGED restUnchanged
      /\ \/ ~may /\ Refuse("rejected")
         \/ may /\ Refuse("failed")
         \/ /\ may
            /\ rack' = [rack EXCEPT ![i].bypass = b]
            /\ Commit
            /\ UNCHANGED <<next_slot_id, missing_states, units, windows>>
  BY DEF ExecuteBypass
<1>2. /\ RackTaken /\ Command.type = "Bypass"
      /\ i # 0 => i \in 1 .. Len(rack)
  BY <1>1, TakenCommand
<1>3. b \in BOOLEAN
  OBVIOUS
<1> HIDE DEF i, b
<1>4. CASE Refuse("rejected") \/ Refuse("failed")
  BY <1>1, <1>2, <1>4 DEF RackRefused
<1>5. CASE /\ may
           /\ rack' = [rack EXCEPT ![i].bypass = b]
           /\ Commit
           /\ UNCHANGED <<next_slot_id, missing_states, units, windows>>
  <2>1. rack \in Racks /\ next_slot_id \in Nat \ {0} /\ units \in Nat
    BY DEF TopologyTypes
  <2>2. IsEdit(rack, rack', 0)
    BY <1>2, <1>3, <1>5, <2>1, TopologyBounds, BypassIsEdit
  <2> QED BY <1>1, <1>2, <1>5, <2>1, <2>2 DEF RackEdited, Transient
<1> QED BY <1>1, <1>4, <1>5

(* The same of a removal, whose window goes first.                          *)
LEMMA RemoveEdits ==
  ASSUME TopologyTypes, ExecuteRemove
  PROVE  RackEdited \/ RackRefused
<1> DEFINE i == Find(Command.slot)
<1>1. /\ Take("Remove") /\ UNCHANGED restUnchanged
      /\ \/ i = 0 /\ Refuse("rejected")
         \/ i # 0 /\ Refuse("failed")
         \/ /\ i # 0
            /\ windows' = WithoutWindow(Command.slot)
            /\ rack' = RemoveAt(rack, i)
            /\ Commit
            /\ UNCHANGED <<next_slot_id, missing_states, units>>
  BY DEF ExecuteRemove
<1>2. /\ RackTaken /\ Command.type = "Remove" /\ Command.slot \in Nat
      /\ i # 0 => i \in 1 .. Len(rack) /\ rack[i].id = Command.slot
  BY <1>1, TakenCommand
<1> HIDE DEF i
<1>3. CASE Refuse("rejected") \/ Refuse("failed")
  BY <1>1, <1>2, <1>3 DEF RackRefused
<1>4. CASE /\ i # 0
           /\ windows' = WithoutWindow(Command.slot)
           /\ rack' = RemoveAt(rack, i)
           /\ Commit
           /\ UNCHANGED <<next_slot_id, missing_states, units>>
  <2>1. rack \in Racks /\ next_slot_id \in Nat \ {0} /\ units \in Nat
    BY DEF TopologyTypes
  <2>2. IsEdit(rack, rack', Command.slot)
    BY <1>2, <1>4, <2>1, TopologyBounds, RemoveIsEdit
  <2>3. windows' \in SUBSET windows /\ \A w \in windows' : w.slot # Command.slot
    BY <1>4 DEF WithoutWindow
  <2> QED BY <1>1, <1>2, <1>4, <2>1, <2>2, <2>3 DEF RackEdited, Transient
<1> QED BY <1>1, <1>3, <1>4

(* The same of a replacement, whose window goes first.                      *)
LEMMA ReplaceEdits ==
  ASSUME TopologyTypes, ExecuteReplace
  PROVE  RackEdited \/ RackRefused
<1> DEFINE i == Find(Command.slot)
           s == Opened(Command.slot, Command.plug, rack[i].bypass, units + 1)
           may == i # 0 /\ Resolves
<1>1. /\ Take("Replace") /\ UNCHANGED restUnchanged
      /\ \/ ~may /\ Refuse("rejected")
         \/ may /\ Refuse("failed")
         \/ /\ may
            /\ windows' = WithoutWindow(Command.slot)
            /\ rack' = [rack EXCEPT ![i] = s]
            /\ units' = units + 1
            /\ Commit
            /\ UNCHANGED <<next_slot_id, missing_states>>
  BY DEF ExecuteReplace
<1>2. /\ RackTaken /\ Command.type = "Replace" /\ Command.slot \in Nat
      /\ i # 0 => i \in 1 .. Len(rack) /\ rack[i].id = Command.slot
  BY <1>1, TakenCommand
<1>3. /\ rack \in Racks /\ next_slot_id \in Nat \ {0} /\ units + 1 \in Nat
      /\ catalog.entries \in SUBSET Plugs
  BY DEF TopologyTypes, PluginCatalog
<1>4. may => s \in Slot /\ s.live /\ s.health = "ready"
  <2> SUFFICES ASSUME may PROVE s \in Slot /\ s.live /\ s.health = "ready"
    OBVIOUS
  <2>1. i \in 1 .. Len(rack) /\ rack[i].id = Command.slot /\ Command.plug \in Plugs
    BY <1>2, <1>3 DEF Resolves
  <2>2. rack[i] \in Slot
    BY <1>3, <2>1 DEF Racks
  <2>3. Command.slot \in Nat \ {0} /\ rack[i].bypass \in BOOLEAN
    BY <2>1, <2>2 DEF Slot
  <2> HIDE DEF i
  <2> QED BY <1>3, <2>1, <2>3, OpenedIsLive
<1> HIDE DEF i, s
<1>5. CASE Refuse("rejected") \/ Refuse("failed")
  BY <1>1, <1>2, <1>5 DEF RackRefused
<1>6. CASE /\ may
           /\ windows' = WithoutWindow(Command.slot)
           /\ rack' = [rack EXCEPT ![i] = s]
           /\ units' = units + 1
           /\ Commit
           /\ UNCHANGED <<next_slot_id, missing_states>>
  <2>1. IsEdit(rack, rack', Command.slot)
    BY <1>2, <1>3, <1>4, <1>6, TopologyBounds, ReplaceIsEdit
  <2>2. windows' \in SUBSET windows /\ \A w \in windows' : w.slot # Command.slot
    BY <1>6 DEF WithoutWindow
  <2> QED BY <1>1, <1>2, <1>3, <1>6, <2>1, <2>2 DEF RackEdited, Transient
<1> QED BY <1>1, <1>5, <1>6

(* The window that is opened is on the plug-in of its slot.                 *)
LEMMA OpenEditorOpens ==
  ASSUME TopologyTypes, ExecuteOpenEditor
  PROVE  WindowOpened \/ RackRefused
<1> DEFINE i == Find(Command.slot)
           may == i # 0 /\ rack[i].live
<1>1. /\ Take("OpenEditor") /\ UNCHANGED restUnchanged
      /\ \/ ~may /\ Refuse("rejected")
         \/ may /\ Refuse("failed")
         \/ /\ may
            /\ windows' = WithoutWindow(Command.slot) \cup {[slot |-> Command.slot, unit |-> rack[i].unit]}
            /\ Answer("accepted", generation, FALSE)
            /\ UNCHANGED <<rack, next_slot_id, missing_states, generation, units>>
  BY DEF ExecuteOpenEditor
<1>2. /\ RackTaken /\ Command.type = "OpenEditor" /\ Command.slot \in Nat
      /\ i # 0 => i \in 1 .. Len(rack) /\ rack[i].id = Command.slot
  BY <1>1, TakenCommand
<1> HIDE DEF i
<1>3. CASE Refuse("rejected") \/ Refuse("failed")
  BY <1>1, <1>2, <1>3 DEF RackRefused
<1>4. CASE /\ may
           /\ windows' = WithoutWindow(Command.slot) \cup {[slot |-> Command.slot, unit |-> rack[i].unit]}
           /\ Answer("accepted", generation, FALSE)
           /\ UNCHANGED <<rack, next_slot_id, missing_states, generation, units>>
  <2>1. rack \in Seq(Slot) /\ windows \in SUBSET [slot : Nat, unit : Nat]
    BY DEF TopologyTypes, Racks
  <2>2. i \in DOMAIN rack /\ rack[i].id = Command.slot /\ rack[i] \in Slot /\ rack[i].live
    BY <1>2, <1>4, <2>1
  <2>3. rack[i].unit \in Nat
    BY <2>2 DEF Slot
  <2> DEFINE new == [slot |-> Command.slot, unit |-> rack[i].unit]
  <2>4. new \in [slot : Nat, unit : Nat] /\ new.slot = rack[i].id /\ new.unit = rack[i].unit
    BY <1>2, <2>2, <2>3
  <2>5. \A w \in windows' : w \in windows \/ w = new
    BY <1>4 DEF WithoutWindow
  <2> HIDE DEF new
  <2>6. /\ windows' \in SUBSET [slot : Nat, unit : Nat]
        /\ \A w \in windows' :
              w \in windows \/ \E k \in DOMAIN rack : rack[k].live /\ rack[k].id = w.slot /\ rack[k].unit = w.unit
    BY <2>1, <2>2, <2>4, <2>5
  <2> QED BY <1>1, <1>2, <1>4, <2>6 DEF WindowOpened, Transient
<1> QED BY <1>1, <1>3, <1>4

(* The session and a loaded preset replace the whole Rack.                  *)
LEMMA AdoptBuilds ==
  ASSUME TopologyTypes, NEW saved \in SavedSlots, NEW number, Adopt(saved, number)
  PROVE  RackAdopted(number)
<1>1. PICK alive \in SUBSET Openable(saved) :
        /\ rack' = Materialize(saved, alive)
        /\ missing_states' = {saved[i] : i \in DOMAIN saved \ alive}
        /\ next_slot_id' = FirstFree(saved)
        /\ units' = units + Len(saved)
        /\ windows' = {}
        /\ generation' = number
  BY DEF Adopt
<1>2. /\ units \in Nat /\ saved \in Seq(SavedSlot) /\ Len(saved) \in Nat
      /\ \A i \in DOMAIN saved : saved[i] \in SavedSlot
  BY DEF TopologyTypes, SavedSlots
<1>3. /\ rack' \in Racks /\ DistinctIds(rack')
      /\ DOMAIN rack' = DOMAIN saved
      /\ \A i \in DOMAIN saved :
            rack'[i].id = saved[i].id /\ rack'[i].plug = saved[i].plug /\ (rack'[i].live <=> i \in alive)
  BY <1>1, <1>2, MaterializeBuilds
<1>4. missing_states' \in SUBSET SavedSlot
  BY <1>1, <1>2
<1>5. next_slot_id' \in Nat \ {0}
  BY <1>1, <1>2, FirstFreeIsFree
<1>6. PlaceholdersKept'
  BY <1>1, <1>3 DEF PlaceholdersKept
<1> QED BY <1>1, <1>2, <1>3, <1>4, <1>5, <1>6 DEF RackAdopted

-----------------------------------------------------------------------------
(* Preset commands.                                                         *)

(* What is listed has a file.                                               *)
LibraryInv == \A e \in presets.entries : library[e.id] # None

PresetTaken ==
    /\ Ready /\ preset_queue # <<>>
    /\ preset_queue' = Tail(preset_queue)
    /\ UNCHANGED <<setup, queue, catalogVars, editor, preset_editor, frame, issued, stopping>>

PresetAccepted(changed) ==
    /\ PresetTaken
    /\ \E entries \in SUBSET Listing, active \in Listing \cup {None} :
        /\ Accept(entries, active, changed)
        /\ \A e \in entries : library'[e.id] # None
    /\ library' \in [Presets -> Preset \cup {None}]

(* The preset command at hand, when one is taken.                           *)
LEMMA TakenPreset ==
  ASSUME TopologyTypes, NEW type, TakePreset(type)
  PROVE  PresetTaken /\ Asked \in PresetRequest /\ Asked.type = type
<1>1. PresetTaken /\ Asked.type = type
  BY DEF TakePreset, PresetTaken, Asked
<1>2. Asked \in PresetRequest
  BY DEF TakePreset, TopologyTypes, Asked
<1> QED BY <1>1, <1>2

(* A saved Rack can be loaded: capture_current_rack gives what               *)
(* decode_rack_preset admits.                                               *)
LEMMA CapturedIsSaved ==
  ASSUME TopologyTypes, CanCapture, DistinctIds(rack)
  PROVE  Captured \in SavedSlots
<1>1. /\ rack \in Seq(Slot) /\ Len(rack) \in Nat /\ DOMAIN rack = 1 .. Len(rack) /\ Len(rack) <= MaxSlots
      /\ missing_states \in SUBSET SavedSlot
  BY DEF TopologyTypes, Racks
<1>2. DOMAIN Captured = DOMAIN rack
  BY DEF Captured
<1>3. \A i \in DOMAIN rack : Captured[i] \in SavedSlot /\ Captured[i].id = rack[i].id
  <2> SUFFICES ASSUME NEW i \in DOMAIN rack
               PROVE  Captured[i] \in SavedSlot /\ Captured[i].id = rack[i].id
    OBVIOUS
  <2> DEFINE p == IF rack[i].live THEN rack[i].plug ELSE (CHOOSE m \in Kept(rack[i]) : TRUE).plug
  <2>1. rack[i] \in Slot
    BY <1>1
  <2>2. p \in Plugs
    <3>1. CASE rack[i].live
      BY <2>1, <3>1 DEF Slot, Healths
    <3>2. CASE ~rack[i].live
      <4>1. Kept(rack[i]) # {} /\ Kept(rack[i]) \in SUBSET SavedSlot
        BY <1>1, <3>2 DEF CanCapture, Kept
      <4>2. (CHOOSE m \in Kept(rack[i]) : TRUE) \in SavedSlot
        BY <4>1
      <4> QED BY <3>2, <4>2 DEF SavedSlot, Healths
    <3> QED BY <3>1, <3>2
  <2>3. Captured[i] = [id |-> rack[i].id, bypass |-> rack[i].bypass, health |-> rack[i].health, plug |-> p]
    BY DEF Captured
  <2> HIDE DEF p
  <2>4. /\ rack[i].id \in Nat \ {0} /\ rack[i].bypass \in BOOLEAN
        /\ rack[i].health \in {"ready", "missing", "quarantined"}
    BY <2>1 DEF Slot, Healths
  <2> QED BY <2>2, <2>3, <2>4 DEF SavedSlot, Healths
<1>4. Captured \in Seq(SavedSlot) /\ Len(Captured) = Len(rack)
  <2>1. Captured = [i \in 1 .. Len(rack) |-> Captured[i]]
    BY <1>1 DEF Captured
  <2> QED BY <1>1, <1>2, <1>3, <2>1
<1>5. DistinctIds(Captured)
  BY <1>2, <1>3 DEF DistinctIds
<1> QED BY <1>1, <1>4, <1>5 DEF SavedSlots

(* write_rack_preset_atomic. *)
LEMMA WrittenIsPreset ==
  ASSUME TopologyTypes, NEW p \in Presets, NEW name \in Names, WriteRack(p, name)
  PROVE  /\ library' \in [Presets -> Preset \cup {None}]
         /\ library'[p] # None
         /\ \A q \in Presets : library[q] # None => library'[q] # None
<1> DEFINE new == [name |-> name, slots |-> Captured]
<1>1. Captured \in SavedSlots
  BY CapturedIsSaved DEF WriteRack
<1>2. new \in Preset
  BY <1>1 DEF Preset
<1>3. new # None
  BY <1>2, NoneAssumption
<1>4. library' = [library EXCEPT ![p] = new] /\ library \in [Presets -> Preset \cup {None}]
  BY DEF WriteRack, TopologyTypes
<1> HIDE DEF new
<1> QED BY <1>2, <1>3, <1>4

(* The line of a preset in the list.                                        *)
LEMMA EntryIsListing ==
  ASSUME NEW p \in Presets, NEW name \in Names
  PROVE  Entry(p, name) \in Listing /\ Entry(p, name).id = p
BY DEF Entry, Listing

(* A preset command that succeeds lists only presets that have a file.      *)
LEMMA SaveAsAccepted ==
  ASSUME TopologyTypes, LibraryInv, ExecuteSaveAs
  PROVE  PresetAccepted(FALSE) /\ UNCHANGED rackVars
<1>1. PresetTaken /\ Asked \in PresetRequest /\ Asked.type = "SaveAs"
  BY TakenPreset DEF ExecuteSaveAs
<1>2. Asked.name \in Names
  BY <1>1 DEF PresetRequest
<1>3. PICK p \in Presets :
        /\ WriteRack(p, Asked.name)
        /\ Accept(presets.entries \cup {Entry(p, Asked.name)}, Entry(p, Asked.name), FALSE)
  BY DEF ExecuteSaveAs
<1> DEFINE new == Entry(p, Asked.name)
           entries == presets.entries \cup {new}
<1>4. new \in Listing /\ new.id = p
  BY <1>2, EntryIsListing
<1>5. presets.entries \in SUBSET Listing
  BY DEF TopologyTypes
<1>6. /\ library' \in [Presets -> Preset \cup {None}] /\ library'[p] # None
      /\ \A q \in Presets : library[q] # None => library'[q] # None
  BY <1>2, <1>3, WrittenIsPreset
<1> HIDE DEF new
<1>7. \A e \in entries : library'[e.id] # None
  BY <1>4, <1>5, <1>6 DEF LibraryInv, Listing
<1>8. entries \in SUBSET Listing
  BY <1>4, <1>5
<1>9. Accept(entries, new, FALSE)
  BY <1>3 DEF new
<1> HIDE DEF entries
<1>10. UNCHANGED rackVars
  BY DEF ExecuteSaveAs
<1> QED BY <1>1, <1>4, <1>6, <1>7, <1>8, <1>9, <1>10 DEF PresetAccepted

(* What a listed preset is: LibraryInv gives its file.                      *)
LEMMA ListedPreset ==
  ASSUME TopologyTypes, LibraryInv, Listed
  PROVE  /\ Asked.preset \in Presets /\ NameOf(Asked.preset) \in Names
         /\ library[Asked.preset] \in Preset
<1>1. PICK e \in presets.entries : e.id = Asked.preset
  BY DEF Listed
<1>2. presets.entries \in SUBSET Listing
  BY DEF TopologyTypes
<1>3. Asked.preset \in Presets
  BY <1>1, <1>2 DEF Listing
<1>4. NameOf(Asked.preset) \in Names
  BY <1>1, <1>2 DEF NameOf, Listing
<1>5. library[Asked.preset] \in Preset
  BY <1>1, <1>3 DEF LibraryInv, TopologyTypes
<1> QED BY <1>3, <1>4, <1>5

(* The same of an update.                                                   *)
LEMMA UpdateAccepted ==
  ASSUME TopologyTypes, LibraryInv, ExecuteUpdate
  PROVE  PresetAccepted(FALSE) /\ UNCHANGED rackVars
<1>1. PresetTaken
  BY TakenPreset DEF ExecuteUpdate
<1>2. Asked.preset \in Presets /\ NameOf(Asked.preset) \in Names
  BY ListedPreset DEF ExecuteUpdate
<1> DEFINE new == Entry(Asked.preset, NameOf(Asked.preset))
<1>3. /\ WriteRack(Asked.preset, NameOf(Asked.preset)) /\ Accept(presets.entries, new, FALSE)
      /\ UNCHANGED rackVars
  BY DEF ExecuteUpdate
<1>4. new \in Listing
  BY <1>2, EntryIsListing
<1> HIDE DEF new
<1>5. presets.entries \in SUBSET Listing
  BY DEF TopologyTypes
<1>6. /\ library' \in [Presets -> Preset \cup {None}]
      /\ \A q \in Presets : library[q] # None => library'[q] # None
  BY <1>2, <1>3, WrittenIsPreset
<1>7. \A e \in presets.entries : library'[e.id] # None
  BY <1>5, <1>6 DEF LibraryInv, Listing
<1> QED BY <1>1, <1>3, <1>4, <1>5, <1>6, <1>7 DEF PresetAccepted

(* The same of a load, which adopts the Rack of the file.                   *)
LEMMA LoadAccepted ==
  ASSUME TopologyTypes, LibraryInv, ExecuteLoad
  PROVE  PresetAccepted(TRUE) /\ RackAdopted(generation + 1)
<1>1. PresetTaken
  BY TakenPreset DEF ExecuteLoad
<1>2. Asked.preset \in Presets /\ library[Asked.preset] \in Preset
  BY ListedPreset DEF ExecuteLoad
<1>3. library[Asked.preset].slots \in SavedSlots /\ library[Asked.preset].name \in Names
  BY <1>2 DEF Preset
<1>4. RackAdopted(generation + 1)
  BY <1>3, AdoptBuilds DEF ExecuteLoad
<1> DEFINE new == Entry(Asked.preset, library[Asked.preset].name)
<1>5. new \in Listing
  BY <1>2, <1>3, EntryIsListing
<1>6. Accept(presets.entries, new, TRUE) /\ library' = library
  BY DEF ExecuteLoad
<1> HIDE DEF new
<1>7. presets.entries \in SUBSET Listing /\ library \in [Presets -> Preset \cup {None}]
  BY DEF TopologyTypes
<1> QED BY <1>1, <1>4, <1>5, <1>6, <1>7 DEF PresetAccepted, LibraryInv

(* The same of a rename.                                                    *)
LEMMA RenameAccepted ==
  ASSUME TopologyTypes, LibraryInv, ExecuteRename
  PROVE  PresetAccepted(FALSE) /\ UNCHANGED rackVars
<1>1. PresetTaken /\ Asked \in PresetRequest /\ Asked.type = "Rename"
  BY TakenPreset DEF ExecuteRename
<1>2. Asked.preset \in Presets /\ library[Asked.preset] \in Preset
  BY ListedPreset DEF ExecuteRename
<1>3. Asked.name \in Names
  BY <1>1 DEF PresetRequest
<1> DEFINE new == Entry(Asked.preset, Asked.name)
           active == IF presets.active.id = Asked.preset THEN new ELSE presets.active
           entries == Others(Asked.preset) \cup {new}
<1>4. /\ library' = [library EXCEPT ![Asked.preset].name = Asked.name]
      /\ Accept(entries, active, FALSE) /\ UNCHANGED rackVars
  BY DEF ExecuteRename
<1>5. new \in Listing /\ new.id = Asked.preset
  BY <1>2, <1>3, EntryIsListing
<1> HIDE DEF new
<1>6. presets.entries \in SUBSET Listing /\ presets.active \in Listing \cup {None}
  BY DEF TopologyTypes
<1>7. entries \in SUBSET Listing /\ active \in Listing \cup {None}
  BY <1>5, <1>6 DEF Others
<1> DEFINE file == [library[Asked.preset] EXCEPT !.name = Asked.name]
<1>8. file \in Preset
  BY <1>2, <1>3 DEF Preset
<1>9. file # None
  BY <1>8, NoneAssumption
<1>10. library' = [library EXCEPT ![Asked.preset] = file] /\ library \in [Presets -> Preset \cup {None}]
  BY <1>4 DEF TopologyTypes
<1> HIDE DEF file
<1>11. /\ library' \in [Presets -> Preset \cup {None}] /\ library'[Asked.preset] # None
       /\ \A q \in Presets : library[q] # None => library'[q] # None
  BY <1>2, <1>8, <1>9, <1>10
<1>12. \A e \in entries : library'[e.id] # None
  BY <1>5, <1>6, <1>11 DEF LibraryInv, Listing, Others
<1> HIDE DEF entries, active
<1> QED BY <1>1, <1>4, <1>7, <1>11, <1>12 DEF PresetAccepted

(* The same of a deletion.                                                  *)
LEMMA DeleteAccepted ==
  ASSUME TopologyTypes, LibraryInv, ExecuteDelete
  PROVE  PresetAccepted(FALSE) /\ UNCHANGED rackVars
<1>1. PresetTaken
  BY TakenPreset DEF ExecuteDelete
<1>2. Asked.preset \in Presets
  BY ListedPreset DEF ExecuteDelete
<1> DEFINE active == IF presets.active.id = Asked.preset THEN None ELSE presets.active
           entries == Others(Asked.preset)
<1>3. /\ library' = [library EXCEPT ![Asked.preset] = None]
      /\ Accept(entries, active, FALSE) /\ UNCHANGED rackVars
  BY DEF ExecuteDelete
<1>4. /\ presets.entries \in SUBSET Listing /\ presets.active \in Listing \cup {None}
      /\ library \in [Presets -> Preset \cup {None}]
  BY DEF TopologyTypes
<1>5. entries \in SUBSET Listing /\ active \in Listing \cup {None}
  BY <1>4 DEF Others
<1>6. /\ library' \in [Presets -> Preset \cup {None}]
      /\ \A q \in Presets : q # Asked.preset => library'[q] = library[q]
  BY <1>2, <1>3, <1>4
<1>7. \A e \in entries : library'[e.id] # None
  BY <1>4, <1>6 DEF LibraryInv, Listing, Others
<1> HIDE DEF entries, active
<1> QED BY <1>1, <1>3, <1>5, <1>6, <1>7 DEF PresetAccepted

-----------------------------------------------------------------------------
(* The steps, and the types.                                                *)

LoadStep == PresetAccepted(TRUE) /\ RackAdopted(generation + 1)
FileStep == PresetAccepted(FALSE) /\ UNCHANGED rackVars
RefreshStep == RackTaken /\ Command \in RackRequest /\ Command.type = "Refresh" /\ StartRefresh

(* The window draws; nothing, when a step changes nothing.                   *)
Drawn ==
    /\ frame' \in Frames
    /\ UNCHANGED <<setup, rackVars, catalogVars, presetVars, queue, preset_queue, command_worker,
                   editor, preset_editor, issued, stopping>>

(* What a step of the model comes to.                                       *)
TopologyStep ==
    \/ \E c : RackClicked(c)
    \/ \E c : PresetClicked(c)
    \/ Restore
    \/ RackEdited \/ RackRefused \/ WindowOpened \/ RefreshStep
    \/ PresetFails \/ FileStep \/ LoadStep
    \/ ApplyAck \/ ApplyPresetAck \/ PublishPresets \/ PublishSnapshot \/ WorkerStops
    \/ ScanEnds \/ PublishCatalog \/ Stop
    \/ Drawn

(* A frame is of what the models hold.                                      *)
LEMMA DrawsAreTyped ==
  ASSUME TopologyTypes, DrawFrame \/ DrawCatalog
  PROVE  Drawn
<1>1. /\ editor.view \in Racks /\ preset_editor.view \in PresetList
      /\ shown_catalog.entries \in SUBSET Plugs /\ shown_catalog.scanning \in BOOLEAN
      /\ frame \in Frames
  BY DEF TopologyTypes, Models, PluginCatalog
<1>2. CASE DrawFrame
  <2>1. frame' = [view |-> editor.view, entries |-> shown_catalog.entries,
                  scanning |-> shown_catalog.scanning, presets |-> preset_editor.view]
    BY <1>2 DEF DrawFrame
  <2>2. frame' \in Frames
    BY <1>1, <2>1 DEF Frames
  <2> QED BY <1>2, <2>2 DEF DrawFrame, Drawn
<1>3. CASE DrawCatalog
  <2>1. frame' = [frame EXCEPT !.entries = shown_catalog.entries, !.scanning = shown_catalog.scanning]
    BY <1>3 DEF DrawCatalog
  <2>2. frame' \in Frames
    BY <1>1, <2>1 DEF Frames
  <2> QED BY <1>3, <2>2 DEF DrawCatalog, Drawn
<1> QED BY <1>2, <1>3

(* Every step of the model is of one of those kinds.                        *)
LEMMA NextIsStep ==
  ASSUME TopologyTypes, LibraryInv, [TopologyNext]_topologyVars
  PROVE  TopologyStep
<1>1. CASE User
  <2>1. CASE SomeRackClick \/ SomePresetClick
    BY <2>1, RackClicks, PresetClicks DEF TopologyStep
  <2>2. CASE DrawFrame \/ DrawCatalog
    BY <2>2, DrawsAreTyped DEF TopologyStep
  <2> QED BY <1>1, <2>1, <2>2 DEF User, SomeRackClick, SomePresetClick
<1>2. CASE ExecuteAdd \/ ExecuteMove \/ ExecuteBypass \/ ExecuteRemove \/ ExecuteReplace \/ ExecuteOpenEditor
  BY <1>2, AddEdits, MoveEdits, BypassEdits, RemoveEdits, ReplaceEdits, OpenEditorOpens DEF TopologyStep
<1>3. CASE ExecuteRefresh
  <2>1. CASE StartRefresh
    <3>1. RefreshStep
      BY <2>1, TakenCommand DEF StartRefresh, RefreshStep
    <3> QED BY <3>1 DEF TopologyStep
  <2>2. CASE RefuseRefresh
    <3>1. RackRefused
      BY <2>2, TakenCommand DEF RefuseRefresh, RackRefused
    <3> QED BY <3>1 DEF TopologyStep
  <2> QED BY <1>3, <2>1, <2>2 DEF ExecuteRefresh
<1>4. CASE ExecuteSaveAs \/ ExecuteUpdate \/ ExecuteLoad \/ ExecuteRename \/ ExecuteDelete
  BY <1>4, SaveAsAccepted, UpdateAccepted, LoadAccepted, RenameAccepted, DeleteAccepted
     DEF TopologyStep, LoadStep, FileStep
<1>5. CASE Restore \/ PresetFails \/ ApplyAck \/ ApplyPresetAck \/ PublishPresets \/ PublishSnapshot
           \/ WorkerStops
  BY <1>5 DEF TopologyStep
<1>6. CASE Scanner \/ Stop
  BY <1>6 DEF Scanner, TopologyStep
<1>7. CASE UNCHANGED topologyVars
  <2>1. Drawn
    BY <1>7 DEF topologyVars, rackVars, catalogVars, presetVars, Drawn, TopologyTypes
  <2> QED BY <2>1 DEF TopologyStep
<1> QED BY <1>1, <1>2, <1>3, <1>4, <1>5, <1>6, <1>7 DEF TopologyNext, Worker

(* The answer of a command, and the worker when it has none to give.          *)
LEMMA AnswerIsTyped ==
  ASSUME TopologyTypes, NEW result \in {"accepted", "rejected", "failed"}, NEW number \in Nat,
         NEW changed \in BOOLEAN, queue # <<>>, Answer(result, number, changed)
  PROVE  /\ command_worker' \in Answers
         /\ command_worker'.pc = "ack" /\ command_worker'.kind = "rack" /\ command_worker'.id = Command.id
         /\ command_worker'.result = result /\ command_worker'.generation = number
         /\ command_worker'.changed = changed
<1>1. Command \in RackRequest
  BY DEF TopologyTypes, Command
<1>2. Command.id \in Nat
  BY <1>1 DEF RackRequest
<1> HIDE DEF Command
<1> QED BY <1>2 DEF Answer, Answers

(* The worker when it has no answer to give.                                *)
LEMMA NoAnswerIsTyped ==
  /\ NoAnswer \in Answers /\ NoAnswer.pc = "idle" /\ NoAnswer.kind = "none" /\ NoAnswer.changed = FALSE
  /\ NoAnswer.result = "none"
BY DEF NoAnswer, Answers

(* The answer of a preset command that succeeds.                            *)
LEMMA PresetAnswerIsTyped ==
  ASSUME TopologyTypes, NEW changed \in BOOLEAN, PresetAccepted(changed)
  PROVE  /\ command_worker' \in Answers
         /\ command_worker'.pc = "ack" /\ command_worker'.kind = "preset" /\ command_worker'.id = Asked.id
         /\ command_worker'.result = "accepted" /\ command_worker'.generation = presets'.generation
         /\ command_worker'.changed = changed
         /\ presets' \in [generation : Nat \ {0}, entries : SUBSET Listing, active : Listing \cup {None}]
         /\ presets'.generation = presets.generation + 1
<1>1. Asked \in PresetRequest
  BY DEF TopologyTypes, Asked, PresetAccepted, PresetTaken
<1>2. Asked.id \in Nat /\ presets.generation \in Nat \ {0}
  BY <1>1 DEF PresetRequest, TopologyTypes
<1>3. PICK entries \in SUBSET Listing, active \in Listing \cup {None} : Accept(entries, active, changed)
  BY DEF PresetAccepted
<1>4. /\ presets' = [generation |-> presets.generation + 1, entries |-> entries, active |-> active]
      /\ command_worker' = [pc |-> "ack", kind |-> "preset", id |-> Asked.id, result |-> "accepted",
                            generation |-> presets.generation + 1, changed |-> changed]
  BY <1>3 DEF Accept
<1> HIDE DEF Asked
<1>5. presets.generation + 1 \in Nat \ {0}
  BY <1>2
<1>6. command_worker' \in Answers
  BY <1>2, <1>4, <1>5 DEF Answers
<1>7. presets' \in [generation : Nat \ {0}, entries : SUBSET Listing, active : Listing \cup {None}]
  BY <1>4, <1>5
<1> QED BY <1>4, <1>6, <1>7

(* The answer of a preset command that fails.                               *)
LEMMA PresetFailsGives ==
  ASSUME TopologyTypes, PresetFails
  PROVE  /\ PresetTaken /\ UNCHANGED <<rackVars, presetVars>>
         /\ command_worker' \in Answers
         /\ command_worker'.pc = "ack" /\ command_worker'.kind = "preset" /\ command_worker'.id = Asked.id
         /\ command_worker'.result = "failed" /\ command_worker'.changed = FALSE
<1>1. PresetTaken /\ Asked \in PresetRequest
  BY TakenPreset DEF PresetFails
<1>2. Asked.id \in Nat /\ presets.generation \in Nat
  BY <1>1 DEF PresetRequest, TopologyTypes
<1>3. /\ command_worker' = [pc |-> "ack", kind |-> "preset", id |-> Asked.id, result |-> "failed",
                            generation |-> presets.generation, changed |-> FALSE]
      /\ UNCHANGED <<rackVars, presetVars>>
  BY DEF PresetFails
<1> HIDE DEF Asked
<1> QED BY <1>1, <1>2, <1>3 DEF Answers

(* A window that has drawn nothing.                                         *)
LEMMA NoFrameIsTyped ==
  ASSUME <<>> \in Racks
  PROVE  NoFrame \in Frames
BY DEF NoFrame, Frames, PresetList

(* The types hold at the start.                                             *)
LEMMA TypesInit ==
  ASSUME TopologyInit
  PROVE  TopologyTypes
<1>0. setup \in Setups
  BY DEF TopologyInit
<1>1. setup.installed \subseteq Plugs /\ setup.library \in [Presets -> Preset \cup {None}]
  BY <1>0, SetupAssumption
<1>2. <<>> \in Racks
  <2>1. <<>> \in Seq(Slot) /\ Len(<<>>) = 0 /\ DOMAIN <<>> = {}
    OBVIOUS
  <2> QED BY <2>1, TopologyBounds DEF Racks
<1>3. catalog \in PluginCatalog /\ shown_catalog = catalog /\ EmptyCatalog \in PluginCatalog
  <2>1. EmptyCatalog \in PluginCatalog
    BY DEF EmptyCatalog, PluginCatalog
  <2> QED BY <1>1, <2>1 DEF TopologyInit, PluginCatalog
<1>4. scanner \in [pc : {"none", "scanning", "publishing"}, publish : PluginCatalog]
  BY <1>3 DEF TopologyInit
<1>5. library \in [Presets -> Preset \cup {None}]
  BY <1>1 DEF TopologyInit
<1> DEFINE entries == {[id |-> p, name |-> library[p].name] : p \in {q \in Presets : library[q] # None}}
<1>6. entries \in SUBSET Listing
  <2> SUFFICES ASSUME NEW p \in Presets, library[p] # None
               PROVE  [id |-> p, name |-> library[p].name] \in Listing
    OBVIOUS
  <2>1. library[p] \in Preset
    BY <1>5
  <2> QED BY <2>1 DEF Listing, Preset
<1>7. presets = [generation |-> 1, active |-> None, entries |-> entries]
  BY DEF TopologyInit
<1> HIDE DEF entries
<1>8. presets \in [generation : Nat \ {0}, entries : SUBSET Listing, active : Listing \cup {None}]
  BY <1>6, <1>7
<1>9. PresetView(presets) \in PresetList
  BY <1>8 DEF PresetView, PresetList
<1>10. editor \in Models(Racks, RackRequest)
  BY <1>2 DEF TopologyInit, Model, Models
<1>11. preset_editor \in Models(PresetList, PresetRequest)
  BY <1>9 DEF TopologyInit, Model, Models
<1>12. command_worker \in Answers
  BY DEF TopologyInit, NoAnswer, Answers
<1>13. /\ rack \in Racks /\ next_slot_id \in Nat \ {0} /\ generation \in Nat \ {0} /\ units \in Nat
       /\ missing_states \in SUBSET SavedSlot /\ windows \in SUBSET [slot : Nat, unit : Nat]
       /\ issued \in Nat
  BY <1>2 DEF TopologyInit
<1>14. queue \in Seq(RackRequest) /\ preset_queue \in Seq(PresetRequest)
  <2>1. queue = <<>> /\ preset_queue = <<>>
    BY DEF TopologyInit
  <2>2. \A S : <<>> \in Seq(S)
    OBVIOUS
  <2> QED BY <2>1, <2>2
<1>15. stopping \in BOOLEAN
  BY DEF TopologyInit
<1>16. frame \in Frames
  BY <1>2, NoFrameIsTyped DEF TopologyInit
<1> QED BY <1>0, <1>3, <1>4, <1>5, <1>8, <1>10, <1>11, <1>12, <1>13, <1>14, <1>15, <1>16 DEF TopologyTypes

(* The Rack's own variables, and the rest.                                  *)
SlotTypes ==
    /\ rack \in Racks /\ next_slot_id \in Nat \ {0} /\ generation \in Nat \ {0} /\ units \in Nat
    /\ missing_states \in SUBSET SavedSlot
    /\ windows \in SUBSET [slot : Nat, unit : Nat]

(* The Rack and what is kept beside it keep their types.                    *)
LEMMA SlotTypesStep ==
  ASSUME TopologyTypes, TopologyStep
  PROVE  SlotTypes'
<1>0. SlotTypes /\ setup \in Setups
  BY DEF TopologyTypes, SlotTypes
<1>1. CASE UNCHANGED rackVars
  BY <1>0, <1>1 DEF SlotTypes, rackVars
<1>2. CASE Restore
  <2>1. CASE setup.session # None /\ Adopt(setup.session.slots, setup.session.generation)
    <3>1. setup.session.slots \in SavedSlots /\ setup.session.generation \in Nat \ {0}
      BY <1>0, <2>1, SetupAssumption
    <3>2. RackAdopted(setup.session.generation)
      BY <2>1, <3>1, AdoptBuilds
    <3> QED BY <3>1, <3>2 DEF RackAdopted, SlotTypes
  <2> QED BY <1>1, <1>2, <2>1 DEF Restore
<1>3. CASE RackEdited
  <2>1. rack' \in Racks
    BY <1>3 DEF RackEdited, IsEdit
  <2>2. generation' = generation + 1
    BY <1>3 DEF RackEdited, Commit
  <2> QED BY <1>0, <1>3, <2>1, <2>2 DEF RackEdited, SlotTypes
<1>4. CASE WindowOpened
  BY <1>0, <1>4 DEF WindowOpened, SlotTypes
<1>5. CASE LoadStep
  <2>1. generation + 1 \in Nat \ {0}
    BY <1>0 DEF SlotTypes
  <2> QED BY <1>5, <2>1 DEF LoadStep, RackAdopted, SlotTypes
<1>6. CASE PublishSnapshot
  <2>1. missing_states' \in SUBSET SavedSlot
    BY <1>0, <1>6 DEF PublishSnapshot, Pruned, SlotTypes
  <2> QED BY <1>0, <1>6, <2>1 DEF PublishSnapshot, tellUnchanged, SlotTypes
<1>7. CASE WorkerStops
  BY <1>0, <1>7 DEF WorkerStops, SlotTypes
<1>8. CASE \/ \E c : RackClicked(c)
           \/ \E c : PresetClicked(c)
           \/ RackRefused \/ RefreshStep \/ PresetFails \/ FileStep
           \/ ScanEnds \/ PublishCatalog \/ Stop
           \/ Drawn
  <2>1. UNCHANGED rackVars
    BY <1>8 DEF RackClicked, PresetClicked, RackRefused, Refuse, RefreshStep, StartRefresh,
       PresetFails, FileStep, ScanEnds, PublishCatalog, scanUnchanged, Stop, Drawn
  <2> QED BY <1>1, <2>1
<1>9. CASE ApplyAck \/ ApplyPresetAck \/ PublishPresets
  <2>1. UNCHANGED rackVars
    BY <1>9 DEF ApplyAck, ApplyPresetAck, PublishPresets, tellUnchanged, rackVars
  <2> QED BY <1>1, <2>1
<1> QED BY <1>2, <1>3, <1>4, <1>5, <1>6, <1>7, <1>8, <1>9 DEF TopologyStep

CatalogTypes ==
    /\ catalog \in PluginCatalog /\ shown_catalog \in PluginCatalog
    /\ scanner \in [pc : {"none", "scanning", "publishing"}, publish : PluginCatalog]

FileTypes ==
    /\ library \in [Presets -> Preset \cup {None}]
    /\ presets \in [generation : Nat \ {0}, entries : SUBSET Listing, active : Listing \cup {None}]

(* Who leaves the catalog, and who the preset files, alone.                  *)
LEMMA CatalogAlone ==
  ASSUME TopologyStep, ~RefreshStep, ~ScanEnds, ~PublishCatalog
  PROVE  UNCHANGED <<catalog, scanner, shown_catalog>>
<1>1. CASE \/ \E c : RackClicked(c)
           \/ \E c : PresetClicked(c)
           \/ Restore \/ RackEdited \/ RackRefused \/ WindowOpened
  BY <1>1 DEF RackClicked, PresetClicked, Restore, RackEdited, RackRefused, WindowOpened, restUnchanged,
     catalogVars
<1>2. CASE PresetFails \/ FileStep \/ LoadStep
  BY <1>2 DEF PresetFails, TakePreset, FileStep, LoadStep, PresetAccepted, PresetTaken, catalogVars
<1>3. CASE ApplyAck \/ ApplyPresetAck \/ PublishPresets \/ PublishSnapshot \/ WorkerStops \/ Stop
           \/ Drawn
  BY <1>3 DEF ApplyAck, ApplyPresetAck, PublishPresets, PublishSnapshot, tellUnchanged, WorkerStops, Stop,
     Drawn, catalogVars
<1> QED BY <1>1, <1>2, <1>3 DEF TopologyStep

(* Who leaves the preset files alone.                                       *)
LEMMA FilesAlone ==
  ASSUME TopologyStep, ~FileStep, ~LoadStep
  PROVE  UNCHANGED <<library, presets>>
<1>1. CASE \/ \E c : RackClicked(c)
           \/ \E c : PresetClicked(c)
           \/ Restore \/ RackEdited \/ RackRefused \/ WindowOpened \/ RefreshStep
  BY <1>1 DEF RackClicked, PresetClicked, Restore, RackEdited, RackRefused, WindowOpened, restUnchanged,
     RefreshStep, StartRefresh, presetVars
<1>2. CASE PresetFails
  BY <1>2 DEF PresetFails, presetVars
<1>3. CASE ApplyAck \/ ApplyPresetAck \/ PublishPresets \/ PublishSnapshot \/ WorkerStops \/ Stop
           \/ Drawn
  BY <1>3 DEF ApplyAck, ApplyPresetAck, PublishPresets, PublishSnapshot, tellUnchanged, WorkerStops, Stop,
     Drawn, presetVars
<1>4. CASE ScanEnds \/ PublishCatalog
  BY <1>4 DEF ScanEnds, PublishCatalog, scanUnchanged, presetVars
<1> QED BY <1>1, <1>2, <1>3, <1>4 DEF TopologyStep

(* A scan starts: a new generation of the same catalog.                      *)
LEMMA ScanBegins ==
  ASSUME NEW c \in PluginCatalog, NEW d,
         d = [c EXCEPT !.scanning = TRUE, !.generation = @ + 1]
  PROVE  d \in PluginCatalog /\ d.generation = c.generation + 1 /\ d.scanning
<1> DEFINE g == c.generation + 1
<1>1. g \in Nat \ {0}
  BY DEF PluginCatalog
<1>2. d = [c EXCEPT !.scanning = TRUE, !.generation = g]
  BY DEF PluginCatalog
<1> HIDE DEF g
<1>3. d \in PluginCatalog /\ d.generation = g /\ d.scanning = TRUE
  BY <1>1, <1>2 DEF PluginCatalog
<1> QED BY <1>3 DEF g

(* A scan fails: the same.                                                   *)
LEMMA ScanFails ==
  ASSUME NEW c \in PluginCatalog, NEW d,
         d = [c EXCEPT !.scanning = FALSE, !.generation = @ + 1]
  PROVE  d \in PluginCatalog /\ d.generation = c.generation + 1 /\ ~d.scanning
<1> DEFINE g == c.generation + 1
<1>1. g \in Nat \ {0}
  BY DEF PluginCatalog
<1>2. d = [c EXCEPT !.scanning = FALSE, !.generation = g]
  BY DEF PluginCatalog
<1> HIDE DEF g
<1>3. d \in PluginCatalog /\ d.generation = g /\ d.scanning = FALSE
  BY <1>1, <1>2 DEF PluginCatalog
<1> QED BY <1>3 DEF g

(* The catalog keeps its type.                                              *)
LEMMA CatalogTypesStep ==
  ASSUME TopologyTypes, TopologyStep
  PROVE  CatalogTypes'
<1>0. CatalogTypes /\ setup \in Setups
  BY DEF TopologyTypes, CatalogTypes
<1>1. setup.installed \subseteq Plugs
  BY <1>0, SetupAssumption
<1>2. CASE RefreshStep
  <2>1. /\ catalog' = [catalog EXCEPT !.scanning = TRUE, !.generation = @ + 1]
        /\ shown_catalog' = catalog'
        /\ scanner' = [scanner EXCEPT !.pc = "scanning"]
    BY <1>2 DEF RefreshStep, StartRefresh
  <2>2. catalog' \in PluginCatalog
    <3>1. catalog \in PluginCatalog
      BY <1>0 DEF CatalogTypes
    <3>2. catalog' = [catalog EXCEPT !.scanning = TRUE, !.generation = @ + 1]
      BY <2>1
    <3> QED BY ONLY <3>1, <3>2, ScanBegins, Zenon
  <2>3. scanner' \in [pc : {"none", "scanning", "publishing"}, publish : PluginCatalog]
    BY <1>0, <2>1 DEF CatalogTypes
  <2> QED BY <2>1, <2>2, <2>3 DEF CatalogTypes
<1>3. CASE ScanEnds
  <2>1. catalog' \in PluginCatalog
    <3>1. CASE catalog' = [catalog EXCEPT !.scanning = FALSE, !.generation = @ + 1]
      <4>1. catalog \in PluginCatalog
        BY <1>0 DEF CatalogTypes
      <4> QED BY ONLY <3>1, <4>1, ScanFails, Zenon
    <3>2. CASE \E found \in {setup.installed, Plugs} :
                  catalog' = [generation |-> catalog.generation + 2, entries |-> found, scanning |-> FALSE]
      <4>1. PICK found \in SUBSET Plugs :
                  catalog' = [generation |-> catalog.generation + 2, entries |-> found, scanning |-> FALSE]
        BY <1>1, <3>2
      <4>2. catalog.generation + 2 \in Nat \ {0}
        BY <1>0 DEF CatalogTypes, PluginCatalog
      <4> QED BY <4>1, <4>2 DEF PluginCatalog
    <3> QED BY <1>3, <3>1, <3>2 DEF ScanEnds
  <2>2. scanner' = [pc |-> "publishing", publish |-> catalog'] /\ shown_catalog' = shown_catalog
    BY <1>3 DEF ScanEnds
  <2>3. scanner' \in [pc : {"none", "scanning", "publishing"}, publish : PluginCatalog]
    BY <2>1, <2>2
  <2> QED BY <1>0, <2>1, <2>2, <2>3 DEF CatalogTypes
<1>4. CASE PublishCatalog
  <2>1. /\ scanner' = [scanner EXCEPT !.pc = "none"] /\ catalog' = catalog
        /\ shown_catalog' \in {scanner.publish, shown_catalog}
    BY <1>4 DEF PublishCatalog
  <2> QED BY <1>0, <2>1 DEF CatalogTypes
<1>5. CASE ~RefreshStep /\ ~ScanEnds /\ ~PublishCatalog
  BY <1>0, <1>5, CatalogAlone DEF CatalogTypes
<1> QED BY <1>2, <1>3, <1>4, <1>5

(* The preset files and their list keep their types.                        *)
LEMMA FileTypesStep ==
  ASSUME TopologyTypes, TopologyStep
  PROVE  FileTypes'
<1>1. CASE FileStep \/ LoadStep
  <2>1. PICK changed \in BOOLEAN : PresetAccepted(changed)
    BY <1>1 DEF FileStep, LoadStep
  <2>2. presets' \in [generation : Nat \ {0}, entries : SUBSET Listing, active : Listing \cup {None}]
    BY <2>1, PresetAnswerIsTyped
  <2> QED BY <2>1, <2>2 DEF PresetAccepted, FileTypes
<1>2. CASE ~FileStep /\ ~LoadStep
  BY <1>2, FilesAlone DEF FileTypes, TopologyTypes
<1> QED BY <1>1, <1>2

(* A click ends the frame, and nobody else than the window draws one.         *)
LEMMA FrameTypesStep ==
  ASSUME TopologyTypes, TopologyStep
  PROVE  frame' \in Frames
<1>0. frame \in Frames
  BY DEF TopologyTypes
<1>1. CASE (\E c : RackClicked(c)) \/ (\E c : PresetClicked(c))
  <2>1. <<>> \in Racks
    <3>1. <<>> \in Seq(Slot) /\ Len(<<>>) = 0 /\ DOMAIN <<>> = {}
      OBVIOUS
    <3> QED BY <3>1, TopologyBounds DEF Racks
  <2>2. frame' = NoFrame
    BY <1>1 DEF RackClicked, PresetClicked
  <2> QED BY <2>1, <2>2, NoFrameIsTyped
<1>2. CASE Drawn
  BY <1>2 DEF Drawn
<1>3. CASE frame' = frame
  BY <1>0, <1>3
<1>4. CASE Restore \/ RackEdited \/ RackRefused \/ WindowOpened \/ RefreshStep
  BY <1>3, <1>4 DEF Restore, RackEdited, RackRefused, WindowOpened, restUnchanged, RefreshStep, StartRefresh
<1>5. CASE PresetFails \/ FileStep \/ LoadStep
  BY <1>3, <1>5 DEF PresetFails, TakePreset, FileStep, LoadStep, PresetAccepted, PresetTaken
<1>6. CASE ApplyAck \/ ApplyPresetAck \/ PublishPresets \/ PublishSnapshot \/ WorkerStops
  BY <1>3, <1>6 DEF ApplyAck, ApplyPresetAck, PublishPresets, PublishSnapshot, tellUnchanged, WorkerStops
<1>7. CASE ScanEnds \/ PublishCatalog \/ Stop
  BY <1>3, <1>7 DEF ScanEnds, PublishCatalog, scanUnchanged, Stop
<1> QED BY <1>1, <1>2, <1>4, <1>5, <1>6, <1>7 DEF TopologyStep

-----------------------------------------------------------------------------
(* The commands under way: what the worker and the two models know of each   *)
(* other between any two steps.                                             *)

(* The worker has changed the Rack, and has not shown it to the editor.       *)
Unshown ==
    \/ command_worker.pc = "snapshot"
    \/ command_worker.pc \in {"ack", "presets"} /\ command_worker.changed

(* No command is between its execution and the end of its answer, but for a   *)
(* Rack that a preset or the session has brought and that is still to show.  *)
Resting ==
    \/ command_worker.pc \in {"restore", "idle", "stopped"}
    \/ command_worker.pc = "snapshot" /\ command_worker.kind # "rack"

(* What is queued is what its model waits for, and it is alone.              *)
QueueInv ==
    /\ Len(queue) <= 1 /\ Len(preset_queue) <= 1
    /\ queue # <<>> =>
        /\ editor.pending = Head(queue) /\ editor.accepted = 0
        /\ preset_editor.pending = None /\ Resting
    /\ preset_queue # <<>> =>
        /\ preset_editor.pending = Head(preset_queue) /\ preset_editor.accepted = 0
        /\ editor.pending = None /\ Resting

(* An answer is to the command its model waits for, and names the generation  *)
(* that the model will be shown next.                                       *)
AnswerInv ==
    /\ command_worker.pc = "ack" => command_worker.kind \in {"rack", "preset"}
    /\ command_worker.pc = "ack" /\ command_worker.kind = "rack" =>
        /\ editor.pending # None /\ editor.pending.id = command_worker.id /\ editor.accepted = 0
        /\ preset_editor.pending = None
        /\ command_worker.changed <=>
              command_worker.result = "accepted" /\ editor.pending.type \notin Transient
        /\ command_worker.changed => command_worker.generation = generation
    /\ command_worker.pc = "ack" /\ command_worker.kind = "preset" =>
        /\ preset_editor.pending # None /\ preset_editor.pending.id = command_worker.id
        /\ preset_editor.accepted = 0
        /\ editor.pending = None
        /\ command_worker.changed => command_worker.result = "accepted"
        /\ command_worker.result = "accepted" => command_worker.generation = presets.generation
    /\ command_worker.pc = "presets" =>
        /\ command_worker.kind = "preset"
        /\ preset_editor.pending # None /\ preset_editor.accepted = presets.generation
        /\ editor.pending = None
    /\ command_worker.pc = "snapshot" /\ command_worker.kind = "rack" =>
        /\ editor.pending # None /\ editor.accepted = generation
        /\ preset_editor.pending = None

(* The presets on display are those of the worker, unless it is telling.      *)
Telling ==
    \/ command_worker.pc = "presets"
    \/ command_worker.pc = "ack" /\ command_worker.kind = "preset" /\ command_worker.result = "accepted"
PresetsShown ==
    /\ preset_editor.from <= preset_editor.generation
    /\ Telling => preset_editor.generation < presets.generation
    /\ ~Telling => /\ preset_editor.generation = presets.generation
                   /\ preset_editor.view = PresetView(presets)

(* The Rack on display is that of the worker, unless it is still to show or   *)
(* the editor refuses it; the restored session is where the generations      *)
(* start again.                                                             *)
Restored == command_worker.pc = "snapshot" /\ command_worker.kind = "restore"
RackShown ==
    /\ editor.from <= editor.generation
    /\ ~Unshown /\ DistinctIds(rack) =>
        /\ editor.generation = generation
        /\ editor.view = rack \/ (generation = 1 /\ editor.view = <<>>)
    /\ Unshown /\ ~Restored => editor.generation < generation
    /\ Restored => editor.generation = 1 /\ editor.view = <<>>
    /\ command_worker.pc = "restore" => rack = <<>> /\ generation = 1 /\ editor.view = <<>>

(* Once an identity is used twice no further command is taken.               *)
Locked ==
    ~DistinctIds(rack) =>
        /\ queue = <<>> /\ preset_queue = <<>>
        /\ editor.pending # None /\ preset_editor.pending = None
        /\ editor.generation < generation
        /\ \/ command_worker.pc \in {"idle", "stopped"}
           \/ command_worker.pc \in {"ack", "snapshot"} /\ command_worker.kind = "rack"
              /\ command_worker.changed

(* The occupant that a queued command is about is the one in the frame that   *)
(* was clicked, unless that frame was outdated.                             *)
Seen ==
    queue # <<>> /\ ~Head(queue).outdated /\ Head(queue).slot # 0 =>
        /\ command_worker.pc \in {"idle", "stopped"}
        /\ Find(Head(queue).slot) # 0
        /\ rack[Find(Head(queue).slot)].unit = Head(queue).seen

Control == QueueInv /\ AnswerInv /\ PresetsShown /\ RackShown /\ Locked /\ Seen

ControlTypes ==
    /\ setup \in Setups
    /\ queue \in Seq(RackRequest) /\ preset_queue \in Seq(PresetRequest)
    /\ command_worker \in Answers
    /\ editor \in Models(Racks, RackRequest) /\ preset_editor \in Models(PresetList, PresetRequest)
    /\ issued \in Nat /\ stopping \in BOOLEAN

(* A queue of one command. *)
LEMMA QueueOfOne ==
  ASSUME NEW S, NEW c \in S
  PROVE  Append(<<>>, c) \in Seq(S) /\ Append(<<>>, c) # <<>> /\ Len(Append(<<>>, c)) = 1
         /\ Head(Append(<<>>, c)) = c
OBVIOUS

(* Nothing is left of a queue of one command when it is taken.              *)
LEMMA TailOfOne ==
  ASSUME NEW S, NEW q \in Seq(S), q # <<>>, Len(q) <= 1
  PROVE  Tail(q) = <<>> /\ Head(q) \in S
<1>1. Len(q) = 1
  <2>1. Len(q) = 0 => q = <<>>
    OBVIOUS
  <2>2. Len(q) \in Nat
    OBVIOUS
  <2> QED BY <2>1, <2>2
<1>2. Tail(q) \in Seq(S) /\ Len(Tail(q)) = 0 /\ Head(q) \in S
  BY <1>1
<1>3. Tail(q) = <<>>
  BY <1>2
<1> QED BY <1>2, <1>3

(* None is no command, no preset and no line of the list.                   *)
LEMMA RequestsAreNotNone == None \notin RackRequest /\ None \notin PresetRequest /\ None \notin Preset
                            /\ None \notin Listing
BY NoneAssumption

(* The identities of the empty Rack are distinct, and it has none.            *)
LEMMA EmptyRack ==
  DistinctIds(<<>>) /\ \A id \in Nat : FindIn(<<>>, id) = 0
<1>1. <<>> \in Seq(Slot) /\ Len(<<>>) = 0 /\ DOMAIN <<>> = {}
  OBVIOUS
<1>2. DistinctIds(<<>>)
  BY <1>1 DEF DistinctIds
<1>3. \A id \in Nat : FindIn(<<>>, id) \in 0 .. Len(<<>>)
  BY <1>1, FindFinds
<1> QED BY <1>1, <1>2, <1>3

(* Nothing is queued when the controls are enabled. *)
LEMMA EnabledIsIdle ==
  ASSUME TopologyTypes, QueueInv, AnswerInv, editor.pending = None, preset_editor.pending = None
  PROVE  /\ queue = <<>> /\ preset_queue = <<>>
         /\ command_worker.pc # "ack" /\ command_worker.pc # "presets"
         /\ Resting
<1>1. queue # <<>> => Head(queue) \in RackRequest
  BY DEF TopologyTypes
<1>2. preset_queue # <<>> => Head(preset_queue) \in PresetRequest
  BY DEF TopologyTypes
<1>3. command_worker.pc \in {"restore", "idle", "ack", "presets", "snapshot", "stopped"}
  BY DEF TopologyTypes, Answers
<1> QED BY <1>1, <1>2, <1>3, RequestsAreNotNone DEF QueueInv, AnswerInv, Resting

(* The types the control invariant is about, as facts to cite.               *)
LEMMA ControlFacts ==
  ASSUME TopologyTypes
  PROVE  /\ ControlTypes
         /\ rack \in Racks /\ generation \in Nat \ {0}
         /\ presets.generation \in Nat \ {0} /\ PresetView(presets) \in PresetList
         /\ editor.generation \in Nat \ {0} /\ editor.from \in Nat /\ editor.accepted \in Nat
         /\ editor.view \in Racks /\ editor.pending \in RackRequest \cup {None}
         /\ preset_editor.generation \in Nat \ {0} /\ preset_editor.from \in Nat
         /\ preset_editor.accepted \in Nat
         /\ preset_editor.pending \in PresetRequest \cup {None}
         /\ command_worker.generation \in Nat /\ command_worker.changed \in BOOLEAN
         /\ command_worker.pc \in {"restore", "idle", "ack", "presets", "snapshot", "stopped"}
         /\ command_worker.kind \in {"none", "rack", "preset", "restore"}
<1>1. ControlTypes
  BY DEF TopologyTypes, ControlTypes
<1>2. rack \in Racks /\ generation \in Nat \ {0}
  BY DEF TopologyTypes
<1>3. presets.generation \in Nat \ {0} /\ PresetView(presets) \in PresetList
  BY DEF TopologyTypes, PresetView, PresetList
<1>4. /\ editor.generation \in Nat \ {0} /\ editor.from \in Nat /\ editor.accepted \in Nat
      /\ editor.view \in Racks /\ editor.pending \in RackRequest \cup {None}
      /\ preset_editor.generation \in Nat \ {0} /\ preset_editor.from \in Nat
      /\ preset_editor.accepted \in Nat
      /\ preset_editor.pending \in PresetRequest \cup {None}
  BY <1>1 DEF ControlTypes, Models
<1>5. /\ command_worker.generation \in Nat /\ command_worker.changed \in BOOLEAN
      /\ command_worker.pc \in {"restore", "idle", "ack", "presets", "snapshot", "stopped"}
      /\ command_worker.kind \in {"none", "rack", "preset", "restore"}
  BY <1>1 DEF ControlTypes, Answers
<1> QED BY <1>1, <1>2, <1>3, <1>4, <1>5

(* A click in the Rack: what it is about is on display.                      *)
LEMMA RackClickKeeps ==
  ASSUME TopologyTypes, Control, NEW c, RackClicked(c)
  PROVE  ControlTypes' /\ Control'
<1> USE ControlFacts
<1>0. QueueInv /\ AnswerInv /\ PresetsShown /\ RackShown /\ Locked /\ Seen
  BY DEF Control
<1>1. /\ editor.pending = None /\ preset_editor.pending = None /\ c \in RackRequest
      /\ editor' = Begin(editor, c) /\ queue' = Append(queue, c) /\ issued' = issued + 1
      /\ setup' = setup /\ rack' = rack /\ generation' = generation /\ presets' = presets
      /\ preset_queue' = preset_queue /\ command_worker' = command_worker
      /\ preset_editor' = preset_editor /\ stopping' = stopping
  BY DEF RackClicked, rackVars, presetVars
<1>2. /\ queue = <<>> /\ preset_queue = <<>> /\ Resting
      /\ command_worker.pc # "ack" /\ command_worker.pc # "presets"
  BY <1>0, <1>1, EnabledIsIdle
<1>3. /\ editor' \in Models(Racks, RackRequest)
      /\ editor'.generation = editor.generation /\ editor'.view = editor.view
      /\ editor'.pending = c /\ editor'.from = editor.generation /\ editor'.accepted = 0
  BY <1>1, BeginGives DEF ControlTypes
<1>4. queue' \in Seq(RackRequest) /\ queue' # <<>> /\ Len(queue') = 1 /\ Head(queue') = c
  BY <1>1, <1>2, QueueOfOne
<1>5. Len(preset_queue) = 0
  BY <1>2
<1>6. DistinctIds(rack)
  BY <1>0, <1>1 DEF Locked
<1>7. UNCHANGED <<Unshown, Restored, Telling, Resting>>
  BY <1>1 DEF Unshown, Restored, Telling, Resting
<1>8. ControlTypes'
  BY <1>1, <1>3, <1>4 DEF ControlTypes
<1>9. QueueInv'
  BY <1>1, <1>2, <1>3, <1>4, <1>5, <1>7 DEF QueueInv
<1>10. AnswerInv'
  BY <1>0, <1>1, <1>2 DEF AnswerInv, Resting
<1>11. PresetsShown'
  BY <1>0, <1>1, <1>7 DEF PresetsShown
<1>12. RackShown'
  BY <1>0, <1>1, <1>3, <1>7 DEF RackShown
<1>13. Locked'
  BY <1>1, <1>6 DEF Locked
<1>14. Seen'
  <2> SUFFICES ASSUME ~c.outdated, c.slot # 0
               PROVE  /\ command_worker'.pc \in {"idle", "stopped"}
                      /\ FindIn(rack', c.slot) # 0
                      /\ rack'[FindIn(rack', c.slot)].unit = c.seen
    BY <1>4 DEF Seen, Find
  <2>1. /\ FindIn(editor.view, c.slot) # 0
        /\ c.seen = editor.view[FindIn(editor.view, c.slot)].unit
        /\ command_worker.pc # "snapshot"
    BY DEF RackClicked
  <2>2. c.slot \in Nat
    BY <1>1 DEF RackRequest
  <2>3. editor.view # <<>>
    BY <2>1, <2>2, EmptyRack
  <2>4. ~Unshown
    BY <1>2, <2>1 DEF Unshown
  <2>5. editor.view = rack
    BY <1>0, <1>6, <2>3, <2>4 DEF RackShown
  <2>6. command_worker.pc \in {"idle", "stopped"}
    BY <1>0, <1>2, <2>1, <2>3 DEF Resting, RackShown
  <2> QED BY <1>1, <2>1, <2>5, <2>6
<1> QED BY <1>8, <1>9, <1>10, <1>11, <1>12, <1>13, <1>14 DEF Control

(* A click among the presets.                                               *)
LEMMA PresetClickKeeps ==
  ASSUME TopologyTypes, Control, NEW c, PresetClicked(c)
  PROVE  ControlTypes' /\ Control'
<1> USE ControlFacts
<1>0. QueueInv /\ AnswerInv /\ PresetsShown /\ RackShown /\ Locked /\ Seen
  BY DEF Control
<1>1. /\ editor.pending = None /\ preset_editor.pending = None /\ c \in PresetRequest
      /\ preset_editor' = Begin(preset_editor, c) /\ preset_queue' = Append(preset_queue, c)
      /\ issued' = issued + 1
      /\ setup' = setup /\ rack' = rack /\ generation' = generation /\ presets' = presets
      /\ queue' = queue /\ command_worker' = command_worker
      /\ editor' = editor /\ stopping' = stopping
  BY DEF PresetClicked, rackVars, presetVars
<1>2. /\ queue = <<>> /\ preset_queue = <<>> /\ Resting
      /\ command_worker.pc # "ack" /\ command_worker.pc # "presets"
  BY <1>0, <1>1, EnabledIsIdle
<1>3. /\ preset_editor' \in Models(PresetList, PresetRequest)
      /\ preset_editor'.generation = preset_editor.generation
      /\ preset_editor'.view = preset_editor.view
      /\ preset_editor'.pending = c /\ preset_editor'.from = preset_editor.generation
      /\ preset_editor'.accepted = 0
  BY <1>1, BeginGives DEF ControlTypes
<1>4. /\ preset_queue' \in Seq(PresetRequest) /\ preset_queue' # <<>> /\ Len(preset_queue') = 1
      /\ Head(preset_queue') = c
  BY <1>1, <1>2, QueueOfOne
<1>5. Len(queue) = 0
  BY <1>2
<1>6. DistinctIds(rack)
  BY <1>0, <1>1 DEF Locked
<1>7. UNCHANGED <<Unshown, Restored, Telling, Resting>>
  BY <1>1 DEF Unshown, Restored, Telling, Resting
<1>8. ControlTypes'
  BY <1>1, <1>3, <1>4 DEF ControlTypes
<1>9. QueueInv'
  BY <1>1, <1>2, <1>3, <1>4, <1>5, <1>7 DEF QueueInv
<1>10. AnswerInv'
  BY <1>0, <1>1, <1>2 DEF AnswerInv, Resting
<1>11. PresetsShown'
  BY <1>0, <1>1, <1>3, <1>7 DEF PresetsShown
<1>12. RackShown'
  BY <1>0, <1>1, <1>7 DEF RackShown
<1>13. Locked'
  BY <1>1, <1>6 DEF Locked
<1>14. Seen'
  BY <1>1, <1>2 DEF Seen
<1> QED BY <1>8, <1>9, <1>10, <1>11, <1>12, <1>13, <1>14 DEF Control

(* The session, or nothing, before the first command.                        *)
LEMMA RestoreKeeps ==
  ASSUME TopologyTypes, Control, Restore
  PROVE  ControlTypes' /\ Control'
<1> USE ControlFacts
<1>0. QueueInv /\ AnswerInv /\ PresetsShown /\ RackShown /\ Locked /\ Seen
  BY DEF Control
<1>1. /\ command_worker.pc = "restore"
      /\ setup' = setup /\ presets' = presets /\ queue' = queue /\ preset_queue' = preset_queue
      /\ editor' = editor /\ preset_editor' = preset_editor /\ issued' = issued /\ stopping' = stopping
  BY DEF Restore, restUnchanged
<1>2. /\ editor.generation = 1 /\ editor.view = <<>> /\ rack = <<>> /\ generation = 1
      /\ Resting /\ ~Telling /\ ~Unshown
  BY <1>0, <1>1, EmptyRack DEF RackShown, Unshown, Resting, Telling
<1>3. queue # <<>> => Head(queue).outdated \/ Head(queue).slot = 0
  BY <1>0, <1>1 DEF Seen
<1>4. \/ command_worker' = NoAnswer /\ rack' = rack /\ generation' = generation
      \/ /\ command_worker' = [NoAnswer EXCEPT !.pc = "snapshot", !.kind = "restore"]
         /\ DistinctIds(rack')
  <2>1. CASE command_worker' = NoAnswer /\ UNCHANGED rackVars
    BY <2>1 DEF rackVars
  <2>2. CASE /\ setup.session # None
             /\ Adopt(setup.session.slots, setup.session.generation)
             /\ command_worker' = [NoAnswer EXCEPT !.pc = "snapshot", !.kind = "restore"]
    <3>1. setup.session.slots \in SavedSlots
      BY <2>2, SetupAssumption DEF ControlTypes
    <3>2. RackAdopted(setup.session.generation)
      BY <2>2, <3>1, AdoptBuilds
    <3> QED BY <2>2, <3>2 DEF RackAdopted
  <2> QED BY <2>1, <2>2 DEF Restore
<1>5. /\ command_worker' \in Answers
      /\ \/ /\ command_worker'.pc = "idle"
            /\ rack' = rack /\ generation' = generation
         \/ command_worker'.pc = "snapshot" /\ command_worker'.kind = "restore"
      /\ DistinctIds(rack')
  <2>1. CASE command_worker' = NoAnswer /\ rack' = rack /\ generation' = generation
    BY <1>2, <2>1, EmptyRack, NoAnswerIsTyped
  <2>2. CASE /\ command_worker' = [NoAnswer EXCEPT !.pc = "snapshot", !.kind = "restore"]
             /\ DistinctIds(rack')
    <3>1. /\ [NoAnswer EXCEPT !.pc = "snapshot", !.kind = "restore"] \in Answers
          /\ [NoAnswer EXCEPT !.pc = "snapshot", !.kind = "restore"].pc = "snapshot"
          /\ [NoAnswer EXCEPT !.pc = "snapshot", !.kind = "restore"].kind = "restore"
      BY DEF NoAnswer, Answers
    <3> HIDE DEF NoAnswer
    <3> QED BY ONLY <2>2, <3>1
  <2> QED BY <1>4, <2>1, <2>2
<1>6. Resting' /\ ~Telling' /\ (Unshown' <=> Restored')
      /\ (Restored' \/ (~Unshown' /\ ~Restored' /\ rack' = rack /\ generation' = generation))
  BY <1>5 DEF Resting, Telling, Unshown, Restored
<1>7. ControlTypes'
  BY <1>1, <1>5 DEF ControlTypes
<1>8. QueueInv'
  BY <1>0, <1>1, <1>6 DEF QueueInv
<1>9. AnswerInv'
  BY <1>5 DEF AnswerInv
<1>10. PresetsShown'
  BY <1>0, <1>1, <1>2, <1>6 DEF PresetsShown
<1>11. RackShown'
  BY <1>0, <1>1, <1>2, <1>5, <1>6 DEF RackShown
<1>12. Locked' /\ Seen'
  BY <1>1, <1>3, <1>5 DEF Locked, Seen
<1> QED BY <1>7, <1>8, <1>9, <1>10, <1>11, <1>12 DEF Control

(* What holds when the worker takes a command of the Rack.                   *)
LEMMA WhenTaken ==
  ASSUME TopologyTypes, Control, RackTaken
  PROVE  /\ command_worker.pc = "idle" /\ ~Unshown /\ ~Telling /\ DistinctIds(rack)
         /\ queue' = <<>> /\ preset_queue' = <<>> /\ preset_queue = <<>> /\ queue # <<>>
         /\ Command \in RackRequest /\ editor.pending = Command /\ Command # None
         /\ editor.accepted = 0 /\ preset_editor.pending = None
         /\ editor.generation = generation
<1> USE ControlFacts
<1>1. command_worker.pc = "idle" /\ ~Unshown /\ ~Telling
  BY DEF RackTaken, Ready, Unshown, Telling
<1>2. queue # <<>> /\ queue' = Tail(queue) /\ preset_queue' = <<>> /\ preset_queue = <<>>
  BY DEF RackTaken
<1>3. DistinctIds(rack)
  BY <1>2 DEF Control, Locked
<1>4. queue' = <<>> /\ Command \in RackRequest
  BY <1>2, TailOfOne DEF Control, QueueInv, ControlTypes, Command
<1>5. editor.pending = Command /\ editor.accepted = 0 /\ preset_editor.pending = None
  BY <1>2 DEF Control, QueueInv, Command
<1>6. editor.generation = generation
  BY <1>1, <1>3 DEF Control, RackShown
<1> QED BY <1>1, <1>2, <1>3, <1>4, <1>5, <1>6, RequestsAreNotNone

(* A command that changes the Rack is answered with the generation it made,   *)
(* which the editor has yet to see.                                         *)
LEMMA EditKeeps ==
  ASSUME TopologyTypes, Control, RackEdited
  PROVE  ControlTypes' /\ Control'
<1> USE ControlFacts
<1>0. QueueInv /\ AnswerInv /\ PresetsShown /\ RackShown /\ Locked /\ Seen
  BY DEF Control
<1>1. /\ command_worker.pc = "idle" /\ ~Unshown /\ ~Telling /\ DistinctIds(rack)
      /\ queue' = <<>> /\ preset_queue' = <<>> /\ queue # <<>>
      /\ Command \in RackRequest /\ editor.pending = Command /\ Command # None
      /\ editor.accepted = 0 /\ preset_editor.pending = None
      /\ editor.generation = generation
  BY WhenTaken DEF RackEdited
<1>2. /\ Answer("accepted", generation + 1, TRUE) /\ generation' = generation + 1
      /\ Command.type \notin Transient
      /\ setup' = setup /\ presets' = presets
      /\ editor' = editor /\ preset_editor' = preset_editor /\ issued' = issued /\ stopping' = stopping
  BY DEF RackEdited, Commit, restUnchanged
<1>3. /\ command_worker' \in Answers
      /\ command_worker'.pc = "ack" /\ command_worker'.kind = "rack" /\ command_worker'.id = Command.id
      /\ command_worker'.result = "accepted" /\ command_worker'.generation = generation + 1
      /\ command_worker'.changed = TRUE
  <2>1. generation + 1 \in Nat
    OBVIOUS
  <2> QED BY ONLY <1>1, <1>2, <2>1, TopologyTypes, AnswerIsTyped
<1>4. ~Telling' /\ Unshown' /\ ~Restored'
  BY <1>3 DEF Telling, Unshown, Restored
<1>5. queue' \in Seq(RackRequest) /\ preset_queue' \in Seq(PresetRequest)
      /\ Len(queue') = 0 /\ Len(preset_queue') = 0
  BY <1>1
<1>6. ControlTypes'
  BY <1>2, <1>3, <1>5 DEF ControlTypes
<1>7. QueueInv' /\ Seen'
  BY <1>1, <1>5 DEF QueueInv, Seen
<1>8. AnswerInv'
  BY <1>1, <1>2, <1>3 DEF AnswerInv
<1>9. PresetsShown'
  BY <1>0, <1>1, <1>2, <1>4 DEF PresetsShown
<1>10. RackShown'
  BY <1>0, <1>1, <1>2, <1>3, <1>4 DEF RackShown
<1>11. Locked'
  BY <1>1, <1>2, <1>3 DEF Locked
<1> QED BY <1>6, <1>7, <1>8, <1>9, <1>10, <1>11 DEF Control

(* A command that leaves the Rack as it is.                                 *)
RackAnswered ==
    /\ RackTaken
    /\ \E result \in {"accepted", "rejected", "failed"} :
        /\ Answer(result, generation, FALSE)
        /\ result = "accepted" => Command.type \in Transient
    /\ UNCHANGED <<setup, rack, generation, presets, editor, preset_editor, issued, stopping>>

(* Such a command leaves the editor as it is: it is answered at once.       *)
LEMMA AnswerKeeps ==
  ASSUME TopologyTypes, Control, RackAnswered
  PROVE  ControlTypes' /\ Control'
<1> USE ControlFacts
<1>0. QueueInv /\ AnswerInv /\ PresetsShown /\ RackShown /\ Locked /\ Seen
  BY DEF Control
<1>1. /\ command_worker.pc = "idle" /\ ~Unshown /\ ~Telling /\ DistinctIds(rack)
      /\ queue' = <<>> /\ preset_queue' = <<>> /\ queue # <<>>
      /\ Command \in RackRequest /\ editor.pending = Command /\ Command # None
      /\ editor.accepted = 0 /\ preset_editor.pending = None
      /\ editor.generation = generation
  BY WhenTaken DEF RackAnswered
<1>2. PICK result \in {"accepted", "rejected", "failed"} :
        /\ Answer(result, generation, FALSE)
        /\ result = "accepted" => Command.type \in Transient
  BY DEF RackAnswered
<1>3. /\ setup' = setup /\ rack' = rack /\ generation' = generation /\ presets' = presets
      /\ editor' = editor /\ preset_editor' = preset_editor /\ issued' = issued /\ stopping' = stopping
  BY DEF RackAnswered
<1>4. /\ command_worker' \in Answers
      /\ command_worker'.pc = "ack" /\ command_worker'.kind = "rack" /\ command_worker'.id = Command.id
      /\ command_worker'.result = result /\ command_worker'.generation = generation
      /\ command_worker'.changed = FALSE
  <2>1. generation \in Nat /\ FALSE \in BOOLEAN
    OBVIOUS
  <2> QED BY ONLY <1>1, <1>2, <2>1, TopologyTypes, AnswerIsTyped
<1>5. ~Telling' /\ ~Unshown' /\ ~Restored'
  BY <1>4 DEF Telling, Unshown, Restored
<1>6. queue' \in Seq(RackRequest) /\ preset_queue' \in Seq(PresetRequest)
      /\ Len(queue') = 0 /\ Len(preset_queue') = 0
  BY <1>1
<1>7. ControlTypes'
  BY <1>3, <1>4, <1>6 DEF ControlTypes
<1>8. QueueInv' /\ Seen'
  BY <1>1, <1>6 DEF QueueInv, Seen
<1>9. AnswerInv'
  BY <1>1, <1>2, <1>3, <1>4 DEF AnswerInv
<1>10. PresetsShown'
  BY <1>0, <1>1, <1>3, <1>5 DEF PresetsShown
<1>11. RackShown'
  BY <1>0, <1>1, <1>3, <1>4, <1>5 DEF RackShown
<1>12. Locked'
  BY <1>1, <1>3 DEF Locked
<1> QED BY <1>7, <1>8, <1>9, <1>10, <1>11, <1>12 DEF Control

(* What holds when the worker takes a preset command.                        *)
LEMMA WhenPresetTaken ==
  ASSUME TopologyTypes, Control, PresetTaken
  PROVE  /\ command_worker.pc = "idle" /\ ~Unshown /\ ~Telling /\ DistinctIds(rack)
         /\ queue' = <<>> /\ preset_queue' = <<>> /\ queue = <<>>
         /\ Asked \in PresetRequest /\ preset_editor.pending = Asked /\ Asked # None
         /\ preset_editor.accepted = 0 /\ editor.pending = None
         /\ editor.generation = generation
         /\ preset_editor.generation = presets.generation
<1> USE ControlFacts
<1>1. command_worker.pc = "idle" /\ ~Unshown /\ ~Telling
  BY DEF PresetTaken, Ready, Unshown, Telling
<1>2. preset_queue # <<>> /\ preset_queue' = Tail(preset_queue) /\ queue' = queue
  BY DEF PresetTaken
<1>3. DistinctIds(rack)
  BY <1>2 DEF Control, Locked
<1>4. preset_queue' = <<>> /\ Asked \in PresetRequest
  BY <1>2, TailOfOne DEF Control, QueueInv, ControlTypes, Asked
<1>5. preset_editor.pending = Asked /\ preset_editor.accepted = 0 /\ editor.pending = None
  BY <1>2 DEF Control, QueueInv, Asked
<1>6. editor.generation = generation /\ preset_editor.generation = presets.generation
  BY <1>1, <1>3 DEF Control, RackShown, PresetsShown
<1>7. queue = <<>>
  <2> SUFFICES ASSUME queue # <<>> PROVE FALSE
    OBVIOUS
  <2>1. Head(queue) \in RackRequest /\ editor.pending = Head(queue)
    BY DEF Control, QueueInv, ControlTypes
  <2> QED BY <1>5, <2>1, RequestsAreNotNone
<1> QED BY <1>1, <1>2, <1>3, <1>4, <1>5, <1>6, <1>7, RequestsAreNotNone

(* A preset command that fails, for its file or for its preset.              *)
LEMMA PresetFailsKeeps ==
  ASSUME TopologyTypes, Control, PresetFails
  PROVE  ControlTypes' /\ Control'
<1> USE ControlFacts
<1>0. QueueInv /\ AnswerInv /\ PresetsShown /\ RackShown /\ Locked /\ Seen
  BY DEF Control
<1>1. /\ PresetTaken /\ UNCHANGED <<rackVars, presetVars>>
      /\ command_worker' \in Answers
      /\ command_worker'.pc = "ack" /\ command_worker'.kind = "preset" /\ command_worker'.id = Asked.id
      /\ command_worker'.result = "failed" /\ command_worker'.changed = FALSE
  BY PresetFailsGives
<1>2. /\ command_worker.pc = "idle" /\ ~Unshown /\ ~Telling /\ DistinctIds(rack)
      /\ queue' = <<>> /\ preset_queue' = <<>> /\ queue = <<>>
      /\ Asked \in PresetRequest /\ preset_editor.pending = Asked /\ Asked # None
      /\ preset_editor.accepted = 0 /\ editor.pending = None
      /\ editor.generation = generation
  BY <1>1, WhenPresetTaken
<1>3. /\ setup' = setup /\ rack' = rack /\ generation' = generation /\ presets' = presets
      /\ editor' = editor /\ preset_editor' = preset_editor /\ issued' = issued /\ stopping' = stopping
  BY <1>1 DEF PresetTaken, rackVars, presetVars
<1>4. ~Telling' /\ ~Unshown' /\ ~Restored'
  BY <1>1 DEF Telling, Unshown, Restored
<1>5. queue' \in Seq(RackRequest) /\ preset_queue' \in Seq(PresetRequest)
      /\ Len(queue') = 0 /\ Len(preset_queue') = 0
  BY <1>2
<1>6. ControlTypes'
  BY <1>1, <1>3, <1>5 DEF ControlTypes
<1>7. QueueInv' /\ Seen'
  BY <1>2, <1>5 DEF QueueInv, Seen
<1>8. AnswerInv'
  BY <1>1, <1>2, <1>3 DEF AnswerInv
<1>9. PresetsShown'
  BY <1>0, <1>2, <1>3, <1>4 DEF PresetsShown
<1>10. RackShown'
  BY <1>0, <1>1, <1>2, <1>3, <1>4 DEF RackShown
<1>11. Locked'
  BY <1>2, <1>3 DEF Locked
<1> QED BY <1>6, <1>7, <1>8, <1>9, <1>10, <1>11 DEF Control

(* A preset command that succeeds: its answer names the preset generation it  *)
(* made, and a load has made a generation of the Rack as well.               *)
LEMMA PresetAcceptKeeps ==
  ASSUME TopologyTypes, Control, NEW changed \in BOOLEAN, PresetAccepted(changed),
         IF changed THEN DistinctIds(rack') /\ generation' = generation + 1
                    ELSE rack' = rack /\ generation' = generation
  PROVE  ControlTypes' /\ Control'
<1> USE ControlFacts
<1>0. QueueInv /\ AnswerInv /\ PresetsShown /\ RackShown /\ Locked /\ Seen
  BY DEF Control
<1>1. /\ command_worker' \in Answers
      /\ command_worker'.pc = "ack" /\ command_worker'.kind = "preset" /\ command_worker'.id = Asked.id
      /\ command_worker'.result = "accepted" /\ command_worker'.generation = presets'.generation
      /\ command_worker'.changed = changed
      /\ presets'.generation = presets.generation + 1
  BY PresetAnswerIsTyped
<1>2. /\ command_worker.pc = "idle" /\ ~Unshown /\ ~Telling /\ DistinctIds(rack)
      /\ queue' = <<>> /\ preset_queue' = <<>> /\ queue = <<>>
      /\ Asked \in PresetRequest /\ preset_editor.pending = Asked /\ Asked # None
      /\ preset_editor.accepted = 0 /\ editor.pending = None
      /\ editor.generation = generation
      /\ preset_editor.generation = presets.generation
  BY WhenPresetTaken DEF PresetAccepted
<1>3. /\ setup' = setup
      /\ editor' = editor /\ preset_editor' = preset_editor /\ issued' = issued /\ stopping' = stopping
  BY DEF PresetAccepted, PresetTaken
<1>4. Telling' /\ (Unshown' <=> changed) /\ ~Restored'
  BY <1>1 DEF Telling, Unshown, Restored
<1>5. queue' \in Seq(RackRequest) /\ preset_queue' \in Seq(PresetRequest)
      /\ Len(queue') = 0 /\ Len(preset_queue') = 0
  BY <1>2
<1>6. DistinctIds(rack')
  BY <1>2
<1>7. ControlTypes'
  BY <1>1, <1>3, <1>5 DEF ControlTypes
<1>8. QueueInv' /\ Seen'
  BY <1>2, <1>5 DEF QueueInv, Seen
<1>9. AnswerInv'
  BY <1>1, <1>2, <1>3 DEF AnswerInv
<1>10. PresetsShown'
  BY <1>0, <1>1, <1>2, <1>3, <1>4 DEF PresetsShown
<1>11. RackShown'
  BY <1>0, <1>1, <1>2, <1>3, <1>4 DEF RackShown
<1>12. Locked'
  BY <1>6 DEF Locked
<1> QED BY <1>7, <1>8, <1>9, <1>10, <1>11, <1>12 DEF Control

(* The worker tells the editor's model that its command has ended.            *)
LEMMA ApplyAckKeeps ==
  ASSUME TopologyTypes, Control, ApplyAck
  PROVE  ControlTypes' /\ Control'
<1> USE ControlFacts
<1>0. QueueInv /\ AnswerInv /\ PresetsShown /\ RackShown /\ Locked /\ Seen
  BY DEF Control
<1>1. /\ command_worker.pc = "ack" /\ command_worker.kind = "rack"
      /\ editor' = AfterAck(editor, command_worker)
      /\ command_worker' = IF command_worker.changed THEN [command_worker EXCEPT !.pc = "snapshot"]
                                                     ELSE NoAnswer
      /\ setup' = setup /\ rack' = rack /\ generation' = generation /\ presets' = presets
      /\ queue' = queue /\ preset_queue' = preset_queue
      /\ preset_editor' = preset_editor /\ issued' = issued /\ stopping' = stopping
  BY DEF ApplyAck, tellUnchanged, presetVars
<1>2. /\ editor.pending # None /\ editor.pending.id = command_worker.id /\ editor.accepted = 0
      /\ preset_editor.pending = None
      /\ command_worker.changed <=>
            command_worker.result = "accepted" /\ editor.pending.type \notin Transient
      /\ command_worker.changed => command_worker.generation = generation
      /\ ~Resting /\ ~Telling
      /\ Unshown <=> command_worker.changed
      /\ ~Restored
  BY <1>0, <1>1 DEF AnswerInv, Resting, Telling, Unshown, Restored
<1>3. queue = <<>> /\ preset_queue = <<>>
  BY <1>0, <1>2 DEF QueueInv
<1>4. /\ editor' \in Models(Racks, RackRequest)
      /\ editor'.generation = editor.generation /\ editor'.view = editor.view
      /\ editor'.from \in {editor.from, 0}
      /\ ~command_worker.changed => editor'.pending = None
      /\ command_worker.changed =>
            editor'.pending = editor.pending /\ editor'.accepted = generation
  <2>1. editor \in Models(Racks, RackRequest)
    BY DEF ControlTypes
  <2>2. command_worker.changed => generation > editor.generation /\ generation > editor.from
    BY <1>0, <1>2 DEF RackShown
  <2>3. command_worker.generation \in Nat
    OBVIOUS
  <2>4. /\ editor' \in Models(Racks, RackRequest)
        /\ editor'.generation = editor.generation /\ editor'.view = editor.view
        /\ editor'.from \in {editor.from, 0}
    BY ONLY <1>1, <2>1, <2>3, AfterAckGives
  <2>5. CASE command_worker.changed
    <3>1. editor'.pending = editor.pending /\ editor'.accepted = command_worker.generation
      BY ONLY <1>1, <1>2, <2>1, <2>2, <2>3, <2>5, AfterAckGives
    <3> QED BY <1>2, <2>4, <2>5, <3>1
  <2>6. CASE ~command_worker.changed
    <3>1. editor'.pending = None
      BY ONLY <1>1, <1>2, <2>1, <2>3, <2>6, AfterAckGives
    <3> QED BY <2>4, <2>6, <3>1
  <2> QED BY <2>5, <2>6
<1>5. /\ command_worker' \in Answers
      /\ command_worker.changed =>
            command_worker'.pc = "snapshot" /\ command_worker'.kind = "rack" /\ command_worker'.changed
      /\ ~command_worker.changed => command_worker'.pc = "idle"
  <2>1. CASE command_worker.changed
    BY <1>1, <2>1 DEF ControlTypes, Answers
  <2>2. CASE ~command_worker.changed
    BY <1>1, <2>2, NoAnswerIsTyped
  <2> QED BY <2>1, <2>2
<1>6. /\ ~Telling' /\ (Unshown' <=> command_worker.changed) /\ ~Restored'
      /\ (Resting' <=> ~command_worker.changed)
  BY <1>5 DEF Telling, Unshown, Restored, Resting
<1>7. ControlTypes'
  BY <1>1, <1>4, <1>5 DEF ControlTypes
<1>8. QueueInv' /\ Seen'
  BY <1>0, <1>1, <1>3 DEF QueueInv, Seen
<1>9. AnswerInv'
  BY <1>1, <1>2, <1>4, <1>5 DEF AnswerInv
<1>10. PresetsShown'
  BY <1>0, <1>1, <1>2, <1>6 DEF PresetsShown
<1>11. RackShown'
  BY <1>0, <1>1, <1>2, <1>4, <1>5, <1>6 DEF RackShown
<1>12. Locked'
  BY <1>0, <1>1, <1>2, <1>4, <1>5 DEF Locked
<1> QED BY <1>7, <1>8, <1>9, <1>10, <1>11, <1>12 DEF Control

(* The same of the preset model, which then waits for the presets.            *)
LEMMA ApplyPresetAckKeeps ==
  ASSUME TopologyTypes, Control, ApplyPresetAck
  PROVE  ControlTypes' /\ Control'
<1> USE ControlFacts
<1>0. QueueInv /\ AnswerInv /\ PresetsShown /\ RackShown /\ Locked /\ Seen
  BY DEF Control
<1> DEFINE accepted == command_worker.result = "accepted"
<1>1. /\ command_worker.pc = "ack" /\ command_worker.kind = "preset"
      /\ preset_editor' = AfterAck(preset_editor, command_worker)
      /\ command_worker' = IF accepted THEN [command_worker EXCEPT !.pc = "presets"] ELSE NoAnswer
      /\ setup' = setup /\ rack' = rack /\ generation' = generation /\ presets' = presets
      /\ queue' = queue /\ preset_queue' = preset_queue
      /\ editor' = editor /\ issued' = issued /\ stopping' = stopping
  BY DEF ApplyPresetAck, tellUnchanged, presetVars
<1>2. /\ preset_editor.pending # None /\ preset_editor.pending.id = command_worker.id
      /\ preset_editor.accepted = 0
      /\ editor.pending = None
      /\ command_worker.changed => accepted
      /\ accepted => command_worker.generation = presets.generation
      /\ ~Resting /\ (Telling <=> accepted)
      /\ Unshown <=> command_worker.changed
      /\ ~Restored
  BY <1>0, <1>1 DEF AnswerInv, Resting, Telling, Unshown, Restored
<1>3. queue = <<>> /\ preset_queue = <<>> /\ DistinctIds(rack)
  BY <1>0, <1>2 DEF QueueInv, Locked
<1>4. /\ preset_editor' \in Models(PresetList, PresetRequest)
      /\ preset_editor'.generation = preset_editor.generation
      /\ preset_editor'.view = preset_editor.view
      /\ preset_editor'.from \in {preset_editor.from, 0}
      /\ accepted => preset_editor'.pending = preset_editor.pending
                     /\ preset_editor'.accepted = presets.generation
  <2>1. preset_editor \in Models(PresetList, PresetRequest)
    BY DEF ControlTypes
  <2>2. accepted => presets.generation > preset_editor.generation
                    /\ presets.generation > preset_editor.from
    BY <1>0, <1>2 DEF PresetsShown
  <2>3. preset_editor.pending.type \notin Transient
    BY <1>2 DEF PresetRequest, PresetCommands, Transient
  <2>4. command_worker.generation \in Nat
    OBVIOUS
  <2>5. /\ preset_editor' \in Models(PresetList, PresetRequest)
        /\ preset_editor'.generation = preset_editor.generation
        /\ preset_editor'.view = preset_editor.view
        /\ preset_editor'.from \in {preset_editor.from, 0}
    BY ONLY <1>1, <2>1, <2>4, AfterAckGives
  <2>6. ASSUME accepted
        PROVE  /\ preset_editor'.pending = preset_editor.pending
               /\ preset_editor'.accepted = command_worker.generation
    BY ONLY <1>1, <1>2, <2>1, <2>2, <2>3, <2>4, <2>6, AfterAckGives
  <2> QED BY <1>2, <2>5, <2>6
<1>5. /\ command_worker' \in Answers
      /\ accepted =>
            command_worker'.pc = "presets" /\ command_worker'.kind = "preset"
            /\ command_worker'.changed = command_worker.changed
      /\ ~accepted => command_worker'.pc = "idle"
  <2>1. CASE accepted
    BY <1>1, <2>1 DEF ControlTypes, Answers
  <2>2. CASE ~accepted
    BY <1>1, <2>2, NoAnswerIsTyped
  <2> QED BY <2>1, <2>2
<1>6. /\ (Telling' <=> accepted) /\ (Unshown' <=> command_worker.changed) /\ ~Restored'
      /\ (Resting' <=> ~accepted)
  BY <1>2, <1>5 DEF Telling, Unshown, Restored, Resting
<1> HIDE DEF accepted
<1>7. ControlTypes'
  BY <1>1, <1>4, <1>5 DEF ControlTypes
<1>8. QueueInv' /\ Seen'
  BY <1>0, <1>1, <1>3 DEF QueueInv, Seen
<1>9. AnswerInv'
  BY <1>1, <1>2, <1>4, <1>5 DEF AnswerInv
<1>10. PresetsShown'
  BY <1>0, <1>1, <1>2, <1>4, <1>6 DEF PresetsShown
<1>11. RackShown'
  BY <1>0, <1>1, <1>2, <1>5, <1>6 DEF RackShown
<1>12. Locked'
  BY <1>1, <1>3 DEF Locked
<1> QED BY <1>7, <1>8, <1>9, <1>10, <1>11, <1>12 DEF Control

(* The presets are shown, which ends the wait of their model.                 *)
LEMMA PublishPresetsKeeps ==
  ASSUME TopologyTypes, Control, PublishPresets
  PROVE  ControlTypes' /\ Control'
<1> USE ControlFacts
<1>0. QueueInv /\ AnswerInv /\ PresetsShown /\ RackShown /\ Locked /\ Seen
  BY DEF Control
<1>1. /\ command_worker.pc = "presets"
      /\ preset_editor' = AfterPublish(preset_editor, presets.generation, PresetView(presets))
      /\ command_worker' = IF command_worker.changed THEN [command_worker EXCEPT !.pc = "snapshot"]
                                                     ELSE NoAnswer
      /\ setup' = setup /\ rack' = rack /\ generation' = generation /\ presets' = presets
      /\ queue' = queue /\ preset_queue' = preset_queue
      /\ editor' = editor /\ issued' = issued /\ stopping' = stopping
  BY DEF PublishPresets, tellUnchanged, presetVars
<1>2. /\ command_worker.kind = "preset"
      /\ preset_editor.pending # None /\ preset_editor.accepted = presets.generation
      /\ editor.pending = None
      /\ ~Resting /\ Telling /\ ~Restored
      /\ Unshown <=> command_worker.changed
  BY <1>0, <1>1 DEF AnswerInv, Resting, Telling, Unshown, Restored
<1>3. queue = <<>> /\ preset_queue = <<>> /\ DistinctIds(rack)
  BY <1>0, <1>2 DEF QueueInv, Locked
<1>4. /\ preset_editor' \in Models(PresetList, PresetRequest)
      /\ preset_editor'.generation = presets.generation
      /\ preset_editor'.view = PresetView(presets)
      /\ preset_editor'.pending = None /\ preset_editor'.from = 0
  <2>1. preset_editor \in Models(PresetList, PresetRequest)
    BY DEF ControlTypes
  <2>2. presets.generation > preset_editor.generation
    BY <1>0, <1>2 DEF PresetsShown
  <2> QED BY <1>1, <1>2, <2>1, <2>2, AfterPublishGives
<1>5. /\ command_worker' \in Answers
      /\ command_worker.changed => command_worker'.pc = "snapshot" /\ command_worker'.kind = "preset"
      /\ ~command_worker.changed => command_worker'.pc = "idle"
  <2>1. CASE command_worker.changed
    BY <1>1, <1>2, <2>1 DEF ControlTypes, Answers
  <2>2. CASE ~command_worker.changed
    BY <1>1, <2>2, NoAnswerIsTyped
  <2> QED BY <2>1, <2>2
<1>6. ~Telling' /\ (Unshown' <=> command_worker.changed) /\ ~Restored'
  BY <1>5 DEF Telling, Unshown, Restored
<1>7. ControlTypes'
  BY <1>1, <1>4, <1>5 DEF ControlTypes
<1>8. QueueInv' /\ Seen'
  BY <1>0, <1>1, <1>3 DEF QueueInv, Seen
<1>9. AnswerInv'
  BY <1>5 DEF AnswerInv
<1>10. PresetsShown'
  BY <1>1, <1>4, <1>6 DEF PresetsShown
<1>11. RackShown'
  BY <1>0, <1>1, <1>2, <1>5, <1>6 DEF RackShown
<1>12. Locked'
  BY <1>1, <1>3 DEF Locked
<1> QED BY <1>7, <1>8, <1>9, <1>10, <1>11, <1>12 DEF Control

(* The Rack is shown, which ends the wait of its model; a Rack with an        *)
(* identity twice is not.                                                   *)
LEMMA PublishSnapshotKeeps ==
  ASSUME TopologyTypes, Control, PublishSnapshot
  PROVE  ControlTypes' /\ Control'
<1> USE ControlFacts
<1>0. QueueInv /\ AnswerInv /\ PresetsShown /\ RackShown /\ Locked /\ Seen
  BY DEF Control
<1>1. /\ command_worker.pc = "snapshot"
      /\ editor' = IF DistinctIds(rack) THEN AfterPublish(editor, generation, rack) ELSE editor
      /\ command_worker' = NoAnswer
      /\ setup' = setup /\ rack' = rack /\ generation' = generation /\ presets' = presets
      /\ queue' = queue /\ preset_queue' = preset_queue
      /\ preset_editor' = preset_editor /\ issued' = issued /\ stopping' = stopping
  BY DEF PublishSnapshot, tellUnchanged, presetVars
<1>2. command_worker' \in Answers /\ command_worker'.pc = "idle"
  BY <1>1, NoAnswerIsTyped
<1>3. /\ Unshown /\ ~Telling /\ ~Telling' /\ ~Unshown' /\ ~Restored' /\ Resting'
  BY <1>1, <1>2 DEF Unshown, Telling, Restored, Resting
<1>4. editor \in Models(Racks, RackRequest)
  BY DEF ControlTypes
<1>5. PresetsShown' /\ AnswerInv' /\ preset_editor' = preset_editor
  BY <1>0, <1>1, <1>2, <1>3 DEF PresetsShown, AnswerInv
<1>6. queue # <<>> => Head(queue).outdated \/ Head(queue).slot = 0
  BY <1>0, <1>1 DEF Seen
<1>7. CASE ~DistinctIds(rack)
  <2>1. editor' = editor
    BY <1>1, <1>7
  <2>2. ControlTypes'
    BY <1>1, <1>2, <2>1 DEF ControlTypes
  <2>3. QueueInv' /\ Seen'
    BY <1>0, <1>1, <1>3, <1>6, <2>1 DEF QueueInv, Seen
  <2>4. RackShown'
    BY <1>0, <1>1, <1>2, <1>3, <1>7, <2>1 DEF RackShown
  <2>5. Locked'
    BY <1>0, <1>1, <1>2, <2>1 DEF Locked
  <2> QED BY <1>5, <2>2, <2>3, <2>4, <2>5 DEF Control
<1>8. CASE DistinctIds(rack) /\ command_worker.kind = "rack"
  <2>1. /\ generation > editor.generation
        /\ editor.pending # None /\ editor.accepted = generation
        /\ ~Resting
    BY <1>0, <1>1, <1>3, <1>8 DEF RackShown, AnswerInv, Restored, Resting
  <2>2. /\ editor' \in Models(Racks, RackRequest)
        /\ editor'.generation = generation /\ editor'.view = rack
        /\ editor'.pending = None /\ editor'.from = 0 /\ editor'.accepted = 0
    BY <1>1, <1>4, <1>8, <2>1, AfterPublishGives
  <2>3. queue = <<>> /\ preset_queue = <<>>
    BY <1>0, <2>1 DEF QueueInv
  <2>4. ControlTypes'
    BY <1>1, <1>2, <2>2 DEF ControlTypes
  <2>5. QueueInv' /\ Seen'
    BY <1>0, <1>1, <2>3 DEF QueueInv, Seen
  <2>6. RackShown'
    BY <1>1, <1>2, <1>3, <2>2 DEF RackShown
  <2>7. Locked'
    BY <1>1, <1>8 DEF Locked
  <2> QED BY <1>5, <2>4, <2>5, <2>6, <2>7 DEF Control
<1>9. CASE DistinctIds(rack) /\ command_worker.kind # "rack" /\ generation > editor.generation
  <2>1. editor' = AfterPublish(editor, generation, rack)
    BY <1>1, <1>9
  <2>2. /\ editor' \in Models(Racks, RackRequest)
        /\ editor'.generation = generation /\ editor'.view = rack
        /\ editor'.from <= generation
        /\ editor.accepted = 0 => editor'.pending = editor.pending /\ editor'.accepted = 0
        /\ editor'.pending \in {editor.pending, None}
    <3>1. editor.from <= editor.generation
      BY <1>0 DEF RackShown
    <3> QED BY <1>4, <1>9, <2>1, <3>1, AfterPublishGives
  <2>3. ControlTypes'
    BY <1>1, <1>2, <2>2 DEF ControlTypes
  <2>4. QueueInv'
    BY <1>0, <1>1, <1>3, <2>2 DEF QueueInv
  <2>5. Seen'
    BY <1>1, <1>6 DEF Seen
  <2>6. RackShown'
    BY <1>1, <1>2, <1>3, <2>2 DEF RackShown
  <2>7. Locked'
    BY <1>1, <1>9 DEF Locked
  <2> QED BY <1>5, <2>3, <2>4, <2>5, <2>6, <2>7 DEF Control
<1>10. CASE DistinctIds(rack) /\ command_worker.kind # "rack" /\ ~(generation > editor.generation)
  <2>1. editor' = editor
    BY <1>1, <1>4, <1>10, AfterPublishGives
  <2>2. editor.generation = 1 /\ editor.view = <<>> /\ generation = 1
    BY <1>0, <1>3, <1>10 DEF RackShown
  <2>3. ControlTypes'
    BY <1>1, <1>2, <2>1 DEF ControlTypes
  <2>4. QueueInv' /\ Seen'
    BY <1>0, <1>1, <1>3, <1>6, <2>1 DEF QueueInv, Seen
  <2>5. RackShown'
    BY <1>0, <1>1, <1>2, <1>3, <2>1, <2>2 DEF RackShown
  <2>6. Locked'
    BY <1>1, <1>10 DEF Locked
  <2> QED BY <1>5, <2>3, <2>4, <2>5, <2>6 DEF Control
<1> QED BY <1>7, <1>8, <1>9, <1>10

(* The other steps change nothing the control invariant is about, but that    *)
(* the worker may stop or the queues may be stopped.                         *)
LEMMA OthersKeep ==
  ASSUME TopologyTypes, Control,
         WorkerStops \/ ScanEnds \/ PublishCatalog \/ Stop \/ Drawn
  PROVE  ControlTypes' /\ Control'
<1> USE ControlFacts
<1>0. QueueInv /\ AnswerInv /\ PresetsShown /\ RackShown /\ Locked /\ Seen
  BY DEF Control
<1>1. /\ setup' = setup /\ rack' = rack /\ generation' = generation /\ presets' = presets
      /\ queue' = queue /\ preset_queue' = preset_queue
      /\ editor' = editor /\ preset_editor' = preset_editor /\ issued' = issued
      /\ stopping' \in BOOLEAN
      /\ \/ command_worker' = command_worker
         \/ command_worker.pc = "idle" /\ command_worker' = [command_worker EXCEPT !.pc = "stopped"]
  <2>1. CASE WorkerStops
    BY <2>1 DEF WorkerStops, presetVars, ControlTypes
  <2>2. CASE ScanEnds \/ PublishCatalog
    BY <2>2 DEF ScanEnds, PublishCatalog, scanUnchanged, presetVars, rackVars, ControlTypes
  <2>3. CASE Stop \/ Drawn
    BY <2>3 DEF Stop, Drawn, presetVars, rackVars, ControlTypes
  <2> QED BY <2>1, <2>2, <2>3
<1>2. /\ command_worker' \in Answers
      /\ \/ command_worker' = command_worker
         \/ command_worker.pc = "idle" /\ command_worker'.pc = "stopped"
  <2>1. CASE command_worker' = command_worker
    BY <2>1 DEF ControlTypes
  <2>2. CASE command_worker.pc = "idle" /\ command_worker' = [command_worker EXCEPT !.pc = "stopped"]
    BY <2>2 DEF ControlTypes, Answers
  <2> QED BY <1>1, <2>1, <2>2
<1>3. UNCHANGED <<Unshown, Telling, Resting, Restored>>
  BY <1>2 DEF Unshown, Telling, Resting, Restored
<1>4. ControlTypes'
  BY <1>1, <1>2 DEF ControlTypes
<1>5. QueueInv'
  BY <1>0, <1>1, <1>3 DEF QueueInv
<1>6. AnswerInv'
  BY <1>0, <1>1, <1>2 DEF AnswerInv
<1>7. PresetsShown'
  BY <1>0, <1>1, <1>3 DEF PresetsShown
<1>8. RackShown'
  BY <1>0, <1>1, <1>2, <1>3 DEF RackShown
<1>9. Locked'
  BY <1>0, <1>1, <1>2 DEF Locked
<1>10. Seen'
  BY <1>0, <1>1, <1>2 DEF Seen, Find
<1> QED BY <1>4, <1>5, <1>6, <1>7, <1>8, <1>9, <1>10 DEF Control

(* The control invariant is preserved by every kind of step.                *)
LEMMA ControlStep ==
  ASSUME TopologyTypes, Control, TopologyStep
  PROVE  ControlTypes' /\ Control'
<1>1. CASE RackRefused \/ WindowOpened \/ RefreshStep
  <2>1. RackAnswered
    <3>1. CASE RackRefused
      <4>1. PICK result \in {"rejected", "failed"} : Refuse(result)
        BY <3>1 DEF RackRefused
      <4> QED BY <3>1, <4>1 DEF RackRefused, RackAnswered, Refuse, restUnchanged, rackVars
    <3>2. CASE WindowOpened
      BY <3>2 DEF WindowOpened, RackAnswered, restUnchanged
    <3>3. CASE RefreshStep
      <4>1. Command.type \in Transient
        BY <3>3 DEF RefreshStep, Transient
      <4>2. /\ Answer("accepted", generation, FALSE)
            /\ UNCHANGED <<setup, rack, generation, presets, editor, preset_editor, issued, stopping>>
        BY <3>3 DEF RefreshStep, StartRefresh, rackVars, presetVars
      <4> QED BY <3>3, <4>1, <4>2 DEF RefreshStep, RackAnswered
    <3> QED BY <1>1, <3>1, <3>2, <3>3
  <2> QED BY <2>1, AnswerKeeps
<1>2. CASE FileStep
  <2>1. PresetAccepted(FALSE)
    BY <1>2, Zenon DEF FileStep
  <2>2. rack' = rack /\ generation' = generation
    BY <1>2 DEF FileStep, rackVars
  <2> QED BY <2>1, <2>2, PresetAcceptKeeps
<1>3. CASE LoadStep
  <2>1. PresetAccepted(TRUE) /\ DistinctIds(rack') /\ generation' = generation + 1
    BY <1>3 DEF LoadStep, RackAdopted
  <2> QED BY <2>1, PresetAcceptKeeps
<1>4. CASE (\E c : RackClicked(c)) \/ (\E c : PresetClicked(c)) \/ Restore
  BY <1>4, RackClickKeeps, PresetClickKeeps, RestoreKeeps
<1>5. CASE RackEdited \/ PresetFails
  BY <1>5, EditKeeps, PresetFailsKeeps
<1>6. CASE ApplyAck \/ ApplyPresetAck \/ PublishPresets \/ PublishSnapshot
  BY <1>6, ApplyAckKeeps, ApplyPresetAckKeeps, PublishPresetsKeeps, PublishSnapshotKeeps
<1>7. CASE WorkerStops \/ ScanEnds \/ PublishCatalog \/ Stop \/ Drawn
  BY <1>7, OthersKeep
<1> QED BY <1>1, <1>2, <1>3, <1>4, <1>5, <1>6, <1>7 DEF TopologyStep

(* The control invariant holds at the start.                                *)
LEMMA ControlInit ==
  ASSUME TopologyInit
  PROVE  Control
<1>1. /\ rack = <<>> /\ generation = 1 /\ queue = <<>> /\ preset_queue = <<>>
      /\ command_worker = [NoAnswer EXCEPT !.pc = "restore"]
      /\ editor = Model(<<>>) /\ preset_editor = Model(PresetView(presets))
      /\ presets.generation = 1
  BY DEF TopologyInit
<1>2. command_worker.pc = "restore" /\ command_worker.kind = "none" /\ Len(queue) = 0 /\ Len(preset_queue) = 0
  BY <1>1 DEF NoAnswer
<1>3. /\ editor.generation = 1 /\ editor.view = <<>> /\ editor.from = 0 /\ editor.pending = None
      /\ preset_editor.generation = 1 /\ preset_editor.view = PresetView(presets)
      /\ preset_editor.from = 0
  BY <1>1 DEF Model
<1>4. ~Unshown /\ ~Telling /\ ~Restored
  BY <1>2 DEF Unshown, Telling, Restored
<1>5. QueueInv /\ AnswerInv /\ Seen
  BY <1>1, <1>2 DEF QueueInv, AnswerInv, Seen
<1>6. PresetsShown /\ RackShown
  BY <1>1, <1>3, <1>4 DEF PresetsShown, RackShown
<1>7. Locked
  BY <1>1, EmptyRack DEF Locked
<1> QED BY <1>5, <1>6, <1>7 DEF Control

-----------------------------------------------------------------------------
(* The catalog and the preset files.                                        *)

(* What the scanner has yet to publish is newer than what is on display,      *)
(* which is the catalog otherwise.                                          *)
CatalogInv ==
    /\ scanner.pc = "none" => shown_catalog = catalog /\ ~catalog.scanning
    /\ scanner.pc = "scanning" => shown_catalog = catalog /\ catalog.scanning
    /\ scanner.pc = "publishing" =>
        /\ scanner.publish = catalog /\ ~catalog.scanning
        /\ catalog.generation > shown_catalog.generation

(* A refresh, the end of the scan and its publication take turns.           *)
LEMMA CatalogInvStep ==
  ASSUME TopologyTypes, CatalogInv, TopologyStep
  PROVE  CatalogInv'
<1>0. /\ catalog \in PluginCatalog /\ shown_catalog \in PluginCatalog
      /\ catalog.generation \in Nat /\ shown_catalog.generation \in Nat
      /\ scanner \in [pc : {"none", "scanning", "publishing"}, publish : PluginCatalog]
  BY DEF TopologyTypes, PluginCatalog
<1>1. CASE RefreshStep
  <2>1. /\ catalog' = [catalog EXCEPT !.scanning = TRUE, !.generation = @ + 1]
        /\ shown_catalog' = catalog'
        /\ scanner' = [scanner EXCEPT !.pc = "scanning"]
    BY <1>1 DEF RefreshStep, StartRefresh
  <2>2. scanner'.pc = "scanning"
    BY <1>0, <2>1
  <2>3. catalog'.scanning
    BY <2>1, <1>0 DEF PluginCatalog
  <2> QED BY <2>1, <2>2, <2>3 DEF CatalogInv
<1>2. CASE ScanEnds
  <2>1. scanner' = [pc |-> "publishing", publish |-> catalog'] /\ shown_catalog' = shown_catalog
        /\ scanner.pc = "scanning"
    BY <1>2 DEF ScanEnds
  <2>2. \/ catalog' = [catalog EXCEPT !.scanning = FALSE, !.generation = @ + 1]
        \/ \E found : catalog' = [generation |-> catalog.generation + 2, entries |-> found,
                                   scanning |-> FALSE]
    BY <1>2 DEF ScanEnds
  <2>3. ~catalog'.scanning /\ catalog'.generation \in {catalog.generation + 1, catalog.generation + 2}
    <3>1. CASE catalog' = [catalog EXCEPT !.scanning = FALSE, !.generation = @ + 1]
      <4>1. ~catalog'.scanning /\ catalog'.generation = catalog.generation + 1
        BY ONLY <1>0, <3>1, ScanFails, Zenon
      <4> QED BY <4>1
    <3>2. CASE \E found : catalog' = [generation |-> catalog.generation + 2, entries |-> found,
                                      scanning |-> FALSE]
      BY <3>2
    <3> QED BY <2>2, <3>1, <3>2
  <2>5. catalog'.generation > shown_catalog'.generation
    BY <1>0, <2>1, <2>3 DEF CatalogInv
  <2>6. scanner'.pc = "publishing" /\ scanner'.publish = catalog'
    BY <2>1
  <2> QED BY <2>3, <2>5, <2>6 DEF CatalogInv
<1>3. CASE PublishCatalog
  <2>1. /\ scanner.pc = "publishing" /\ scanner' = [scanner EXCEPT !.pc = "none"] /\ catalog' = catalog
        /\ shown_catalog' = IF scanner.publish.generation > shown_catalog.generation
                            THEN scanner.publish ELSE shown_catalog
    BY <1>3 DEF PublishCatalog
  <2>2. scanner'.pc = "none" /\ shown_catalog' = catalog
    BY <1>0, <2>1 DEF CatalogInv
  <2> QED BY <2>1, <2>2 DEF CatalogInv
<1>4. CASE ~RefreshStep /\ ~ScanEnds /\ ~PublishCatalog
  BY <1>4, CatalogAlone DEF CatalogInv
<1> QED BY <1>1, <1>2, <1>3, <1>4

(* A listed preset has its file.                                            *)
LEMMA LibraryInvStep ==
  ASSUME TopologyTypes, LibraryInv, TopologyStep
  PROVE  LibraryInv'
<1>1. CASE FileStep \/ LoadStep
  <2>1. PICK changed \in BOOLEAN : PresetAccepted(changed)
    BY <1>1 DEF FileStep, LoadStep
  <2>2. PICK entries \in SUBSET Listing, active \in Listing \cup {None} :
            Accept(entries, active, changed) /\ \A e \in entries : library'[e.id] # None
    BY <2>1 DEF PresetAccepted
  <2>3. presets'.entries = entries
    BY <2>2 DEF Accept
  <2> QED BY <2>2, <2>3 DEF LibraryInv
<1>2. CASE ~FileStep /\ ~LoadStep
  BY <1>2, FilesAlone DEF LibraryInv
<1> QED BY <1>1, <1>2

(* The catalog is on display and every listed preset has its file at the start.*)
LEMMA FilesInit ==
  ASSUME TopologyInit
  PROVE  CatalogInv /\ LibraryInv
<1>1. CatalogInv
  <2>1. scanner.pc = "none" /\ shown_catalog = catalog
        /\ catalog = [EmptyCatalog EXCEPT !.entries = setup.installed]
    BY DEF TopologyInit
  <2>2. ~catalog.scanning
    BY <2>1 DEF EmptyCatalog
  <2> QED BY <2>1, <2>2 DEF CatalogInv
<1>2. LibraryInv
  <2> SUFFICES ASSUME NEW e \in presets.entries PROVE library[e.id] # None
    BY DEF LibraryInv
  <2>1. presets.entries =
          {[id |-> p, name |-> library[p].name] : p \in {q \in Presets : library[q] # None}}
    BY DEF TopologyInit
  <2>2. PICK p \in {q \in Presets : library[q] # None} : e = [id |-> p, name |-> library[p].name]
    BY <2>1
  <2> QED BY <2>2
<1> QED BY <1>1, <1>2

(* All the types, from those of the parts.                                  *)
LEMMA TypesStep ==
  ASSUME TopologyTypes, Control, TopologyStep
  PROVE  TopologyTypes'
<1>1. SlotTypes' /\ CatalogTypes' /\ FileTypes' /\ ControlTypes' /\ frame' \in Frames
  BY SlotTypesStep, CatalogTypesStep, FileTypesStep, ControlStep, FrameTypesStep
<1> QED BY <1>1 DEF TopologyTypes, SlotTypes, CatalogTypes, FileTypes, ControlTypes

-----------------------------------------------------------------------------
(* What the helper keeps beside the slots.                                   *)

(* The Rack is left alone, edited, adopted, or shown.                        *)
LEMMA RackMoves ==
  ASSUME TopologyTypes, TopologyStep
  PROVE  \/ UNCHANGED <<rack, missing_states>>
         \/ RackEdited
         \/ \E number : RackAdopted(number)
         \/ PublishSnapshot
<1>0. setup \in Setups
  BY DEF TopologyTypes
<1>1. CASE (\E c : RackClicked(c)) \/ (\E c : PresetClicked(c))
  BY <1>1 DEF RackClicked, PresetClicked, rackVars
<1>2. CASE Restore
  <2>1. CASE setup.session # None /\ Adopt(setup.session.slots, setup.session.generation)
    <3>1. setup.session.slots \in SavedSlots
      BY <1>0, <2>1, SetupAssumption
    <3> QED BY <2>1, <3>1, AdoptBuilds
  <2> QED BY <1>2, <2>1 DEF Restore, rackVars
<1>3. CASE RackRefused \/ WindowOpened \/ RefreshStep
  BY <1>3 DEF RackRefused, Refuse, WindowOpened, RefreshStep, StartRefresh, rackVars
<1>4. CASE PresetFails \/ FileStep \/ LoadStep
  BY <1>4 DEF PresetFails, FileStep, LoadStep, rackVars
<1>5. CASE ApplyAck \/ ApplyPresetAck \/ PublishPresets \/ WorkerStops
  BY <1>5 DEF ApplyAck, ApplyPresetAck, PublishPresets, tellUnchanged, WorkerStops
<1>6. CASE ScanEnds \/ PublishCatalog \/ Stop \/ Drawn
  BY <1>6 DEF ScanEnds, PublishCatalog, scanUnchanged, Stop, Drawn, rackVars
<1> QED BY <1>1, <1>2, <1>3, <1>4, <1>5, <1>6 DEF TopologyStep

(* No edit makes a placeholder, a Rack that is built keeps the states it was  *)
(* built from, and what is pruned is no placeholder's.                       *)
LEMMA PlaceholdersKeptStep ==
  ASSUME TopologyTypes, Control, PlaceholdersKept, TopologyStep
  PROVE  PlaceholdersKept'
<1>0. rack \in Seq(Slot)
  BY DEF TopologyTypes, Racks
<1>1. CASE UNCHANGED <<rack, missing_states>>
  BY <1>1 DEF PlaceholdersKept
<1>2. CASE RackEdited
  <2>1. DistinctIds(rack)
    BY <1>2, WhenTaken DEF RackEdited
  <2>2. KeepsPlaceholders(rack, rack') /\ missing_states' = missing_states
    BY <1>2 DEF RackEdited, IsEdit
  <2> SUFFICES ASSUME NEW j \in DOMAIN rack', ~rack'[j].live
               PROVE  \E m \in missing_states : m.id = rack'[j].id /\ m.plug = rack'[j].plug
    BY <2>2 DEF PlaceholdersKept
  <2>3. PICK k \in DOMAIN rack : ~rack[k].live /\ rack[k].id = rack'[j].id /\ rack[k].plug = rack'[j].plug
    BY <2>2 DEF KeepsPlaceholders
  <2>4. PICK m \in missing_states : m.id = rack[k].id /\ m.plug = rack[k].plug
    BY <2>1, <2>3 DEF PlaceholdersKept
  <2> QED BY <2>3, <2>4
<1>3. CASE \E number : RackAdopted(number)
  BY <1>3 DEF RackAdopted
<1>4. CASE PublishSnapshot
  <2>1. rack' = rack /\ missing_states' \in {Pruned, missing_states}
    BY <1>4 DEF PublishSnapshot, tellUnchanged
  <2>2. CASE missing_states' = Pruned
    <3> SUFFICES ASSUME DistinctIds(rack), NEW i \in DOMAIN rack, ~rack[i].live
                 PROVE  \E m \in Pruned : m.id = rack[i].id /\ m.plug = rack[i].plug
      BY <2>1, <2>2 DEF PlaceholdersKept
    <3>1. PICK m \in missing_states : m.id = rack[i].id /\ m.plug = rack[i].plug
      BY DEF PlaceholdersKept
    <3>2. m.id \in Nat
      BY DEF TopologyTypes, SavedSlot
    <3>3. /\ Find(m.id) \in 0 .. Len(rack)
          /\ Find(m.id) # 0 => rack[Find(m.id)].id = m.id
          /\ Find(m.id) = 0 => \A l \in DOMAIN rack : rack[l].id # m.id
      BY <1>0, <3>2, FindFinds DEF Find
    <3>4. Find(m.id) # 0 /\ Find(m.id) \in DOMAIN rack
      BY <1>0, <3>1, <3>3
    <3>5. Find(m.id) = i
      BY <3>1, <3>3, <3>4 DEF DistinctIds
    <3>6. m \in Pruned
      BY <3>4, <3>5 DEF Pruned
    <3> QED BY <3>1, <3>6
  <2>3. CASE missing_states' = missing_states
    BY <2>1, <2>3 DEF PlaceholdersKept
  <2> QED BY <2>1, <2>2, <2>3
<1> QED BY <1>1, <1>2, <1>3, <1>4, RackMoves

(* A window is opened on a plug-in that is there, and goes before it.         *)
LEMMA WindowsStep ==
  ASSUME TopologyTypes, Control, WindowsOnLivePlugins, TopologyStep
  PROVE  WindowsOnLivePlugins'
<1>0. rack \in Seq(Slot)
  BY DEF TopologyTypes, Racks
<1>1. CASE rack' = rack /\ windows' \in {windows, {}}
  BY <1>1 DEF WindowsOnLivePlugins
<1>2. CASE RackEdited
  <2>1. PICK gone \in Nat : IsEdit(rack, rack', gone) /\ (gone = 0 \/ \A w \in windows' : w.slot # gone)
    BY <1>2 DEF RackEdited
  <2> SUFFICES ASSUME NEW w \in windows'
               PROVE  \E j \in DOMAIN rack' : rack'[j].live /\ rack'[j].id = w.slot /\ rack'[j].unit = w.unit
    BY DEF WindowsOnLivePlugins
  <2>2. w \in windows
    BY <1>2 DEF RackEdited
  <2>3. PICK i \in DOMAIN rack : rack[i].live /\ rack[i].id = w.slot /\ rack[i].unit = w.unit
    BY <2>2 DEF WindowsOnLivePlugins
  <2>4. rack[i].id # 0
    <3>1. rack[i] \in Slot
      BY <1>0
    <3> QED BY <3>1 DEF Slot
  <2>5. rack[i].id # gone
    BY <2>1, <2>3, <2>4
  <2> QED BY <2>1, <2>3, <2>5 DEF IsEdit, KeepsOccupants
<1>3. CASE \E number : RackAdopted(number)
  BY <1>3 DEF RackAdopted, WindowsOnLivePlugins
<1>4. CASE WindowOpened
  BY <1>4 DEF WindowOpened, WindowsOnLivePlugins
<1>5. CASE PublishSnapshot
  BY <1>1, <1>5 DEF PublishSnapshot, tellUnchanged
<1>6. CASE UNCHANGED <<rack, missing_states>> /\ ~WindowOpened
  <2>1. CASE (\E c : RackClicked(c)) \/ (\E c : PresetClicked(c))
    BY <1>1, <2>1 DEF RackClicked, PresetClicked, rackVars
  <2>2. CASE Restore
    <3>1. CASE UNCHANGED rackVars
      BY <1>1, <3>1 DEF rackVars
    <3>2. CASE setup.session # None /\ Adopt(setup.session.slots, setup.session.generation)
      <4>1. windows' = {}
        BY <3>2 DEF Adopt
      <4> QED BY <4>1 DEF WindowsOnLivePlugins
    <3> QED BY <2>2, <3>1, <3>2 DEF Restore
  <2>3. CASE RackRefused \/ RefreshStep
    BY <1>1, <2>3 DEF RackRefused, Refuse, RefreshStep, StartRefresh, rackVars
  <2>4. CASE RackEdited \/ LoadStep
    BY <1>2, <1>3, <2>4 DEF LoadStep
  <2>5. CASE PresetFails \/ FileStep
    BY <1>1, <2>5 DEF PresetFails, FileStep, rackVars
  <2>6. CASE ApplyAck \/ ApplyPresetAck \/ PublishPresets \/ PublishSnapshot \/ WorkerStops
    BY <1>1, <1>6, <2>6 DEF ApplyAck, ApplyPresetAck, PublishPresets, PublishSnapshot, tellUnchanged, WorkerStops
  <2>7. CASE ScanEnds \/ PublishCatalog \/ Stop \/ Drawn
    BY <1>1, <2>7 DEF ScanEnds, PublishCatalog, scanUnchanged, Stop, Drawn, rackVars
  <2> QED BY <1>6, <2>1, <2>2, <2>3, <2>4, <2>5, <2>6, <2>7 DEF TopologyStep
<1> QED BY <1>2, <1>3, <1>4, <1>5, <1>6, RackMoves

-----------------------------------------------------------------------------
(* The theorems.                                                            *)

TopologyInv == TopologyTypes /\ Control /\ CatalogInv /\ LibraryInv /\ RackCoherent

(* The invariant the theorems rest on: the types, what the worker and the     *)
(* models know of each other, and what the helper keeps beside the Rack.     *)
THEOREM TopologySafety == TopologySpec => []TopologyInv
<1>1. ASSUME TopologyInit PROVE TopologyInv
  <2>1. TopologyTypes /\ Control /\ CatalogInv /\ LibraryInv
    BY <1>1, TypesInit, ControlInit, FilesInit
  <2>2. rack = <<>> /\ windows = {}
    BY <1>1 DEF TopologyInit
  <2>3. DOMAIN rack = {}
    BY <2>2
  <2>4. RackCoherent
    BY <2>2, <2>3 DEF RackCoherent, PlaceholdersKept, WindowsOnLivePlugins
  <2> QED BY <2>1, <2>4 DEF TopologyInv
<1>2. ASSUME TopologyInv, [TopologyNext]_topologyVars PROVE TopologyInv'
  <2>1. /\ TopologyTypes /\ Control /\ CatalogInv /\ LibraryInv
        /\ PlaceholdersKept /\ WindowsOnLivePlugins
    BY <1>2 DEF TopologyInv, RackCoherent
  <2>2. TopologyStep
    BY <1>2, <2>1, NextIsStep
  <2>3. TopologyTypes' /\ Control'
    BY <2>1, <2>2, TypesStep, ControlStep
  <2>4. CatalogInv' /\ LibraryInv'
    BY <2>1, <2>2, CatalogInvStep, LibraryInvStep
  <2>5. PlaceholdersKept' /\ WindowsOnLivePlugins'
    BY <2>1, <2>2, PlaceholdersKeptStep, WindowsStep
  <2> QED BY <2>3, <2>4, <2>5 DEF TopologyInv, RackCoherent
<1> QED BY <1>1, <1>2, PTL DEF TopologySpec

(* The Rack never has more slots than kRackMaxSlots, a slot has a plug-in     *)
(* exactly when it is ready, no publication is ahead of its publisher, and    *)
(* one command at most is queued.                                           *)
THEOREM TopologyTyped == TopologySpec => []TopologyTypeOK
<1>1. ASSUME TopologyInv PROVE TopologyTypeOK
  <2>1. TopologyTypes /\ QueueInv /\ AnswerInv /\ PresetsShown /\ RackShown /\ Locked /\ CatalogInv
    BY <1>1 DEF TopologyInv, Control
  <2> USE <2>1, ControlFacts
  <2>2. Len(queue) + Len(preset_queue) <= 1
    <3>1. Len(queue) \in Nat /\ Len(preset_queue) \in Nat /\ Len(queue) <= 1 /\ Len(preset_queue) <= 1
      BY DEF ControlTypes, QueueInv
    <3>2. CASE queue # <<>> /\ preset_queue # <<>>
      <4>1. Head(queue) \in RackRequest /\ editor.pending = Head(queue) /\ editor.pending = None
        BY <3>2 DEF QueueInv, ControlTypes
      <4> QED BY <4>1, RequestsAreNotNone
    <3>3. CASE queue = <<>> \/ preset_queue = <<>>
      <4>1. Len(queue) = 0 \/ Len(preset_queue) = 0
        BY <3>3
      <4> QED BY <3>1, <4>1
    <3> QED BY <3>2, <3>3
  <2>3. catalog.generation >= shown_catalog.generation
    BY DEF TopologyTypes, CatalogInv, PluginCatalog
  <2>4. editor.generation <= generation
    BY DEF Locked, RackShown
  <2>5. preset_editor.generation <= presets.generation
    BY DEF PresetsShown
  <2> QED BY <2>2, <2>3, <2>4, <2>5 DEF TopologyTypeOK
<1> QED BY <1>1, TopologySafety, PTL

(* A slot without a plug-in has the state it was saved with, and every vendor *)
(* window is on the plug-in its slot holds.                                 *)
THEOREM RackStaysCoherent == TopologySpec => []RackCoherent
<1>1. TopologyInv => RackCoherent
  BY DEF TopologyInv
<1> QED BY <1>1, TopologySafety, PTL

(* With nothing under way the editor shows the Rack, the presets and the      *)
(* catalog as they are, with the exceptions EditorShowsRack names.           *)
THEOREM EditorShown == TopologySpec => []EditorShowsRack
<1>1. ASSUME TopologyInv PROVE EditorShowsRack
  <2>1. TopologyTypes /\ PresetsShown /\ RackShown /\ Locked /\ CatalogInv
    BY <1>1 DEF TopologyInv, Control
  <2> SUFFICES ASSUME Quiet
               PROVE  /\ DistinctIds(rack) =>
                            generation = 1 \/ (editor.view = rack /\ editor.generation = generation)
                      /\ ~DistinctIds(rack) => editor.pending # None
                      /\ preset_editor.view = PresetView(presets)
                      /\ shown_catalog = catalog
    BY DEF EditorShowsRack
  <2>2. command_worker.pc = "idle" /\ scanner.pc = "none"
    BY DEF Quiet
  <2>3. ~Unshown /\ ~Telling
    BY <2>2 DEF Unshown, Telling
  <2> QED BY <2>1, <2>2, <2>3 DEF PresetsShown, RackShown, Locked, CatalogInv
<1> QED BY <1>1, TopologySafety, PTL

(* A command acts on the occupant in the frame that was clicked, unless that  *)
(* frame was behind the Rack at that slot.                                  *)
THEOREM EditsHitSeenSlots == TopologySpec => EditHitsSeenSlot
<1>1. TopologyInv => HitsSeenSlot
  BY DEF TopologyInv, Control, Seen, HitsSeenSlot, Command
<1> QED BY <1>1, TopologySafety, PTL DEF EditHitsSeenSlot

-----------------------------------------------------------------------------
(* RackChain: the chain of the audio thread.                                *)

USE AttemptsAssumption, BoundAssumption

SomeEdit ==
    \/ RestoreSession
    \/ LoadPreset
    \/ AddSlot
    \/ MoveSlot
    \/ SetBypass
    \/ RemoveSlot
    \/ ReplaceSlot

(* What the seven edits have in common: they keep or drop plug-ins that are  *)
(* there, add the ones they open, and go on from the published number.      *)
EditWith(s, b, fresh, number, reap) ==
    /\ Prepare(s, b, fresh, number, reap)
    /\ worker \in {"restore", "idle", "execute"}
    /\ fresh \subseteq s
    /\ s \subseteq slots \cup fresh
    /\ number >= generations[published_index].number

LEMMA EditIsPrepare ==
  ASSUME TypeOK, DraftInv, SomeEdit
  PROVE  \E s, b, fresh \in SUBSET Plugins : \E number \in Nat : \E reap \in BOOLEAN :
            EditWith(s, b, fresh, number, reap)
<1>1. generations[published_index].number \in Nat
  BY DEF TypeOK, Generation
<1>2. NextNumber \in Nat /\ NextNumber >= generations[published_index].number
  BY <1>1 DEF NextNumber
<1>3. CASE RestoreSession
  <2>1. PICK restored \in SUBSET Plugins : \E b \in SUBSET restored :
                \E number \in 1 .. MaxGeneration : Prepare(restored, b, restored,
                    number, FALSE)
    BY <1>3 DEF RestoreSession
  <2>2. PICK b \in SUBSET restored, number \in 1 .. MaxGeneration :
                Prepare(restored, b, restored, number, FALSE)
    BY <2>1
  <2>3. worker = "restore" /\ number >= generations[published_index].number
    BY <1>3, <2>2 DEF RestoreSession, DraftInv
  <2>4. EditWith(restored, b, restored, number, FALSE)
    BY <2>2, <2>3 DEF EditWith
  <2>5. b \in SUBSET Plugins /\ number \in Nat
    OBVIOUS
  <2> QED BY <2>4, <2>5
<1>4. CASE LoadPreset
  <2>1. PICK loaded \in SUBSET Plugins, b \in SUBSET Plugins :
                Prepare(loaded, b, loaded, NextNumber, TRUE)
    BY <1>4 DEF LoadPreset
  <2>2. EditWith(loaded, b, loaded, NextNumber, TRUE)
    BY <1>2, <1>4, <2>1 DEF EditWith, LoadPreset
  <2> QED BY <1>2, <2>2
<1>5. CASE AddSlot
  <2>1. PICK p \in Plugins : Prepare(slots \cup {p}, bypassed, {p}, NextNumber, FALSE)
    BY <1>5 DEF AddSlot
  <2>2. EditWith(slots \cup {p}, bypassed, {p}, NextNumber, FALSE)
    BY <1>2, <1>5, <2>1 DEF EditWith, AddSlot
  <2> QED BY <1>2, <2>2 DEF TypeOK
<1>6. CASE MoveSlot
  <2>1. EditWith(slots, bypassed, {}, NextNumber, FALSE)
    BY <1>2, <1>6 DEF EditWith, MoveSlot
  <2> QED BY <1>2, <2>1 DEF TypeOK
<1>7. CASE SetBypass
  <2>1. PICK b \in SUBSET Plugins : Prepare(slots, b, {}, NextNumber, FALSE)
    BY <1>7 DEF SetBypass, TypeOK
  <2>2. EditWith(slots, b, {}, NextNumber, FALSE)
    BY <1>2, <1>7, <2>1 DEF EditWith, SetBypass
  <2> QED BY <1>2, <2>2 DEF TypeOK
<1>8. CASE RemoveSlot
  <2>1. PICK removed : Prepare(slots \ removed, bypassed \ removed, {}, NextNumber, TRUE)
    BY <1>8 DEF RemoveSlot
  <2>2. EditWith(slots \ removed, bypassed \ removed, {}, NextNumber, TRUE)
    BY <1>2, <1>8, <2>1 DEF EditWith, RemoveSlot
  <2>3. slots \ removed \in SUBSET Plugins /\ bypassed \ removed \in SUBSET Plugins
    BY DEF TypeOK
  <2> QED BY <1>2, <2>2, <2>3
<1>9. CASE ReplaceSlot
  <2>1. PICK q \in Plugins, s \in SUBSET Plugins, b \in SUBSET Plugins :
                /\ Prepare(s, b, {q}, NextNumber, TRUE)
                /\ q \in s
                /\ s \subseteq slots \cup {q}
    <3>1. PICK q \in Plugins :
            \/ \E p \in slots :
                  Prepare((slots \ {p}) \cup {q},
                          IF p \in bypassed THEN (bypassed \ {p}) \cup {q} ELSE bypassed,
                          {q}, NextNumber, TRUE)
            \/ \E b \in {bypassed, bypassed \cup {q}} :
                  Prepare(slots \cup {q}, b, {q}, NextNumber, TRUE)
      BY <1>9 DEF ReplaceSlot
    <3>2. CASE \E p \in slots :
                  Prepare((slots \ {p}) \cup {q},
                          IF p \in bypassed THEN (bypassed \ {p}) \cup {q} ELSE bypassed,
                          {q}, NextNumber, TRUE)
      <4>1. PICK p \in slots :
                  Prepare((slots \ {p}) \cup {q},
                          IF p \in bypassed THEN (bypassed \ {p}) \cup {q} ELSE bypassed,
                          {q}, NextNumber, TRUE)
        BY <3>2
      <4>2. (IF p \in bypassed THEN (bypassed \ {p}) \cup {q} ELSE bypassed) \in
          SUBSET Plugins
        BY DEF TypeOK
      <4>3. (slots \ {p}) \cup {q} \in SUBSET Plugins
        BY DEF TypeOK
      <4> QED BY <4>1, <4>2, <4>3
    <3>3. CASE \E b \in {bypassed, bypassed \cup {q}} :
                  Prepare(slots \cup {q}, b, {q}, NextNumber, TRUE)
      <4>1. PICK b \in {bypassed, bypassed \cup {q}} :
                  Prepare(slots \cup {q}, b, {q}, NextNumber, TRUE)
        BY <3>3
      <4>2. b \in SUBSET Plugins /\ slots \cup {q} \in SUBSET Plugins
        BY DEF TypeOK
      <4> QED BY <4>1, <4>2
    <3> QED BY <3>1, <3>2, <3>3
  <2>2. EditWith(s, b, {q}, NextNumber, TRUE)
    BY <1>2, <1>9, <2>1 DEF EditWith, ReplaceSlot
  <2> QED BY <1>2, <2>1, <2>2
<1> QED BY <1>3, <1>4, <1>5, <1>6, <1>7, <1>8, <1>9 DEF SomeEdit

(* Every step keeps the types. *)
LEMMA TypeStep ==
  ASSUME TypeOK, ReadersInv, DraftInv, [Next]_vars
  PROVE  TypeOK'
<1>1. ASSUME SomeEdit PROVE TypeOK'
  <2>1. PICK s, b, fresh \in SUBSET Plugins, number \in Nat, reap \in BOOLEAN :
                EditWith(s, b, fresh, number, reap)
    BY <1>1, EditIsPrepare
  <2>2. draft' \in [slots : SUBSET Plugins, bypassed : SUBSET Plugins, fresh : SUBSET
      Plugins,
                     number : 0 .. MaxGeneration, reap : BOOLEAN]
    BY <2>1 DEF EditWith, Prepare, Edit
  <2> QED BY <2>1, <2>2 DEF EditWith, Prepare, storeVars, dspVars, TypeOK
<1>2. ASSUME SkipRestore PROVE TypeOK'
  BY <1>2 DEF SkipRestore, stateVars, storeVars, dspVars, TypeOK
<1>3. ASSUME BeginCommand PROVE TypeOK'
  BY <1>3 DEF BeginCommand, storeVars, dspVars, TypeOK
<1>4. ASSUME ReapEntry PROVE TypeOK'
  <2>1. PICK old \in unchecked :
            /\ unchecked' = unchecked \ {old}
            /\ \/ opened' = opened \ {old.plugin} /\ retired' = retired \ {old}
               \/ UNCHANGED <<opened, retired>>
    BY <1>4 DEF ReapEntry
  <2>2. unchecked' \in SUBSET retired' /\ opened' \in SUBSET Plugins
        /\ retired' \in SUBSET [plugin : Plugins, index : Indices]
    BY <2>1 DEF TypeOK
  <2> QED BY <1>4, <2>2 DEF ReapEntry, storeVars, dspVars, TypeOK
<1>5. ASSUME EndReap PROVE TypeOK'
  BY <1>5 DEF EndReap, stateVars, storeVars, dspVars, TypeOK
<1>6. ASSUME RejectCommand PROVE TypeOK'
  BY <1>6 DEF RejectCommand, stateVars, storeVars, dspVars, TypeOK
<1>7. ASSUME ReserveCommit PROVE TypeOK'
  BY <1>7 DEF ReserveCommit, stateVars, storeVars, dspVars, TypeOK
<1>8. ASSUME ReserveTimeout PROVE TypeOK'
  <2>1. draft' \in [slots : SUBSET Plugins, bypassed : SUBSET Plugins, fresh : SUBSET
      Plugins,
                     number : 0 .. MaxGeneration, reap : BOOLEAN]
    BY <1>8 DEF ReserveTimeout, NoEdit, Edit
  <2> QED BY <1>8, <2>1 DEF ReserveTimeout, storeVars, dspVars, TypeOK
<1>9. ASSUME ClearGeneration PROVE TypeOK'
  <2>1. generations' \in [Indices -> Generation]
    <3>1. EmptyGeneration \in Generation
      BY DEF TypeOK, Generation, EmptyGeneration
    <3> QED BY <1>9, <3>1 DEF ClearGeneration, TypeOK
  <2> QED BY <1>9, <2>1 DEF ClearGeneration, stateVars, dspVars, TypeOK
<1>10. ASSUME BuildGeneration PROVE TypeOK'
  <2>1. generations' \in [Indices -> Generation]
    <3>1. [number |-> draft.number, plugins |-> draft.slots \ draft.bypassed] \in
        Generation
      BY DEF TypeOK, Generation, EmptyGeneration
    <3> QED BY <1>10, <3>1 DEF BuildGeneration, TypeOK
  <2> QED BY <1>10, <2>1 DEF BuildGeneration, stateVars, dspVars, TypeOK
<1>11. ASSUME PublishGeneration PROVE TypeOK'
  <2>1. retired' \in SUBSET [plugin : Plugins, index : Indices]
    BY <1>11 DEF PublishGeneration, TypeOK
  <2>2. unchecked' \in SUBSET retired'
    BY <1>11 DEF PublishGeneration, TypeOK
  <2>3. draft' \in [slots : SUBSET Plugins, bypassed : SUBSET Plugins, fresh : SUBSET
      Plugins,
                     number : 0 .. MaxGeneration, reap : BOOLEAN]
    BY <1>11 DEF PublishGeneration, NoEdit, Edit
  <2>4. published_index' \in Indices /\ slots' \in SUBSET Plugins /\ bypassed' \in
      SUBSET Plugins
    BY <1>11 DEF PublishGeneration, TypeOK, Indices, Other
  <2>5. worker' \in {"idle", "reap_again"}
    BY <1>11 DEF PublishGeneration
  <2> QED BY <1>11, <2>1, <2>2, <2>3, <2>4, <2>5 DEF PublishGeneration, dspVars, TypeOK
<1>12. ASSUME BeginBlock PROVE TypeOK'
  BY <1>12 DEF BeginBlock, stateVars, storeVars, TypeOK
<1>13. ASSUME LoadIndex PROVE TypeOK'
  BY <1>13 DEF LoadIndex, stateVars, storeVars, TypeOK
<1>14. ASSUME EnterGeneration PROVE TypeOK'
  <2>1. readers[index] = 0
    BY <1>14 DEF EnterGeneration, ReadersInv, TypeOK
  <2>2. readers' \in [Indices -> 0 .. 1]
    BY <1>14, <2>1 DEF EnterGeneration, TypeOK
  <2> QED BY <1>14, <2>2 DEF EnterGeneration, stateVars, storeVars, TypeOK
<1>15. ASSUME RecheckIndex PROVE TypeOK'
  BY <1>15 DEF RecheckIndex, stateVars, storeVars, TypeOK
<1>16. ASSUME LeaveGeneration PROVE TypeOK'
  <2>1. readers[index] = 1
    BY <1>16 DEF LeaveGeneration, ReadersInv, TypeOK
  <2>2. readers' \in [Indices -> 0 .. 1]
    BY <1>16, <2>1 DEF LeaveGeneration, TypeOK
  <2>3. attempt' \in 0 .. MaxAttempts
    BY <1>16 DEF LeaveGeneration, TypeOK, ReadersInv
  <2> QED BY <1>16, <2>2, <2>3 DEF LeaveGeneration, stateVars, storeVars, TypeOK
<1>17. ASSUME ProcessSlot PROVE TypeOK'
  <2>1. visited' \in SUBSET Plugins
    <3>1. generations[index].plugins \in SUBSET Plugins
      BY DEF TypeOK, Generation
    <3> QED BY <1>17, <3>1 DEF ProcessSlot, TypeOK
  <2>2. dsp' \in {"walk", "release"}
    BY <1>17 DEF ProcessSlot
  <2> QED BY <1>17, <2>1, <2>2 DEF ProcessSlot, stateVars, storeVars, TypeOK
<1>18. ASSUME EndBlock PROVE TypeOK'
  BY <1>18 DEF EndBlock, stateVars, storeVars, TypeOK
<1>19. ASSUME ReleaseGeneration PROVE TypeOK'
  <2>1. readers[index] = 1
    BY <1>19 DEF ReleaseGeneration, ReadersInv, TypeOK
  <2>2. readers' \in [Indices -> 0 .. 1]
    BY <1>19, <2>1 DEF ReleaseGeneration, TypeOK
  <2> QED BY <1>19, <2>2 DEF ReleaseGeneration, stateVars, storeVars, TypeOK
<1>20. ASSUME RequestShutdown PROVE TypeOK'
  BY <1>20 DEF RequestShutdown, stateVars, storeVars, dspVars, TypeOK
<1>21. ASSUME DspExit PROVE TypeOK'
  BY <1>21 DEF DspExit, stateVars, storeVars, TypeOK
<1>22. ASSUME WorkerExit PROVE TypeOK'
  BY <1>22 DEF WorkerExit, stateVars, storeVars, dspVars, TypeOK
<1>23. ASSUME CloseState PROVE TypeOK'
  <2>1. unchecked = {}
    BY <1>23 DEF CloseState, DraftInv
  <2> QED BY <1>23, <2>1 DEF CloseState, storeVars, dspVars, TypeOK
<1>24. ASSUME UNCHANGED vars PROVE TypeOK'
  BY <1>24 DEF vars, stateVars, storeVars, dspVars, TypeOK
<1> QED BY <1>1, <1>2, <1>3, <1>4, <1>5, <1>6, <1>7, <1>8, <1>9, <1>10, <1>11, <1>12,
    <1>13, <1>14, <1>15, <1>16, <1>17, <1>18, <1>19, <1>20, <1>21, <1>22, <1>23, <1>24 DEF
    Next, WorkerStep, DspStep, SomeEdit

(* The counts are those of the one block there is. *)
LEMMA ReadersStep ==
  ASSUME TypeOK, ReadersInv, [Next]_vars
  PROVE  ReadersInv'
<1>1. ASSUME SomeEdit PROVE ReadersInv'
  BY <1>1 DEF SomeEdit, RestoreSession, LoadPreset, AddSlot, MoveSlot, SetBypass,
      RemoveSlot, ReplaceSlot, Prepare, dspVars, ReadersInv
<1>2. ASSUME BeginBlock PROVE ReadersInv'
  BY <1>2 DEF BeginBlock, stateVars, storeVars, ReadersInv, TypeOK, Indices
<1>3. ASSUME LoadIndex PROVE ReadersInv'
  BY <1>3 DEF LoadIndex, stateVars, storeVars, ReadersInv, TypeOK, Indices
<1>4. ASSUME EnterGeneration PROVE ReadersInv'
  BY <1>4 DEF EnterGeneration, stateVars, storeVars, ReadersInv, TypeOK, Indices
<1>5. ASSUME RecheckIndex PROVE ReadersInv'
  BY <1>5 DEF RecheckIndex, stateVars, storeVars, ReadersInv, TypeOK, Indices
<1>6. ASSUME LeaveGeneration PROVE ReadersInv'
  BY <1>6 DEF LeaveGeneration, stateVars, storeVars, ReadersInv, TypeOK, Indices
<1>7. ASSUME ProcessSlot PROVE ReadersInv'
  BY <1>7 DEF ProcessSlot, stateVars, storeVars, ReadersInv, TypeOK, Indices
<1>8. ASSUME EndBlock PROVE ReadersInv'
  BY <1>8 DEF EndBlock, stateVars, storeVars, ReadersInv, TypeOK, Indices
<1>9. ASSUME ReleaseGeneration PROVE ReadersInv'
  BY <1>9 DEF ReleaseGeneration, stateVars, storeVars, ReadersInv, TypeOK, Indices
<1>10. ASSUME DspExit PROVE ReadersInv'
  BY <1>10 DEF DspExit, stateVars, storeVars, ReadersInv, TypeOK, Indices
<1>11. ASSUME \/ SkipRestore
            \/ BeginCommand
            \/ ReapEntry
            \/ EndReap
            \/ RejectCommand
            \/ ReserveCommit
            \/ ReserveTimeout
            \/ ClearGeneration
            \/ BuildGeneration
            \/ PublishGeneration
            \/ RequestShutdown
            \/ WorkerExit
            \/ CloseState
      PROVE  ReadersInv'
  BY <1>11 DEF SkipRestore, stateVars, storeVars, dspVars, BeginCommand, ReapEntry,
      EndReap, RejectCommand, ReserveCommit, ReserveTimeout, NoEdit, ClearGeneration,
      BuildGeneration, PublishGeneration, RequestShutdown, WorkerExit, CloseState,
      ReadersInv, TypeOK, Indices
<1>12. ASSUME UNCHANGED vars PROVE ReadersInv'
  BY <1>12 DEF vars, stateVars, storeVars, dspVars, ReadersInv, TypeOK, Indices
<1> QED BY <1>1, <1>2, <1>3, <1>4, <1>5, <1>6, <1>7, <1>8, <1>9, <1>10, <1>11, <1>12
    DEF Next, WorkerStep, DspStep, SomeEdit

(* A plug-in has one owner, and the one it is given to is new. *)
LEMMA OwnerStep ==
  ASSUME TypeOK, DraftInv, OneOwner, [Next]_vars
  PROVE  OneOwner'
<1>1. ASSUME SomeEdit PROVE OneOwner'
  <2>1. PICK s, b, fresh \in SUBSET Plugins, number \in Nat, reap \in BOOLEAN :
                EditWith(s, b, fresh, number, reap)
    BY <1>1, EditIsPrepare
  <2>2. UNCHANGED <<slots, retired>> /\ draft'.fresh = fresh /\ opened' = opened \cup
      fresh
        /\ fresh \cap opened = {}
    BY <2>1 DEF EditWith, Prepare, Edit
  <2>3. draft.fresh = {}
    BY <2>1 DEF EditWith, DraftInv, NoEdit, Edit
  <2> QED BY <2>2, <2>3 DEF OneOwner, Retired
<1>2. ASSUME ReapEntry PROVE OneOwner'
  <2>1. PICK old \in unchecked :
            \/ opened' = opened \ {old.plugin} /\ retired' = retired \ {old}
            \/ UNCHANGED <<opened, retired>>
    BY <1>2 DEF ReapEntry
  <2>2. UNCHANGED <<slots, draft>>
    BY <1>2 DEF ReapEntry
  <2>3. CASE opened' = opened \ {old.plugin} /\ retired' = retired \ {old}
    <3>1. old \in retired
      BY DEF TypeOK
    <3>2. Retired' = Retired \ {old.plugin}
      BY <2>3, <3>1 DEF Retired, OneOwner
    <3>3. old.plugin \in Retired
      BY <3>1 DEF Retired
    <3>4. \A x, y \in retired' : x.plugin = y.plugin => x = y
      BY <2>3 DEF OneOwner
    <3> QED BY <2>2, <2>3, <3>2, <3>3, <3>4 DEF OneOwner
  <2>4. CASE UNCHANGED <<opened, retired>>
    BY <2>2, <2>4 DEF OneOwner, Retired
  <2> QED BY <2>1, <2>3, <2>4
<1>3. ASSUME ReserveTimeout PROVE OneOwner'
  <2>1. UNCHANGED <<slots, retired>> /\ draft'.fresh = {} /\ opened' = opened \
      draft.fresh
    BY <1>3 DEF ReserveTimeout, NoEdit, Edit
  <2> QED BY <2>1 DEF OneOwner, Retired
<1>4. ASSUME PublishGeneration PROVE OneOwner'
  <2>1. worker = "publish" /\ draft.slots \subseteq slots \cup draft.fresh
        /\ draft.fresh \subseteq draft.slots
    BY <1>4 DEF PublishGeneration, DraftInv
  <2>2. slots' = draft.slots /\ opened' = opened /\ draft'.fresh = {}
    BY <1>4 DEF PublishGeneration, NoEdit, Edit
  <2>3. retired' = retired \cup {[plugin |-> p, index |-> published_index] : p \in
      slots \ draft.slots}
    BY <1>4 DEF PublishGeneration
  <2>4. Retired' = Retired \cup (slots \ draft.slots)
    <3>1. {[plugin |-> p, index |-> published_index].plugin : p \in slots \
        draft.slots} = slots \ draft.slots
      OBVIOUS
    <3>2. Retired' = Retired \cup {old.plugin : old \in {[plugin |-> p, index |->
        published_index] : p \in slots \ draft.slots}}
      BY <2>3 DEF Retired
    <3>3. {old.plugin : old \in {[plugin |-> p, index |-> published_index] : p \in
        slots \ draft.slots}} = slots \ draft.slots
      <4> DEFINE entries == {[plugin |-> p, index |-> published_index] : p \in slots \
          draft.slots}
      <4>1. ASSUME NEW p \in slots \ draft.slots PROVE p \in {old.plugin : old \in
          entries}
        <5>1. [plugin |-> p, index |-> published_index] \in entries
          OBVIOUS
        <5>2. [plugin |-> p, index |-> published_index].plugin = p
          OBVIOUS
        <5> QED BY <5>1, <5>2
      <4>2. ASSUME NEW old \in entries PROVE old.plugin \in slots \ draft.slots
        OBVIOUS
      <4> QED BY <4>1, <4>2
    <3> QED BY <3>2, <3>3
  <2>5. \A x, y \in retired' : x.plugin = y.plugin => x = y
    <3>1. \A x \in retired, p \in slots \ draft.slots : x.plugin # p
      BY DEF OneOwner, Retired
    <3> QED BY <2>3, <3>1 DEF OneOwner
  <2> QED BY <2>1, <2>2, <2>4, <2>5 DEF OneOwner
<1>5. ASSUME CloseState PROVE OneOwner'
  <2>1. Retired' = {} /\ slots' = {} /\ draft' = draft
    BY <1>5 DEF CloseState, Retired
  <2>2. opened' = opened \ (slots \cup Retired)
    BY <1>5 DEF CloseState, Retired
  <2>3. draft.fresh = {}
    BY <1>5 DEF CloseState, DraftInv, NoEdit, Edit
  <2>4. retired' = {}
    BY <1>5 DEF CloseState
  <2> QED BY <2>1, <2>2, <2>3, <2>4 DEF OneOwner
<1>6. ASSUME \/ SkipRestore
            \/ BeginCommand
            \/ EndReap
            \/ RejectCommand
            \/ ReserveCommit
            \/ ClearGeneration
            \/ BuildGeneration
            \/ BeginBlock
            \/ LoadIndex
            \/ EnterGeneration
            \/ RecheckIndex
            \/ LeaveGeneration
            \/ ProcessSlot
            \/ EndBlock
            \/ ReleaseGeneration
            \/ RequestShutdown
            \/ DspExit
            \/ WorkerExit
      PROVE  OneOwner'
  BY <1>6 DEF SkipRestore, stateVars, storeVars, dspVars, BeginCommand, EndReap,
      RejectCommand, ReserveCommit, ClearGeneration, BuildGeneration, BeginBlock,
      LoadIndex, EnterGeneration, RecheckIndex, LeaveGeneration, ProcessSlot, EndBlock,
      ReleaseGeneration, RequestShutdown, DspExit, WorkerExit, OneOwner, Retired
<1>7. ASSUME UNCHANGED vars PROVE OneOwner'
  BY <1>7 DEF vars, stateVars, storeVars, dspVars, OneOwner, Retired
<1> QED BY <1>1, <1>2, <1>3, <1>4, <1>5, <1>6, <1>7 DEF Next, WorkerStep, DspStep,
    SomeEdit

(* The edit on its way is the one that was prepared. *)
LEMMA DraftStep ==
  ASSUME TypeOK, DraftInv, [Next]_vars
  PROVE  DraftInv'
<1>1. ASSUME SomeEdit PROVE DraftInv'
  <2>1. PICK s, b, fresh \in SUBSET Plugins, number \in Nat, reap \in BOOLEAN :
                EditWith(s, b, fresh, number, reap)
    BY <1>1, EditIsPrepare
  <2>2. draft' = Edit(s, b, fresh, number, reap) /\ worker' = "reserve"
        /\ UNCHANGED <<slots, unchecked, generations, published_index, dsp>>
    BY <2>1 DEF EditWith, Prepare, storeVars, dspVars
  <2> QED BY <2>1, <2>2 DEF EditWith, Edit, DraftInv
<1>2. ASSUME SkipRestore PROVE DraftInv'
  BY <1>2 DEF SkipRestore, stateVars, storeVars, dspVars, DraftInv, TypeOK, Indices, Other
<1>3. ASSUME BeginCommand PROVE DraftInv'
  BY <1>3 DEF BeginCommand, storeVars, dspVars, DraftInv, TypeOK, Indices, Other
<1>4. ASSUME ReapEntry PROVE DraftInv'
  BY <1>4 DEF ReapEntry, storeVars, dspVars, DraftInv, TypeOK, Indices, Other
<1>5. ASSUME EndReap PROVE DraftInv'
  BY <1>5 DEF EndReap, stateVars, storeVars, dspVars, DraftInv, TypeOK, Indices, Other
<1>6. ASSUME RejectCommand PROVE DraftInv'
  BY <1>6 DEF RejectCommand, stateVars, storeVars, dspVars, DraftInv, TypeOK, Indices,
      Other
<1>7. ASSUME ReserveCommit PROVE DraftInv'
  BY <1>7 DEF ReserveCommit, stateVars, storeVars, dspVars, DraftInv, TypeOK, Indices,
      Other
<1>8. ASSUME ReserveTimeout PROVE DraftInv'
  BY <1>8 DEF ReserveTimeout, storeVars, dspVars, NoEdit, DraftInv, TypeOK, Indices, Other
<1>9. ASSUME ClearGeneration PROVE DraftInv'
  BY <1>9 DEF ClearGeneration, stateVars, dspVars, DraftInv, TypeOK, Indices, Other
<1>10. ASSUME BuildGeneration PROVE DraftInv'
  BY <1>10 DEF BuildGeneration, stateVars, dspVars, DraftInv, TypeOK, Indices, Other
<1>11. ASSUME PublishGeneration PROVE DraftInv'
  BY <1>11 DEF PublishGeneration, dspVars, NoEdit, DraftInv, TypeOK, Indices, Other
<1>12. ASSUME BeginBlock PROVE DraftInv'
  BY <1>12 DEF BeginBlock, stateVars, storeVars, DraftInv, TypeOK, Indices, Other
<1>13. ASSUME LoadIndex PROVE DraftInv'
  BY <1>13 DEF LoadIndex, stateVars, storeVars, DraftInv, TypeOK, Indices, Other
<1>14. ASSUME EnterGeneration PROVE DraftInv'
  BY <1>14 DEF EnterGeneration, stateVars, storeVars, DraftInv, TypeOK, Indices, Other
<1>15. ASSUME RecheckIndex PROVE DraftInv'
  BY <1>15 DEF RecheckIndex, stateVars, storeVars, DraftInv, TypeOK, Indices, Other
<1>16. ASSUME LeaveGeneration PROVE DraftInv'
  BY <1>16 DEF LeaveGeneration, stateVars, storeVars, DraftInv, TypeOK, Indices, Other
<1>17. ASSUME ProcessSlot PROVE DraftInv'
  BY <1>17 DEF ProcessSlot, stateVars, storeVars, DraftInv, TypeOK, Indices, Other
<1>18. ASSUME EndBlock PROVE DraftInv'
  BY <1>18 DEF EndBlock, stateVars, storeVars, DraftInv, TypeOK, Indices, Other
<1>19. ASSUME ReleaseGeneration PROVE DraftInv'
  BY <1>19 DEF ReleaseGeneration, stateVars, storeVars, DraftInv, TypeOK, Indices, Other
<1>20. ASSUME DspExit PROVE DraftInv'
  BY <1>20 DEF DspExit, stateVars, storeVars, DraftInv, TypeOK, Indices, Other
<1>21. ASSUME WorkerExit PROVE DraftInv'
  BY <1>21 DEF WorkerExit, stateVars, storeVars, dspVars, DraftInv, TypeOK, Indices, Other
<1>22. ASSUME CloseState PROVE DraftInv'
  BY <1>22 DEF CloseState, storeVars, dspVars, DraftInv, TypeOK, Indices, Other
<1>23. ASSUME \/ RequestShutdown
      PROVE  DraftInv'
  BY <1>23 DEF RequestShutdown, stateVars, storeVars, dspVars, DraftInv, TypeOK,
      Indices, Other
<1>24. ASSUME UNCHANGED vars PROVE DraftInv'
  BY <1>24 DEF vars, stateVars, storeVars, dspVars, DraftInv, TypeOK, Indices, Other
<1> QED BY <1>1, <1>2, <1>3, <1>4, <1>5, <1>6, <1>7, <1>8, <1>9, <1>10, <1>11, <1>12,
    <1>13, <1>14, <1>15, <1>16, <1>17, <1>18, <1>19, <1>20, <1>21, <1>22, <1>23, <1>24 DEF
    Next, WorkerStep, DspStep, SomeEdit

(* A block keeps its plug-ins: they are removed into the retired list only. *)
LEMMA HoldStep ==
  ASSUME TypeOK, ReadersInv, DraftInv, HoldInv, [Next]_vars
  PROVE  HoldInv'
<1>1. ASSUME SomeEdit PROVE HoldInv'
  <2>1. PICK s, b, fresh \in SUBSET Plugins, number \in Nat, reap \in BOOLEAN :
                EditWith(s, b, fresh, number, reap)
    BY <1>1, EditIsPrepare
  <2>2. worker' = "reserve" /\ worker # "closed"
        /\ UNCHANGED <<slots, retired, generations, published_index, dsp, index>>
    BY <2>1 DEF EditWith, Prepare, storeVars, dspVars
  <2> QED BY <2>2 DEF HoldInv
<1>2. ASSUME SkipRestore PROVE HoldInv'
  BY <1>2 DEF SkipRestore, stateVars, storeVars, dspVars, HoldInv
<1>3. ASSUME BeginCommand PROVE HoldInv'
  BY <1>3 DEF BeginCommand, storeVars, dspVars, HoldInv
<1>4. ASSUME ReapEntry PROVE HoldInv'
  <2>1. UNCHANGED <<slots, worker, generations, published_index, dsp, index>>
    BY <1>4 DEF ReapEntry, storeVars, dspVars
  <2>2. ASSUME dsp = "walk", NEW e \in retired, e.index = index PROVE e \in retired'
    <3>1. readers[index] = 1
      BY <2>2 DEF ReadersInv, TypeOK
    <3> QED BY <1>4, <2>2, <3>1 DEF ReapEntry
  <2> QED BY <2>1, <2>2 DEF HoldInv
<1>5. ASSUME EndReap PROVE HoldInv'
  BY <1>5 DEF EndReap, stateVars, storeVars, dspVars, HoldInv
<1>6. ASSUME RejectCommand PROVE HoldInv'
  BY <1>6 DEF RejectCommand, stateVars, storeVars, dspVars, HoldInv
<1>7. ASSUME ReserveCommit PROVE HoldInv'
  <2>1. ASSUME dsp = "walk" PROVE index = published_index
    <3>1. readers[index] = 1
      BY <2>1 DEF ReadersInv, TypeOK
    <3>2. readers[Other(published_index)] = 0
      BY <1>7 DEF ReserveCommit
    <3> QED BY <3>1, <3>2 DEF Other, TypeOK, Indices
  <2> QED BY <1>7, <2>1 DEF ReserveCommit, stateVars, storeVars, dspVars, HoldInv
<1>8. ASSUME ReserveTimeout PROVE HoldInv'
  BY <1>8 DEF ReserveTimeout, storeVars, dspVars, NoEdit, HoldInv
<1>9. ASSUME ClearGeneration PROVE HoldInv'
  <2>1. generations'[published_index] = generations[published_index]
    BY <1>9 DEF ClearGeneration, TypeOK, Indices, Other
  <2>2. dsp = "walk" => index = published_index
    BY <1>9 DEF ClearGeneration, HoldInv
  <2> QED BY <1>9, <2>1, <2>2 DEF ClearGeneration, stateVars, dspVars, HoldInv
<1>10. ASSUME BuildGeneration PROVE HoldInv'
  <2>1. generations'[published_index] = generations[published_index]
    BY <1>10 DEF BuildGeneration, TypeOK, Indices, Other
  <2>2. dsp = "walk" => index = published_index
    BY <1>10 DEF BuildGeneration, HoldInv
  <2> QED BY <1>10, <2>1, <2>2 DEF BuildGeneration, stateVars, dspVars, HoldInv
<1>11. ASSUME PublishGeneration PROVE HoldInv'
  <2>1. generations' = generations /\ published_index' = Other(published_index)
        /\ slots' = draft.slots /\ UNCHANGED <<dsp, index>>
    BY <1>11 DEF PublishGeneration, dspVars
  <2>2. generations'[published_index'].plugins \subseteq slots'
    BY <1>11, <2>1 DEF PublishGeneration, DraftInv
  <2>3. ASSUME dsp = "walk", NEW p \in generations[index].plugins
        PROVE  p \in slots' \/ [plugin |-> p, index |-> index] \in retired'
    <3>1. index = published_index
      BY <1>11, <2>3 DEF PublishGeneration, HoldInv
    <3>2. p \in slots
      BY <1>11, <2>3, <3>1 DEF PublishGeneration, HoldInv
    <3> QED BY <1>11, <2>1, <3>1, <3>2 DEF PublishGeneration
  <2>4. worker' \in {"idle", "reap_again"}
    BY <1>11 DEF PublishGeneration
  <2> QED BY <2>1, <2>2, <2>3, <2>4 DEF HoldInv
<1>12. ASSUME BeginBlock PROVE HoldInv'
  BY <1>12 DEF BeginBlock, stateVars, storeVars, HoldInv
<1>13. ASSUME LoadIndex PROVE HoldInv'
  BY <1>13 DEF LoadIndex, stateVars, storeVars, HoldInv
<1>14. ASSUME EnterGeneration PROVE HoldInv'
  BY <1>14 DEF EnterGeneration, stateVars, storeVars, HoldInv
<1>15. ASSUME RecheckIndex PROVE HoldInv'
  <2>1. UNCHANGED <<slots, retired, worker, generations, published_index, index>>
    BY <1>15 DEF RecheckIndex, stateVars, storeVars
  <2>2. worker # "closed"
    BY <1>15 DEF RecheckIndex, DraftInv
  <2>3. dsp' = "walk" => index = published_index
    BY <1>15 DEF RecheckIndex
  <2> QED BY <2>1, <2>2, <2>3 DEF HoldInv
<1>16. ASSUME LeaveGeneration PROVE HoldInv'
  BY <1>16 DEF LeaveGeneration, stateVars, storeVars, HoldInv
<1>17. ASSUME ProcessSlot PROVE HoldInv'
  BY <1>17 DEF ProcessSlot, stateVars, storeVars, HoldInv
<1>18. ASSUME EndBlock PROVE HoldInv'
  BY <1>18 DEF EndBlock, stateVars, storeVars, HoldInv
<1>19. ASSUME ReleaseGeneration PROVE HoldInv'
  BY <1>19 DEF ReleaseGeneration, stateVars, storeVars, HoldInv
<1>20. ASSUME DspExit PROVE HoldInv'
  BY <1>20 DEF DspExit, stateVars, storeVars, HoldInv
<1>21. ASSUME WorkerExit PROVE HoldInv'
  BY <1>21 DEF WorkerExit, stateVars, storeVars, dspVars, HoldInv
<1>22. ASSUME CloseState PROVE HoldInv'
  <2>1. worker' = "closed" /\ dsp' = "exited"
    BY <1>22 DEF CloseState, dspVars
  <2> QED BY <2>1 DEF HoldInv
<1>23. ASSUME \/ RequestShutdown
      PROVE  HoldInv'
  BY <1>23 DEF RequestShutdown, stateVars, storeVars, dspVars, HoldInv
<1>24. ASSUME UNCHANGED vars PROVE HoldInv'
  BY <1>24 DEF vars, stateVars, storeVars, dspVars, HoldInv
<1> QED BY <1>1, <1>2, <1>3, <1>4, <1>5, <1>6, <1>7, <1>8, <1>9, <1>10, <1>11, <1>12,
    <1>13, <1>14, <1>15, <1>16, <1>17, <1>18, <1>19, <1>20, <1>21, <1>22, <1>23, <1>24 DEF
    Next, WorkerStep, DspStep, SomeEdit

LEMMA InitHolds == Init => SafetyInv
<1> SUFFICES ASSUME Init PROVE SafetyInv
  OBVIOUS
<1>1. TypeOK
  <2>1. generations \in [Indices -> Generation]
    BY DEF Init, Generation, EmptyGeneration
  <2>2. draft \in [slots : SUBSET Plugins, bypassed : SUBSET Plugins, fresh : SUBSET
      Plugins,
                   number : 0 .. MaxGeneration, reap : BOOLEAN]
    BY DEF Init, NoEdit, Edit
  <2>3. readers \in [Indices -> 0 .. 1] /\ attempt \in 0 .. MaxAttempts
    BY DEF Init
  <2>4. published_index \in Indices /\ index \in Indices /\ unchecked \in SUBSET retired
    BY DEF Init, Indices
  <2>5. retired \in SUBSET [plugin : Plugins, index : Indices]
    BY DEF Init
  <2> QED BY <2>1, <2>2, <2>3, <2>4, <2>5 DEF Init, TypeOK
<1>2. ReadersInv /\ DraftInv /\ HoldInv
  BY DEF Init, ReadersInv, DraftInv, HoldInv, Indices
<1>3. OneOwner
  BY DEF Init, OneOwner, Retired, NoEdit, Edit
<1> QED BY <1>1, <1>2, <1>3 DEF SafetyInv

(* The invariant is inductive. *)
LEMMA StepHolds == SafetyInv /\ [Next]_vars => SafetyInv'
BY TypeStep, ReadersStep, OwnerStep, DraftStep, HoldStep DEF SafetyInv

(* Every reachable state of the two threads, for every number of plug-ins,  *)
(* attempts and edits, has the inductive invariant.                         *)
THEOREM RackSafety == Spec => []SafetyInv
BY InitHolds, StepHolds, PTL DEF Spec

(* The variables stay in range: generations, reader counts and the edit at  *)
(* hand, for any number of plug-ins.                                        *)
THEOREM RackTypes == Spec => []TypeOK
<1>1. SafetyInv => TypeOK
  BY DEF SafetyInv
<1> QED BY <1>1, RackSafety, PTL

(* The command worker leaks no plug-in and closes none twice, whatever edit  *)
(* fails on the way.                                                        *)
THEOREM RackOneOwner == Spec => []OneOwner
<1>1. SafetyInv => OneOwner
  BY DEF SafetyInv
<1> QED BY <1>1, RackSafety, PTL

-----------------------------------------------------------------------------
(* The refinement of AtomicChain. *)

Committed == generations[published_index]
Processing == IF dsp = "walk" THEN generations[index] ELSE IF dsp = "exited" THEN
    Stopped ELSE Idle

(* A generation is told from the two marks of a thread without a block. *)
LEMMA GenerationIsNoMark ==
  ASSUME TypeOK
  PROVE  \A i \in Indices : generations[i] \notin {Idle, Stopped}
<1> SUFFICES ASSUME NEW i \in Indices PROVE generations[i] \notin {Idle, Stopped}
  OBVIOUS
<1>1. generations[i] \in Generation
  BY DEF TypeOK
<1>2. generations[i] \in [number : Nat, plugins : SUBSET Plugins]
  BY <1>1 DEF Generation
<1> QED BY <1>2, IdleAssumption

(* What may be in use exists. *)
UsedIsOpen == Atomic!InUse \subseteq opened

LEMMA InUseIsOpen == SafetyInv => UsedIsOpen
<1> SUFFICES ASSUME SafetyInv, dsp # "exited" PROVE Atomic!InUse \subseteq opened
  BY DEF Atomic!InUse, UsedIsOpen
<1>1. worker # "closed"
  BY DEF SafetyInv, DraftInv
<1>2. generations[published_index].plugins \subseteq slots
  BY <1>1 DEF SafetyInv, HoldInv
<1>3. ASSUME dsp = "walk" PROVE generations[index].plugins \subseteq slots \cup Retired
  <2> SUFFICES ASSUME NEW p \in generations[index].plugins, p \notin slots PROVE p \in
      Retired
    OBVIOUS
  <2>1. [plugin |-> p, index |-> index] \in retired
    BY <1>3 DEF SafetyInv, HoldInv
  <2>2. [plugin |-> p, index |-> index].plugin = p
    OBVIOUS
  <2> QED BY <2>1, <2>2 DEF Retired
<1>4. slots \cup Retired \subseteq opened
  BY DEF SafetyInv, OneOwner
<1> QED BY <1>2, <1>3, <1>4 DEF Atomic!InUse

(* A step that only closes plug-ins closes none in use. *)
LEMMA CloseMaps ==
  ASSUME SafetyInv, SafetyInv', opened' \subseteq opened,
         UNCHANGED <<Committed, Processing>>
  PROVE  Atomic!Close
<1>1. UsedIsOpen'
  BY InUseIsOpen, PTL
<1>2. Atomic!InUse' = Atomic!InUse
  BY DEF Committed, Processing, Atomic!InUse
<1> QED BY <1>1, <1>2 DEF UsedIsOpen, Committed, Processing, Atomic!Close

LEMMA StepMaps ==
  ASSUME SafetyInv, SafetyInv', [Next]_vars
  PROVE  [Atomic!Next]_<<Committed, Processing, opened>>
<1> USE DEF SafetyInv
<1>1. ASSUME SomeEdit PROVE Atomic!Open
  <2>1. PICK s, b, fresh \in SUBSET Plugins, number \in Nat, reap \in BOOLEAN :
                EditWith(s, b, fresh, number, reap)
    BY <1>1, EditIsPrepare
  <2>2. opened' = opened \cup fresh /\ UNCHANGED <<generations, published_index, dsp,
      index>>
    BY <2>1 DEF EditWith, Prepare, storeVars, dspVars
  <2> QED BY <2>2 DEF Atomic!Open, TypeOK
<1>2. ASSUME ReapEntry \/ ReserveTimeout \/ CloseState PROVE Atomic!Close
  <2>1. opened' \subseteq opened /\ UNCHANGED <<generations, published_index, dsp, index>>
    BY <1>2 DEF ReapEntry, ReserveTimeout, CloseState, storeVars, dspVars
  <2> QED BY <2>1, CloseMaps DEF Committed, Processing
<1>3. ASSUME ClearGeneration \/ BuildGeneration
      PROVE  UNCHANGED <<Committed, Processing, opened>>
  <2>1. generations'[published_index] = generations[published_index]
    BY <1>3 DEF ClearGeneration, BuildGeneration, TypeOK, Indices, Other
  <2>2. dsp = "walk" => index = published_index
    BY <1>3 DEF ClearGeneration, BuildGeneration, HoldInv
  <2> QED BY <1>3, <2>1, <2>2 DEF ClearGeneration, BuildGeneration, Committed,
      Processing, dspVars
<1>4. ASSUME PublishGeneration PROVE Atomic!Commit
  <2>1. published_index' = Other(published_index) /\ UNCHANGED <<generations, dsp,
      index, opened>>
    BY <1>4 DEF PublishGeneration, dspVars
  <2>2. generations'[published_index'] = [number |-> draft.number, plugins |->
      draft.slots \ draft.bypassed]
    BY <1>4, <2>1 DEF PublishGeneration, DraftInv
  <2>3. draft.number >= generations[published_index].number
    BY <1>4 DEF PublishGeneration, DraftInv
  <2>4. draft.slots \subseteq opened
    BY <1>4 DEF PublishGeneration, DraftInv, OneOwner
  <2> QED BY <2>1, <2>2, <2>3, <2>4 DEF Atomic!Commit
<1>5. ASSUME RecheckIndex PROVE [Atomic!Next]_<<Committed, Processing, opened>>
  <2>1. UNCHANGED <<generations, published_index, index, opened>>
    BY <1>5 DEF RecheckIndex, storeVars
  <2>2. CASE dsp' = "walk"
    BY <1>5, <2>1, <2>2 DEF RecheckIndex, Atomic!Next, Atomic!BeginBlock
  <2>3. CASE dsp' = "leave"
    BY <1>5, <2>1, <2>3 DEF RecheckIndex, Committed, Processing
  <2> QED BY <1>5, <2>2, <2>3 DEF RecheckIndex
<1>6. ASSUME ProcessSlot \/ EndBlock PROVE [Atomic!Next]_<<Committed, Processing, opened>>
  <2>1. UNCHANGED <<generations, published_index, index, opened>> /\ dsp = "walk"
    BY <1>6 DEF ProcessSlot, EndBlock, storeVars
  <2>2. CASE dsp' = dsp
    BY <2>1, <2>2 DEF Committed, Processing
  <2>3. CASE dsp' = "release"
    <3>1. generations[index] \notin {Idle, Stopped}
      BY GenerationIsNoMark DEF TypeOK
    <3> QED BY <2>1, <2>3, <3>1 DEF Atomic!Next, Atomic!EndBlock
  <2> QED BY <1>6, <2>2, <2>3 DEF ProcessSlot, EndBlock
<1>7. ASSUME DspExit PROVE Atomic!Stop
  BY <1>7 DEF DspExit, storeVars, Atomic!Stop
<1>8. ASSUME \/ SkipRestore
             \/ BeginCommand
             \/ EndReap
             \/ RejectCommand
             \/ ReserveCommit
             \/ WorkerExit
             \/ RequestShutdown
             \/ UNCHANGED vars
      PROVE  UNCHANGED <<Committed, Processing, opened>>
  BY <1>8 DEF SkipRestore, BeginCommand, EndReap, RejectCommand, ReserveCommit,
      WorkerExit, RequestShutdown, vars, storeVars, dspVars, Committed, Processing
<1>9. ASSUME BeginBlock \/ LoadIndex \/ EnterGeneration \/ LeaveGeneration \/
    ReleaseGeneration
      PROVE  UNCHANGED <<Committed, Processing, opened>>
  BY <1>9 DEF BeginBlock, LoadIndex, EnterGeneration, LeaveGeneration,
      ReleaseGeneration, storeVars, Committed, Processing
<1> QED BY <1>1, <1>2, <1>3, <1>4, <1>5, <1>6, <1>7, <1>8, <1>9 DEF Next, WorkerStep,
    DspStep, SomeEdit, Atomic!Next

(* dsp_loop processes every block by one committed generation as a whole,   *)
(* the generations follow each other in number, and no plug-in of a          *)
(* generation that is published or in use is closed.                        *)
THEOREM RackChainIsAtomic == Spec => ChainIsAtomic
<1>1. Init => Atomic!Init
  BY DEF Init, Atomic!Init, Indices
<1>2. SafetyInv /\ SafetyInv' /\ [Next]_vars => [Atomic!Next]_<<Committed, Processing,
    opened>>
  BY StepMaps
<1> QED BY <1>1, <1>2, RackSafety, PTL DEF Spec, ChainIsAtomic, Atomic!Spec,
    Committed, Processing
=============================================================================
