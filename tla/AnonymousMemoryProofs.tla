------------------------ MODULE AnonymousMemoryProofs ------------------------
(***************************************************************************)
(* What is proved about AnonymousMemory for any number of pages, objects,  *)
(* threads and shared sets.                                                *)
(***************************************************************************)
EXTENDS AnonymousMemory, FiniteSetTheorems, BlockerSetProofs

LazySlots(r) == {i \in Index : r.page[i] = Lazy}

(* What is true of each object: what is committed for it covers its lazy   *)
(* slots, there is nothing committed for one that has zero slots or is     *)
(* volatile, and the page table of one that is not purgeable tells the     *)
(* truth.                                                                  *)
RecordOK(r) ==
    /\ r.volatile => r.unused = 0
    /\ \A i \in Index : r.page[i] = Zero => r.unused = 0
    /\ Cardinality(LazySlots(r)) <= r.unused
    /\ ~r.purgeable => r.writable = {i \in Index : ~should_cow(r, i)}

(* What a fault remembers of an object that is not purgeable still holds:  *)
(* a page is not taken away from it, nor its map, and a lazy slot is lazy  *)
(* until it is filled.  A fault that only looks into the page table, or    *)
(* got no page, refers to none.                                            *)
FaultOK(r, f) ==
    /\ f.stage \in {"verify", "cow denied", "zero denied"} => f.seen = Zero
    /\ ~r.purgeable =>
         /\ f.stage \in {"check", "verify", "cow"} => IsReal(r.page[f.index])
         /\ f.stage = "cow" => r.cow # Null
         /\ f.stage = "zero" /\ f.seen = Lazy => r.page[f.index] # Zero

(* A page of o that q refers to as well is to be copied by o.              *)
CopiedBy(os, o, q) ==
    \A i, j \in Index :
        ~os[o].purgeable /\ IsReal(os[o].page[i]) /\ os[o].page[i] = os[q].page[j] =>
            os[o].cow # Null /\ i \in os[o].cow

(* The objects and the faults.                                             *)
Sound(os, fs) ==
    /\ os \in [Object -> ObjectRecord \cup {Null}]
    /\ fs \in [Thread -> FaultRecord \cup {Null}]
    /\ \A o \in Object : os[o] # Null => RecordOK(os[o])
    /\ \A t \in Thread : fs[t] # Null =>
         os[fs[t].object] # Null /\ FaultOK(os[fs[t].object], fs[t])
    /\ \A o, q \in Object : o # q /\ os[o] # Null /\ os[q] # Null => CopiedBy(os, o, q)

MemoryInv ==
    /\ Sound(obj, fault)
    /\ TypeOK
    /\ Accounting
    /\ PanicExplained

-----------------------------------------------------------------------------
(* Records, and what keeps the objects and the faults sound.               *)

(* remap_regions_locked changes the page table of an object only.          *)
LEMMA RemapAllFacts ==
    ASSUME NEW r \in ObjectRecord
    PROVE  LET m == RemapAll(r)
           IN  /\ m \in ObjectRecord
               /\ m.page = r.page /\ m.unused = r.unused /\ m.cow = r.cow
               /\ m.shared = r.shared /\ m.parent = r.parent
               /\ m.purgeable = r.purgeable /\ m.volatile = r.volatile
               /\ m.writable = {i \in Index : ~should_cow(r, i)}
               /\ \A i \in Index : should_cow(m, i) <=> should_cow(r, i)
BY DEF RemapAll, ObjectRecord, should_cow

(* The same for remap_vmobject_page, which changes one entry of the page   *)
(* table.                                                                  *)
LEMMA RemapPageFacts ==
    ASSUME NEW r \in ObjectRecord, NEW i \in Index
    PROVE  LET m == RemapPage(r, i)
           IN  /\ m \in ObjectRecord
               /\ m.page = r.page /\ m.unused = r.unused /\ m.cow = r.cow
               /\ m.shared = r.shared /\ m.parent = r.parent
               /\ m.purgeable = r.purgeable /\ m.volatile = r.volatile
               /\ m.writable = IF should_cow(r, i) THEN r.writable \ {i} ELSE r.writable \cup {i}
               /\ \A j \in Index : should_cow(m, j) <=> should_cow(r, j)
BY DEF RemapPage, ObjectRecord, should_cow

(* set_should_cow(i, false) leaves the object with a map, without slot i.  *)
LEMMA ClearCowFacts ==
    ASSUME NEW r \in ObjectRecord, NEW i \in Index
    PROVE  LET m == ClearCow(r, i)
           IN  /\ m \in ObjectRecord
               /\ m.page = r.page /\ m.unused = r.unused
               /\ m.cow = (IF r.cow = Null THEN RealIndices(r) ELSE r.cow) \ {i}
               /\ m.cow # Null
               /\ m.shared = r.shared /\ m.parent = r.parent
               /\ m.purgeable = r.purgeable /\ m.volatile = r.volatile
               /\ m.writable = r.writable
<1> DEFINE c == (IF r.cow = Null THEN RealIndices(r) ELSE r.cow) \ {i}
<1>1. c \in SUBSET Index
  BY DEF ObjectRecord, RealIndices
<1>2. c # Null
  BY <1>1, NullAssumption
<1> HIDE DEF c
<1>3. [r EXCEPT !.cow = c] \in ObjectRecord
  BY <1>1 DEF ObjectRecord
<1>4. ClearCow(r, i) = [r EXCEPT !.cow = c]
  BY DEF ClearCow, c
<1> QED BY <1>1, <1>2, <1>3, <1>4 DEF ObjectRecord, c

(* A page in a slot changes nothing else of the record.                    *)
LEMMA FilledFacts ==
    ASSUME NEW r \in ObjectRecord, NEW i \in Index, NEW p \in Page
    PROVE  LET m == [r EXCEPT !.page[i] = p]
           IN  /\ m \in ObjectRecord
               /\ m.page[i] = p
               /\ \A j \in Index \ {i} : m.page[j] = r.page[j]
               /\ m.unused = r.unused /\ m.cow = r.cow
               /\ m.shared = r.shared /\ m.parent = r.parent
               /\ m.purgeable = r.purgeable /\ m.volatile = r.volatile
               /\ m.writable = r.writable
BY DEF ObjectRecord

(* An object may change: the objects and the faults stay sound if it loses *)
(* neither pages nor map, and copies what it did, or nobody else has it.   *)
LEMMA ChangeObject ==
    ASSUME NEW os, NEW fs, Sound(os, fs), NEW o \in Object, os[o] # Null,
           NEW r \in ObjectRecord, RecordOK(r), r.purgeable = os[o].purgeable,
           ~r.purgeable =>
             /\ os[o].cow # Null => r.cow # Null
             /\ \A i \in Index : /\ IsReal(os[o].page[i]) => IsReal(r.page[i])
                                 /\ os[o].page[i] = Lazy => r.page[i] # Zero,
           \A i \in Index : IsReal(r.page[i]) =>
             \/ /\ r.page[i] = os[o].page[i]
                /\ ~r.purgeable /\ os[o].cow # Null /\ i \in os[o].cow => i \in r.cow
             \/ \A q \in Object \ {o} : os[q] # Null => \A j \in Index : os[q].page[j] # r.page[i]
    PROVE  Sound([os EXCEPT ![o] = r], fs)
<1> DEFINE n == [os EXCEPT ![o] = r]
<1>1. /\ n \in [Object -> ObjectRecord \cup {Null}]
      /\ n[o] = r /\ r # Null
      /\ \A q \in Object \ {o} : n[q] = os[q]
      /\ os \in [Object -> ObjectRecord \cup {Null}]
      /\ fs \in [Thread -> FaultRecord \cup {Null}]
  BY RecordAssumption DEF Sound
<1> HIDE DEF n
<1>2. \A q \in Object : n[q] # Null => RecordOK(n[q])
  BY <1>1 DEF Sound
<1>3. ASSUME NEW t \in Thread, fs[t] # Null
      PROVE  n[fs[t].object] # Null /\ FaultOK(n[fs[t].object], fs[t])
  <2>1. fs[t].object \in Object /\ fs[t].index \in Index
    BY <1>1, <1>3 DEF FaultRecord
  <2>2. os[fs[t].object] # Null /\ FaultOK(os[fs[t].object], fs[t])
    BY <1>3 DEF Sound
  <2>3. CASE fs[t].object = o
    <3>1. n[fs[t].object] = r /\ FaultOK(os[o], fs[t])
      BY <1>1, <2>2, <2>3
    <3>2. FaultOK(r, fs[t])
      <4> DEFINE i == fs[t].index
      <4>1. ASSUME ~r.purgeable
            PROVE  /\ IsReal(os[o].page[i]) => IsReal(r.page[i])
                   /\ os[o].page[i] = Lazy => r.page[i] # Zero
                   /\ os[o].cow # Null => r.cow # Null
                   /\ ~os[o].purgeable
        BY <2>1, <4>1
      <4>2. os[o].page[i] \in Page \cup {Zero, Lazy}
        BY <1>1, <2>1, <2>2, <2>3 DEF ObjectRecord
      <4>3. os[o].page[i] # Zero => IsReal(os[o].page[i]) \/ os[o].page[i] = Lazy
        BY <4>2 DEF IsReal
      <4>4. IsReal(r.page[i]) => r.page[i] # Zero
        BY DEF IsReal
      <4> QED BY <3>1, <4>1, <4>3, <4>4, Zenon DEF FaultOK
    <3> QED BY <1>1, <3>1, <3>2
  <2>4. CASE fs[t].object # o
    BY <1>1, <2>1, <2>2, <2>4
  <2> QED BY <2>3, <2>4
<1>4. ASSUME NEW a \in Object, NEW b \in Object, a # b, n[a] # Null, n[b] # Null
      PROVE  CopiedBy(n, a, b)
  <2> SUFFICES ASSUME NEW i \in Index, NEW j \in Index,
                      ~n[a].purgeable, IsReal(n[a].page[i]), n[a].page[i] = n[b].page[j]
               PROVE  n[a].cow # Null /\ i \in n[a].cow
    BY DEF CopiedBy
  <2>1. CASE a = o
    <3>1. os[b] # Null /\ n[b] = os[b] /\ n[a] = r
      BY <1>1, <1>4, <2>1
    <3>2. r.page[i] = os[o].page[i] /\ (os[o].cow # Null /\ i \in os[o].cow => i \in r.cow)
      BY <1>4, <2>1, <3>1
    <3>3. CopiedBy(os, o, b)
      BY <1>4, <2>1, <3>1 DEF Sound
    <3>4. os[o].cow # Null /\ i \in os[o].cow
      BY <3>1, <3>2, <3>3 DEF CopiedBy
    <3> QED BY <3>1, <3>2, <3>4
  <2>2. CASE b = o
    <3>1. os[a] # Null /\ n[a] = os[a] /\ n[b] = r
      BY <1>1, <1>4, <2>2
    <3>2. r.page[j] = os[o].page[j]
      BY <1>4, <2>2, <3>1
    <3>3. CopiedBy(os, a, o)
      BY <1>4, <2>2, <3>1 DEF Sound
    <3> QED BY <3>1, <3>2, <3>3 DEF CopiedBy
  <2>3. CASE a # o /\ b # o
    <3>1. n[a] = os[a] /\ n[b] = os[b] /\ CopiedBy(os, a, b)
      BY <1>1, <1>4, <2>3 DEF Sound
    <3> QED BY <3>1 DEF CopiedBy
  <2> QED BY <2>1, <2>2, <2>3
<1>5. Sound(n, fs)
  BY <1>1, <1>2, <1>3, <1>4 DEF Sound
<1> QED BY <1>5 DEF n

(* A new object keeps the objects and the faults sound if the pages that   *)
(* it shares are to be copied, by it and by those it shares them with.     *)
LEMMA AddObject ==
    ASSUME NEW os, NEW fs, Sound(os, fs), NEW o \in Object, os[o] = Null,
           NEW r \in ObjectRecord, RecordOK(r),
           \A q \in Object \ {o} : os[q] # Null =>
             \A i, j \in Index : IsReal(r.page[i]) /\ r.page[i] = os[q].page[j] =>
               /\ ~r.purgeable => r.cow # Null /\ i \in r.cow
               /\ ~os[q].purgeable => os[q].cow # Null /\ j \in os[q].cow
    PROVE  Sound([os EXCEPT ![o] = r], fs)
<1> DEFINE n == [os EXCEPT ![o] = r]
<1>1. /\ n \in [Object -> ObjectRecord \cup {Null}]
      /\ n[o] = r /\ r # Null
      /\ \A q \in Object \ {o} : n[q] = os[q]
      /\ os \in [Object -> ObjectRecord \cup {Null}]
      /\ fs \in [Thread -> FaultRecord \cup {Null}]
  BY RecordAssumption DEF Sound
<1> HIDE DEF n
<1>2. \A q \in Object : n[q] # Null => RecordOK(n[q])
  BY <1>1 DEF Sound
<1>3. ASSUME NEW t \in Thread, fs[t] # Null
      PROVE  n[fs[t].object] # Null /\ FaultOK(n[fs[t].object], fs[t])
  <2>1. fs[t].object \in Object
    BY <1>1, <1>3 DEF FaultRecord
  <2>2. os[fs[t].object] # Null /\ FaultOK(os[fs[t].object], fs[t])
    BY <1>3 DEF Sound
  <2> QED BY <1>1, <2>1, <2>2
<1>4. ASSUME NEW a \in Object, NEW b \in Object, a # b, n[a] # Null, n[b] # Null
      PROVE  CopiedBy(n, a, b)
  <2> SUFFICES ASSUME NEW i \in Index, NEW j \in Index,
                      ~n[a].purgeable, IsReal(n[a].page[i]), n[a].page[i] = n[b].page[j]
               PROVE  n[a].cow # Null /\ i \in n[a].cow
    BY DEF CopiedBy
  <2>1. CASE a = o
    <3>1. os[b] # Null /\ n[b] = os[b] /\ n[a] = r
      BY <1>1, <1>4, <2>1
    <3> QED BY <1>4, <2>1, <3>1
  <2>2. CASE b = o
    <3>1. os[a] # Null /\ n[a] = os[a] /\ n[b] = r
      BY <1>1, <1>4, <2>2
    <3> QED BY <1>4, <2>2, <3>1
  <2>3. CASE a # o /\ b # o
    <3>1. n[a] = os[a] /\ n[b] = os[b] /\ CopiedBy(os, a, b)
      BY <1>1, <1>4, <2>3 DEF Sound
    <3> QED BY <3>1 DEF CopiedBy
  <2> QED BY <2>1, <2>2, <2>3
<1>5. Sound(n, fs)
  BY <1>1, <1>2, <1>3, <1>4 DEF Sound
<1> QED BY <1>5 DEF n

(* So do objects that go away, and shared sets and parents that are        *)
(* forgotten.                                                              *)
LEMMA DropObjects ==
    ASSUME NEW os, NEW fs, Sound(os, fs),
           NEW n \in [Object -> ObjectRecord \cup {Null}],
           \A q \in Object : n[q] # Null =>
             /\ os[q] # Null
             /\ n[q].page = os[q].page /\ n[q].unused = os[q].unused /\ n[q].cow = os[q].cow
             /\ n[q].purgeable = os[q].purgeable /\ n[q].volatile = os[q].volatile
             /\ n[q].writable = os[q].writable,
           \A t \in Thread : fs[t] # Null => n[fs[t].object] # Null
    PROVE  Sound(n, fs)
<1>1. fs \in [Thread -> FaultRecord \cup {Null}]
  BY DEF Sound
<1>2. ASSUME NEW q \in Object, n[q] # Null PROVE RecordOK(n[q])
  <2>1. os[q] # Null /\ RecordOK(os[q])
    BY <1>2 DEF Sound
  <2>2. LazySlots(n[q]) = LazySlots(os[q])
    BY <1>2 DEF LazySlots
  <2>3. \A i \in Index : should_cow(n[q], i) <=> should_cow(os[q], i)
    BY <1>2 DEF should_cow
  <2> QED BY <1>2, <2>1, <2>2, <2>3 DEF RecordOK
<1>3. ASSUME NEW t \in Thread, fs[t] # Null
      PROVE  n[fs[t].object] # Null /\ FaultOK(n[fs[t].object], fs[t])
  <2>1. fs[t].object \in Object
    BY <1>1, <1>3 DEF FaultRecord
  <2>2. n[fs[t].object] # Null /\ FaultOK(os[fs[t].object], fs[t])
    BY <1>3 DEF Sound
  <2> QED BY <2>1, <2>2 DEF FaultOK
<1>4. ASSUME NEW a \in Object, NEW b \in Object, a # b, n[a] # Null, n[b] # Null
      PROVE  CopiedBy(n, a, b)
  <2>1. CopiedBy(os, a, b)
    BY <1>4 DEF Sound
  <2> QED BY <1>4, <2>1 DEF CopiedBy
<1> QED BY <1>1, <1>2, <1>3, <1>4 DEF Sound

(* So does a fault that begins, goes on or ends, if what it remembers is   *)
(* true.                                                                   *)
LEMMA ChangeFault ==
    ASSUME NEW os, NEW fs, Sound(os, fs), NEW t \in Thread,
           NEW f \in FaultRecord \cup {Null},
           f # Null => os[f.object] # Null /\ FaultOK(os[f.object], f)
    PROVE  Sound(os, [fs EXCEPT ![t] = f])
BY DEF Sound

(* The record that a fault ends with, see Fill.                            *)
FilledRecord(t, r, p) ==
    LET i == fault[t].index
        filled == [r EXCEPT !.page[i] = p]
    IN  RemapPage(IF fault[t].stage = "cow" THEN ClearCow(filled, i) ELSE filled, i)

(* Such a record has p in the slot of the fault, and nothing else of the   *)
(* rest that is counted has changed.                                       *)
LEMMA FilledRecordFacts ==
    ASSUME NEW t, NEW i \in Index, fault[t].index = i, NEW r \in ObjectRecord, NEW p \in Page
    PROVE  /\ FilledRecord(t, r, p) \in ObjectRecord
           /\ FilledRecord(t, r, p).page[i] = p
           /\ \A j \in Index \ {i} : FilledRecord(t, r, p).page[j] = r.page[j]
           /\ FilledRecord(t, r, p).unused = r.unused
<1> DEFINE filled == [r EXCEPT !.page[i] = p]
           copied == IF fault[t].stage = "cow" THEN ClearCow(filled, i) ELSE filled
<1>1. FilledRecord(t, r, p) = RemapPage(copied, i)
  BY DEF FilledRecord
<1>2. /\ filled \in ObjectRecord
      /\ filled.page[i] = p
      /\ \A j \in Index \ {i} : filled.page[j] = r.page[j]
      /\ filled.unused = r.unused
  BY FilledFacts
<1> HIDE DEF filled
<1>3. copied \in ObjectRecord /\ copied.page = filled.page /\ copied.unused = filled.unused
  BY <1>2, ClearCowFacts
<1> HIDE DEF copied
<1>4. /\ RemapPage(copied, i) \in ObjectRecord
      /\ RemapPage(copied, i).page = filled.page
      /\ RemapPage(copied, i).unused = filled.unused
  BY <1>3, RemapPageFacts
<1> QED BY <1>1, <1>2, <1>4

(* r is the object q, but what is committed for it may be just enough for  *)
(* the slots other than i.                                                 *)
Fillable(r, q, i) ==
    /\ r.page = q.page /\ r.cow = q.cow /\ r.purgeable = q.purgeable /\ r.writable = q.writable
    /\ r.volatile => r.unused = 0
    /\ \A j \in Index \ {i} : r.page[j] = Zero => r.unused = 0
    /\ Cardinality(LazySlots(r) \ {i}) <= r.unused

(* Thread t is about to fill slot i of object o.                           *)
FaultAt(t, o, i) ==
    /\ fault[t] # Null /\ fault[t].object = o /\ fault[t].index = i
    /\ fault[t].stage \in {"zero", "cow"}

(* No object but o refers to page p.                                       *)
NewTo(os, o, p) ==
    \A q \in Object \ {o} : os[q] # Null => \A j \in Index : os[q].page[j] # p

(* A page that is new to all others may be put into a slot.                *)
LEMMA FillSound ==
    ASSUME NEW os, Sound(os, fault),
           NEW t \in Thread, NEW o \in Object, NEW i \in Index, FaultAt(t, o, i),
           NEW r \in ObjectRecord, NEW p \in Page,
           Fillable(r, os[o], i), NewTo(os, o, p)
    PROVE  Sound([os EXCEPT ![o] = FilledRecord(t, r, p)], Done(t))
<1> USE DEF Fillable, FaultAt, NewTo
<1> DEFINE filled == [r EXCEPT !.page[i] = p]
           copied == IF fault[t].stage = "cow" THEN ClearCow(filled, i) ELSE filled
           m == RemapPage(copied, i)
<1>0. FilledRecord(t, r, p) = m
  BY DEF FilledRecord
<1>1. /\ filled \in ObjectRecord
      /\ filled.page[i] = p
      /\ \A j \in Index \ {i} : filled.page[j] = r.page[j]
      /\ filled.unused = r.unused /\ filled.cow = r.cow /\ filled.shared = r.shared
      /\ filled.purgeable = r.purgeable /\ filled.volatile = r.volatile
      /\ filled.writable = r.writable
  BY FilledFacts
<1> HIDE DEF filled
<1>2. /\ copied \in ObjectRecord
      /\ copied.page = filled.page /\ copied.unused = filled.unused /\ copied.shared = filled.shared
      /\ copied.purgeable = filled.purgeable /\ copied.volatile = filled.volatile
      /\ copied.writable = filled.writable
      /\ fault[t].stage # "cow" => copied.cow = filled.cow
      /\ fault[t].stage = "cow" =>
           /\ copied.cow = (IF filled.cow = Null THEN RealIndices(filled) ELSE filled.cow) \ {i}
           /\ copied.cow # Null
  <2>1. CASE fault[t].stage = "cow"
    <3>1. copied = ClearCow(filled, i)
      BY <2>1
    <3> HIDE DEF copied
    <3> QED BY <1>1, <2>1, <3>1, ClearCowFacts
  <2>2. CASE fault[t].stage # "cow"
    <3>1. copied = filled
      BY <2>2
    <3> HIDE DEF copied
    <3> QED BY <1>1, <2>2, <3>1
  <2> QED BY <2>1, <2>2
<1> HIDE DEF copied
<1>3. /\ m \in ObjectRecord
      /\ m.page = copied.page /\ m.unused = copied.unused /\ m.cow = copied.cow
      /\ m.shared = copied.shared
      /\ m.purgeable = copied.purgeable /\ m.volatile = copied.volatile
      /\ m.writable = IF should_cow(copied, i) THEN copied.writable \ {i} ELSE copied.writable \cup {i}
      /\ \A j \in Index : should_cow(m, j) <=> should_cow(copied, j)
  BY <1>2, RemapPageFacts
<1> HIDE DEF m
<1>4. /\ m.page[i] = p
      /\ \A j \in Index \ {i} : m.page[j] = r.page[j]
      /\ m.unused = r.unused /\ m.shared = r.shared /\ m.purgeable = os[o].purgeable
      /\ m.volatile = r.volatile
      /\ IsReal(p) /\ p # Zero /\ p # Lazy
  BY <1>1, <1>2, <1>3, PageAssumption DEF IsReal
<1>5. os[o] # Null /\ os[o] \in ObjectRecord /\ RecordOK(os[o]) /\ FaultOK(os[o], fault[t])
  BY DEF Sound
<1>6. ASSUME ~r.purgeable
      PROVE  /\ os[o].cow # Null => m.cow # Null
             /\ fault[t].stage = "cow" => os[o].cow # Null
             /\ \A j \in Index \ {i} : (m.cow # Null /\ j \in m.cow) <=> (os[o].cow # Null /\ j \in os[o].cow)
  <2>1. fault[t].stage = "cow" => os[o].cow # Null
    BY <1>5, <1>6 DEF FaultOK
  <2>2. CASE fault[t].stage = "cow"
    BY <1>1, <1>2, <1>3, <2>1, <2>2
  <2>3. CASE fault[t].stage # "cow"
    BY <1>1, <1>2, <1>3, <2>3
  <2> QED BY <2>1, <2>2, <2>3
<1>7. RecordOK(m)
  <2>1. m.volatile => m.unused = 0
    BY <1>4
  <2>2. \A j \in Index : m.page[j] = Zero => m.unused = 0
    BY <1>4
  <2>3. LazySlots(m) = LazySlots(r) \ {i}
    BY <1>4 DEF LazySlots
  <2>4. ASSUME ~m.purgeable PROVE m.writable = {j \in Index : ~should_cow(m, j)}
    <3>1. os[o].writable = {j \in Index : ~should_cow(os[o], j)}
      BY <1>4, <1>5, <2>4 DEF RecordOK
    <3>2. \A j \in Index \ {i} : should_cow(m, j) <=> should_cow(os[o], j)
      BY <1>4, <1>6, <2>4 DEF should_cow
    <3>3. copied.writable = os[o].writable
      BY <1>1, <1>2
    <3>4. \A j \in Index \ {i} : j \in m.writable <=> ~should_cow(m, j)
      BY <1>3, <3>1, <3>2, <3>3
    <3>5. i \in m.writable <=> ~should_cow(m, i)
      BY <1>3
    <3>6. m.writable \subseteq Index
      BY <1>3 DEF ObjectRecord
    <3> QED BY <3>4, <3>5, <3>6
  <2> QED BY <1>4, <2>1, <2>2, <2>3, <2>4 DEF RecordOK
<1>8. \A j \in Index : IsReal(m.page[j]) =>
        \/ /\ m.page[j] = os[o].page[j]
           /\ ~m.purgeable /\ os[o].cow # Null /\ j \in os[o].cow => j \in m.cow
        \/ \A q \in Object \ {o} : os[q] # Null => \A k \in Index : os[q].page[k] # m.page[j]
  BY <1>4, <1>6
<1>9. ~m.purgeable =>
        /\ os[o].cow # Null => m.cow # Null
        /\ \A j \in Index : /\ IsReal(os[o].page[j]) => IsReal(m.page[j])
                            /\ os[o].page[j] = Lazy => m.page[j] # Zero
  <2> SUFFICES ASSUME ~m.purgeable
               PROVE  /\ os[o].cow # Null => m.cow # Null
                      /\ \A j \in Index : /\ IsReal(os[o].page[j]) => IsReal(m.page[j])
                                          /\ os[o].page[j] = Lazy => m.page[j] # Zero
    OBVIOUS
  <2>1. \A j \in Index : /\ IsReal(os[o].page[j]) => IsReal(m.page[j])
                         /\ os[o].page[j] = Lazy => m.page[j] # Zero
    BY <1>4, PageAssumption
  <2>2. os[o].cow # Null => m.cow # Null
    BY <1>4, <1>6
  <2> QED BY <2>1, <2>2
<1>10. Sound([os EXCEPT ![o] = m], fault)
  BY <1>3, <1>4, <1>5, <1>7, <1>8, <1>9, ChangeObject
<1>11. Sound([os EXCEPT ![o] = m], Done(t))
  BY <1>10, ChangeFault DEF Done
<1> QED BY <1>0, <1>3, <1>4, <1>11

(* The end of a fault.                                                     *)
LEMMA DoneSound ==
    ASSUME NEW os, Sound(os, fault), NEW t \in Thread
    PROVE  Sound(os, Done(t))
BY ChangeFault DEF Done

(* Telling the page table about a slot, and letting a shared set go.       *)
LEMMA RemapSound ==
    ASSUME NEW os, NEW fs, Sound(os, fs), NEW o \in Object, os[o] # Null, NEW i \in Index,
           NEW r \in ObjectRecord,
           r.page = os[o].page, r.unused = os[o].unused, r.cow = os[o].cow,
           r.purgeable = os[o].purgeable, r.volatile = os[o].volatile, r.writable = os[o].writable
    PROVE  Sound([os EXCEPT ![o] = RemapPage(r, i)], fs)
<1> DEFINE m == RemapPage(r, i)
<1>1. /\ m \in ObjectRecord
      /\ m.page = r.page /\ m.unused = r.unused /\ m.cow = r.cow
      /\ m.purgeable = r.purgeable /\ m.volatile = r.volatile
      /\ m.writable = IF should_cow(r, i) THEN r.writable \ {i} ELSE r.writable \cup {i}
      /\ \A j \in Index : should_cow(m, j) <=> should_cow(r, j)
  BY RemapPageFacts
<1> HIDE DEF m
<1>2. RecordOK(os[o]) /\ os[o] \in ObjectRecord
  BY DEF Sound
<1>3. RecordOK(m)
  <2>1. LazySlots(m) = LazySlots(os[o])
    BY <1>1 DEF LazySlots
  <2>2. ASSUME ~m.purgeable PROVE m.writable = {j \in Index : ~should_cow(m, j)}
    <3>1. \A j \in Index : should_cow(r, j) <=> should_cow(os[o], j)
      BY DEF should_cow
    <3>2. r.writable = {j \in Index : ~should_cow(os[o], j)}
      BY <1>1, <1>2, <2>2 DEF RecordOK
    <3> QED BY <1>1, <3>1, <3>2
  <2> QED BY <1>1, <1>2, <2>1, <2>2 DEF RecordOK
<1>4. \A j \in Index : m.page[j] = os[o].page[j] /\ m.cow = os[o].cow /\ m.purgeable = os[o].purgeable
  BY <1>1
<1>5. \A j \in Index : os[o].page[j] = Lazy => m.page[j] # Zero
  BY <1>4, PageAssumption
<1>6. Sound([os EXCEPT ![o] = m], fs)
  <2>1. m.purgeable = os[o].purgeable
    BY <1>1
  <2>2. ~m.purgeable =>
           /\ os[o].cow # Null => m.cow # Null
           /\ \A j \in Index : /\ IsReal(os[o].page[j]) => IsReal(m.page[j])
                               /\ os[o].page[j] = Lazy => m.page[j] # Zero
    BY <1>1, <1>4, <1>5
  <2>3. \A j \in Index : IsReal(m.page[j]) =>
        \/ /\ m.page[j] = os[o].page[j]
           /\ ~m.purgeable /\ os[o].cow # Null /\ j \in os[o].cow => j \in m.cow
        \/ \A q \in Object \ {o} : os[q] # Null => \A k \in Index : os[q].page[k] # m.page[j]
    BY <1>1, <1>4
  <2> QED BY <1>1, <1>3, <2>1, <2>2, <2>3, ChangeObject
<1> QED BY <1>6 DEF m

(* purge()                                                                 *)
LEMMA PurgeFacts ==
    ASSUME NEW r \in ObjectRecord
    PROVE  /\ Purged(r) \in ObjectRecord
           /\ \A i \in Index : Purged(r).page[i] = Zero
           /\ Purged(r).unused = r.unused
           /\ Purged(r).purgeable = r.purgeable
<1> DEFINE e == [r EXCEPT !.page = [i \in Index |-> Zero]]
<1>1. /\ e \in ObjectRecord /\ e.page = [i \in Index |-> Zero] /\ e.unused = r.unused
      /\ e.purgeable = r.purgeable
  BY DEF ObjectRecord
<1>2. Purged(r) = RemapAll(e)
  BY DEF Purged
<1> HIDE DEF e
<1> QED BY <1>1, <1>2, RemapAllFacts

(* Purging a volatile object keeps the objects and the faults sound.       *)
LEMMA PurgeSound ==
    ASSUME NEW os, NEW fs, Sound(os, fs), NEW v \in Object, os[v] # Null,
           os[v].purgeable, os[v].volatile
    PROVE  Sound([os EXCEPT ![v] = Purged(os[v])], fs)
<1> DEFINE m == Purged(os[v])
<1>1. os[v] \in ObjectRecord /\ RecordOK(os[v])
  BY DEF Sound
<1>2. /\ m \in ObjectRecord /\ m.unused = os[v].unused /\ m.purgeable = os[v].purgeable
      /\ \A i \in Index : m.page[i] = Zero
  BY <1>1, PurgeFacts
<1> HIDE DEF m
<1>5. \A i \in Index : m.page[i] = Zero /\ ~IsReal(m.page[i])
  BY <1>2 DEF IsReal
<1>6. m.unused = 0
  BY <1>1, <1>2 DEF RecordOK
<1>7. RecordOK(m)
  <2>1. LazySlots(m) = {}
    BY <1>5, PageAssumption DEF LazySlots
  <2> QED BY <1>2, <1>6, <2>1, FS_EmptySet DEF RecordOK
<1>8. Sound([os EXCEPT ![v] = m], fs)
  <2>1. m.purgeable = os[v].purgeable /\ m.purgeable
    BY <1>2
  <2> QED BY <1>1, <1>2, <1>5, <1>7, <2>1, ChangeObject
<1> QED BY <1>8 DEF m

-----------------------------------------------------------------------------
(* Sums. A sum is the number of its tokens, <<x, 1>> to <<x, f[x]>>.       *)

Tokens(f, S) == {e \in S \X (Nat \ {0}) : e[2] <= f[e[1]]}

(* A part of the tokens.                                                   *)
LEMMA SumTokensSplit ==
    ASSUME NEW S, NEW f, \A y \in S : f[y] \in Nat, NEW x \in S, IsFiniteSet(Tokens(f, S \ {x}))
    PROVE  /\ IsFiniteSet(Tokens(f, S))
           /\ Cardinality(Tokens(f, S)) = f[x] + Cardinality(Tokens(f, S \ {x}))
<1> DEFINE A == {x} \X (1 .. f[x])
           B == Tokens(f, S \ {x})
<1>1. IsFiniteSet(A) /\ Cardinality(A) = f[x]
  <2>1. f[x] \in Nat /\ IsFiniteSet(1 .. f[x]) /\ Cardinality(1 .. f[x]) = f[x]
    <3>1. f[x] \in Nat
      OBVIOUS
    <3>2. 1 \in Int /\ f[x] \in Int
      BY <3>1
    <3>3. IsFiniteSet(1 .. f[x]) /\ Cardinality(1 .. f[x]) = IF 1 > f[x] THEN 0 ELSE f[x] - 1 + 1
      BY <3>2, FS_Interval
    <3> QED BY <3>1, <3>3
  <2>2. IsFiniteSet({x}) /\ Cardinality({x}) = 1
    BY FS_Singleton
  <2>3. IsFiniteSet(A) /\ Cardinality(A) = Cardinality({x}) * Cardinality(1 .. f[x])
    BY <2>1, <2>2, FS_Product
  <2> QED BY <2>1, <2>2, <2>3
<1>2. A \cap B = {}
  BY DEF Tokens
<1>3. Tokens(f, S) = A \cup B
  <2>1. ASSUME NEW e \in S \X (Nat \ {0}) PROVE e \in Tokens(f, S) <=> e \in A \/ e \in B
    <3>1. PICK y \in S, n \in Nat \ {0} : e = <<y, n>>
      OBVIOUS
    <3>2. f[y] \in Nat
      OBVIOUS
    <3> QED BY <3>1, <3>2 DEF Tokens
  <2>2. Tokens(f, S) \subseteq S \X (Nat \ {0}) /\ B \subseteq S \X (Nat \ {0})
    BY DEF Tokens
  <2>3. A \subseteq S \X (Nat \ {0})
    OBVIOUS
  <2> QED BY <2>1, <2>2, <2>3
<1> HIDE DEF A, B
<1>4. Cardinality({}) = 0
  BY FS_EmptySet
<1>5. IsFiniteSet(B)
  BY DEF B
<1>6. Cardinality(A) \in Nat /\ Cardinality(B) \in Nat
  BY <1>1, <1>5, FS_CardinalityType
<1>7. /\ IsFiniteSet(A \cup B)
      /\ Cardinality(A \cup B) = Cardinality(A) + Cardinality(B) - Cardinality(A \cap B)
  BY <1>1, <1>5, FS_Union
<1>8. Cardinality(A \cup B) = Cardinality(A) + Cardinality(B)
  <2>1. Cardinality(A \cap B) = 0
    BY <1>2, <1>4
  <2> QED BY <1>6, <1>7, <2>1
<1> QED BY <1>1, <1>3, <1>7, <1>8 DEF B

(* SumFunctionOnSet, down to the recursion of the library's fold.          *)
LEMMA SumUnfold ==
    ASSUME NEW S, NEW f
    PROVE  SumFunctionOnSet(f, S) =
             (CHOOSE g : g = [s \in SUBSET S |-> IF s = {} THEN 0
                         ELSE f[CHOOSE x \in s : TRUE] + g[s \ {CHOOSE x \in s : TRUE}]])[S]
BY Zenon DEF SumFunctionOnSet, FoldFunctionOnSet, MapThenFoldSet

(* The tokens of finitely many numbers are finitely many; by induction on  *)
(* the size of the set.                                                    *)
LEMMA TokensFinite ==
    ASSUME NEW S, IsFiniteSet(S), NEW f, \A y \in S : f[y] \in Nat
    PROVE  IsFiniteSet(Tokens(f, S))
<1> DEFINE T == {n \in Nat : \A s \in SUBSET S : Cardinality(s) = n => IsFiniteSet(Tokens(f, s))}
<1>1. 0 \in T
  <2> SUFFICES ASSUME NEW s \in SUBSET S, Cardinality(s) = 0 PROVE IsFiniteSet(Tokens(f, s))
    OBVIOUS
  <2>1. s = {}
    BY FS_Subset, FS_EmptySet
  <2>2. Tokens(f, s) = {}
    BY <2>1 DEF Tokens
  <2> QED BY <2>2, FS_EmptySet
<1>2. ASSUME NEW n \in Nat, n \in T PROVE n + 1 \in T
  <2> SUFFICES ASSUME NEW s \in SUBSET S, Cardinality(s) = n + 1 PROVE IsFiniteSet(Tokens(f, s))
    OBVIOUS
  <2>1. IsFiniteSet(s) /\ s # {}
    BY FS_Subset, FS_EmptySet
  <2>2. PICK x \in s : TRUE
    BY <2>1
  <2>3. s \ {x} \in SUBSET S /\ Cardinality(s \ {x}) = n
    <3>1. Cardinality(s \ {x}) = Cardinality(s) - 1
      BY <2>1, <2>2, FS_RemoveElement
    <3> QED BY <3>1
  <2>4. IsFiniteSet(Tokens(f, s \ {x}))
    BY <1>2, <2>3
  <2> QED BY <2>2, <2>4, SumTokensSplit
<1>3. Nat \subseteq T
  <2> HIDE DEF T
  <2> QED BY <1>1, <1>2, Induct
<1>4. Cardinality(S) \in Nat
  BY FS_CardinalityType
<1> QED BY <1>3, <1>4

(* The sum is the number of tokens, whatever order the fold takes.         *)
LEMMA SumIsTokens ==
    ASSUME NEW S, IsFiniteSet(S), NEW f, \A y \in S : f[y] \in Nat
    PROVE  SumFunctionOnSet(f, S) = Cardinality(Tokens(f, S))
<1> DEFINE c(s) == CHOOSE x \in s : TRUE
           Iter(g) == g = [s \in SUBSET S |-> IF s = {} THEN 0 ELSE f[c(s)] + g[s \ {c(s)}]]
           h == [s \in SUBSET S |-> Cardinality(Tokens(f, s))]
<1>0. \A s : s # {} => c(s) \in s
  OBVIOUS
<1> HIDE DEF c
<1>1. ASSUME NEW s \in SUBSET S
      PROVE  h[s] = IF s = {} THEN 0 ELSE f[c(s)] + h[s \ {c(s)}]
  <2>1. CASE s = {}
    <3>1. Tokens(f, s) = {}
      BY <2>1 DEF Tokens
    <3> QED BY <2>1, <3>1, FS_EmptySet
  <2>2. CASE s # {}
    <3>1. c(s) \in s /\ s \ {c(s)} \in SUBSET S
      BY <1>0, <2>2
    <3>2. IsFiniteSet(s \ {c(s)})
      BY <3>1, FS_Subset
    <3>3. IsFiniteSet(Tokens(f, s \ {c(s)}))
      BY <3>1, <3>2, TokensFinite
    <3>4. Cardinality(Tokens(f, s)) = f[c(s)] + Cardinality(Tokens(f, s \ {c(s)}))
      BY <3>1, <3>3, SumTokensSplit
    <3> QED BY <2>2, <3>1, <3>4
  <2> QED BY <2>1, <2>2
<1>2. Iter(h)
  <2>1. h = [s \in SUBSET S |-> h[s]]
    OBVIOUS
  <2> HIDE DEF h
  <2> QED BY <1>1, <2>1
<1> DEFINE g == CHOOSE k : Iter(k)
<1>3. Iter(g)
  <2> HIDE DEF h, Iter
  <2> QED BY <1>2
<1> HIDE DEF g
<1>4. \A s \in SUBSET S : g[s] = IF s = {} THEN 0 ELSE f[c(s)] + g[s \ {c(s)}]
  BY <1>3
<1> DEFINE T == {n \in Nat : \A s \in SUBSET S : Cardinality(s) = n => g[s] = h[s]}
<1>5. 0 \in T
  <2> SUFFICES ASSUME NEW s \in SUBSET S, Cardinality(s) = 0 PROVE g[s] = h[s]
    OBVIOUS
  <2>1. s = {}
    BY FS_Subset, FS_EmptySet
  <2> HIDE DEF h
  <2> QED BY <1>1, <1>4, <2>1
<1>6. ASSUME NEW n \in Nat, n \in T PROVE n + 1 \in T
  <2> SUFFICES ASSUME NEW s \in SUBSET S, Cardinality(s) = n + 1 PROVE g[s] = h[s]
    <3> HIDE DEF h
    <3> QED OBVIOUS
  <2>1. IsFiniteSet(s) /\ s # {}
    BY FS_Subset, FS_EmptySet
  <2>2. c(s) \in s
    BY <1>0, <2>1
  <2>3. s \ {c(s)} \in SUBSET S /\ Cardinality(s \ {c(s)}) = n
    <3>1. Cardinality(s \ {c(s)}) = Cardinality(s) - 1
      BY <2>1, <2>2, FS_RemoveElement
    <3> QED BY <3>1
  <2>4. g[s \ {c(s)}] = h[s \ {c(s)}]
    BY <1>6, <2>3
  <2> HIDE DEF h
  <2> QED BY <1>1, <1>4, <2>1, <2>4
<1>7. Nat \subseteq T
  <2> HIDE DEF T
  <2> QED BY <1>5, <1>6, Induct
<1>8. Cardinality(S) \in Nat
  BY FS_CardinalityType
<1>9. g[S] = Cardinality(Tokens(f, S))
  BY <1>7, <1>8
<1>10. SumFunctionOnSet(f, S) = g[S]
  BY SumUnfold, Zenon DEF g, Iter, c
<1> QED BY <1>9, <1>10

(* A sum is a natural number, of equal terms equal, and 0 of none.         *)
LEMMA SumType ==
    ASSUME NEW S, IsFiniteSet(S), NEW f, \A y \in S : f[y] \in Nat
    PROVE  /\ SumFunctionOnSet(f, S) \in Nat
           /\ S = {} => SumFunctionOnSet(f, S) = 0
<1>1. SumFunctionOnSet(f, S) = Cardinality(Tokens(f, S)) /\ IsFiniteSet(Tokens(f, S))
  BY SumIsTokens, TokensFinite
<1>2. S = {} => Tokens(f, S) = {}
  BY DEF Tokens
<1> QED BY <1>1, <1>2, FS_CardinalityType, FS_EmptySet

(* Equal terms have equal sums.                                            *)
LEMMA SumSame ==
    ASSUME NEW S, IsFiniteSet(S), NEW f, NEW g,
           \A y \in S : f[y] \in Nat /\ g[y] = f[y]
    PROVE  SumFunctionOnSet(g, S) = SumFunctionOnSet(f, S)
<1>1. Tokens(f, S) = Tokens(g, S)
  BY DEF Tokens
<1> QED BY <1>1, SumIsTokens

(* One term more.                                                          *)
LEMMA SumRemove ==
    ASSUME NEW S, IsFiniteSet(S), NEW f, \A y \in S : f[y] \in Nat, NEW x \in S
    PROVE  SumFunctionOnSet(f, S) = f[x] + SumFunctionOnSet(f, S \ {x})
<1>1. IsFiniteSet(S \ {x})
  BY FS_Subset
<1>2. IsFiniteSet(Tokens(f, S \ {x}))
  BY <1>1, TokensFinite
<1>3. Cardinality(Tokens(f, S)) = f[x] + Cardinality(Tokens(f, S \ {x}))
  BY <1>2, SumTokensSplit
<1> QED BY <1>1, <1>3, SumIsTokens

(* One term changed.                                                       *)
LEMMA SumChange ==
    ASSUME NEW S, IsFiniteSet(S), NEW f, NEW g, NEW x \in S,
           \A y \in S : f[y] \in Nat /\ g[y] \in Nat,
           \A y \in S \ {x} : g[y] = f[y]
    PROVE  SumFunctionOnSet(g, S) + f[x] = SumFunctionOnSet(f, S) + g[x]
<1>1. IsFiniteSet(S \ {x})
  BY FS_Subset
<1>2. SumFunctionOnSet(g, S \ {x}) = SumFunctionOnSet(f, S \ {x})
  BY <1>1, SumSame
<1>3. SumFunctionOnSet(f, S \ {x}) \in Nat
  BY <1>1, SumType
<1>4. SumFunctionOnSet(f, S) = f[x] + SumFunctionOnSet(f, S \ {x})
  BY SumRemove
<1>5. SumFunctionOnSet(g, S) = g[x] + SumFunctionOnSet(g, S \ {x})
  BY SumRemove
<1> QED BY <1>2, <1>3, <1>4, <1>5

(* The terms of D taken out.                                               *)
LEMMA SumDrop ==
    ASSUME NEW S, IsFiniteSet(S), NEW f, \A y \in S : f[y] \in Nat, NEW D \in SUBSET S
    PROVE  /\ SumFunctionOnSet([y \in S |-> IF y \in D THEN 0 ELSE f[y]], S)
                = SumFunctionOnSet(f, S) - SumFunctionOnSet(f, D)
           /\ SumFunctionOnSet(f, D) <= SumFunctionOnSet(f, S)
<1> DEFINE g == [y \in S |-> IF y \in D THEN 0 ELSE f[y]]
           A == Tokens(g, S)
           B == Tokens(f, D)
<1>1. \A y \in S : g[y] \in Nat /\ g[y] = IF y \in D THEN 0 ELSE f[y]
  OBVIOUS
<1> HIDE DEF g
<1>2. IsFiniteSet(D)
  BY FS_Subset
<1>3. IsFiniteSet(A) /\ IsFiniteSet(B)
  BY <1>1, <1>2, TokensFinite
<1>4. A \cap B = {}
  BY <1>1 DEF Tokens
<1>5. Tokens(f, S) = A \cup B
  <2>1. ASSUME NEW e \in S \X (Nat \ {0}) PROVE e \in Tokens(f, S) <=> e \in A \/ e \in B
    <3>1. PICK y \in S, n \in Nat \ {0} : e = <<y, n>>
      OBVIOUS
    <3>2. f[y] \in Nat
      OBVIOUS
    <3> QED BY <1>1, <3>1, <3>2 DEF Tokens
  <2>2. Tokens(f, S) \subseteq S \X (Nat \ {0}) /\ A \subseteq S \X (Nat \ {0})
    BY DEF Tokens
  <2>3. B \subseteq S \X (Nat \ {0})
    BY DEF Tokens
  <2> QED BY <2>1, <2>2, <2>3
<1>6. /\ SumFunctionOnSet(g, S) = Cardinality(A)
      /\ SumFunctionOnSet(f, D) = Cardinality(B)
      /\ SumFunctionOnSet(f, S) = Cardinality(A \cup B)
  BY <1>1, <1>2, <1>5, SumIsTokens
<1> HIDE DEF A, B
<1>7. Cardinality(A \cup B) = Cardinality(A) + Cardinality(B) - Cardinality(A \cap B)
  BY <1>3, FS_Union
<1>8. Cardinality(A \cap B) = 0
  BY <1>4, FS_EmptySet
<1>9. Cardinality(A) \in Nat /\ Cardinality(B) \in Nat
  BY <1>3, FS_CardinalityType
<1>10. /\ SumFunctionOnSet(g, S) = SumFunctionOnSet(f, S) - SumFunctionOnSet(f, D)
       /\ SumFunctionOnSet(f, D) <= SumFunctionOnSet(f, S)
  BY <1>6, <1>7, <1>8, <1>9
<1> QED BY <1>10 DEF g

-----------------------------------------------------------------------------
(* The books.                                                              *)

(* What is committed for the objects, 0 for those that do not exist.       *)
Unused(os) == [o \in Object |-> IF os[o] = Null THEN 0 ELSE os[o].unused]
Promised(os) == SumFunctionOnSet(Unused(os), Object)

(* The types of what is committed for the objects.                         *)
LEMMA UnusedType ==
    ASSUME NEW os \in [Object -> ObjectRecord \cup {Null}]
    PROVE  /\ Unused(os) \in [Object -> Nat]
           /\ \A o \in Object : Unused(os)[o] = IF os[o] = Null THEN 0 ELSE os[o].unused
           /\ Promised(os) \in Nat
<1>1. /\ Unused(os) \in [Object -> Nat]
      /\ \A o \in Object : Unused(os)[o] = IF os[o] = Null THEN 0 ELSE os[o].unused
  BY DEF Unused, ObjectRecord
<1> QED BY <1>1, SumType, FiniteAssumption DEF Promised

(* The sum that Accounting speaks of is Promised.                          *)
LEMMA PromisedIsSum ==
    ASSUME NEW os \in [Object -> ObjectRecord \cup {Null}]
    PROVE  SumFunction([o \in Live(os) |-> os[o].unused]) = Promised(os)
<1> DEFINE f == [o \in Live(os) |-> os[o].unused]
           g == Unused(os)
<1>1. Live(os) \in SUBSET Object /\ IsFiniteSet(Live(os)) /\ IsFiniteSet(Object)
  BY FiniteAssumption, FS_Subset DEF Live
<1>2. \A o \in Live(os) : f[o] \in Nat /\ f[o] = g[o]
  BY UnusedType DEF Live, ObjectRecord
<1>3. \A o \in Object : g[o] \in Nat /\ (o \notin Live(os) => g[o] = 0)
  BY UnusedType DEF Live
<1>4. SumFunction(f) = SumFunctionOnSet(f, Live(os))
  <2>1. DOMAIN f = Live(os)
    OBVIOUS
  <2> QED BY <2>1, Zenon DEF SumFunction
<1> HIDE DEF f, g
<1>5. Tokens(f, Live(os)) = Tokens(g, Object)
  <2>1. Tokens(f, Live(os)) \subseteq Tokens(g, Object)
    BY <1>1, <1>2 DEF Tokens
  <2>2. ASSUME NEW e \in Tokens(g, Object) PROVE e \in Tokens(f, Live(os))
    <3>1. PICK o \in Object, n \in Nat \ {0} : e = <<o, n>>
      BY DEF Tokens
    <3>2. n <= g[o]
      BY <3>1 DEF Tokens
    <3>3. o \in Live(os)
      BY <1>3, <3>2
    <3> QED BY <1>2, <3>1, <3>2, <3>3 DEF Tokens
  <2> QED BY <2>1, <2>2
<1>6. SumFunctionOnSet(f, Live(os)) = SumFunctionOnSet(g, Object)
  BY <1>1, <1>2, <1>3, <1>5, SumIsTokens
<1> QED BY <1>4, <1>6 DEF f, g, Promised

(* One object changes, comes or goes.                                      *)
LEMMA PromisedChange ==
    ASSUME NEW os \in [Object -> ObjectRecord \cup {Null}],
           NEW n \in [Object -> ObjectRecord \cup {Null}],
           NEW o \in Object,
           \A q \in Object \ {o} : Unused(n)[q] = Unused(os)[q]
    PROVE  Promised(n) + Unused(os)[o] = Promised(os) + Unused(n)[o]
BY UnusedType, SumChange, FiniteAssumption DEF Promised

(* What it means that a page is in use.                                    *)
LEMMA InUseFacts ==
    ASSUME NEW os, NEW fs
    PROVE  /\ InUse(os, fs) \subseteq Page
           /\ IsFiniteSet(InUse(os, fs))
           /\ \A p \in Page : p \in InUse(os, fs) <=>
                \/ \E o \in Object, i \in Index : os[o] # Null /\ os[o].page[i] = p
                \/ \E t \in Thread : fs[t] # Null /\ fs[t].seen = p
<1>1. InUse(os, fs) \subseteq Page
  BY DEF InUse
<1> QED BY <1>1, FiniteAssumption, FS_Subset DEF InUse, Live

(* What it means that a shared set is referenced.                          *)
LEMMA ReferencedFacts ==
    ASSUME NEW os, NEW s
    PROVE  s \in Referenced(os) <=> s # Null /\ \E o \in Object : os[o] # Null /\ os[o].shared = s
BY DEF Referenced, Live

(* The pages in use change from U to V.                                    *)
LEMMA FreeChange ==
    ASSUME NEW U \in SUBSET Page, NEW V \in SUBSET Page
    PROVE  /\ Cardinality(Page \ V) + Cardinality(V \ U) = Cardinality(Page \ U) + Cardinality(U \ V)
           /\ Cardinality(Page \ V) \in Nat /\ Cardinality(V \ U) \in Nat
           /\ Cardinality(Page \ U) \in Nat /\ Cardinality(U \ V) \in Nat
<1> DEFINE W == Page \ (U \cup V)
<1>1. /\ IsFiniteSet(Page \ U) /\ IsFiniteSet(Page \ V) /\ IsFiniteSet(U \ V) /\ IsFiniteSet(V \ U)
      /\ IsFiniteSet(W)
  <2>1. \A S \in SUBSET Page : IsFiniteSet(S)
    BY FiniteAssumption, FS_Subset
  <2> QED BY <2>1
<1>2. /\ Page \ V = W \cup (U \ V) /\ W \cap (U \ V) = {}
      /\ Page \ U = W \cup (V \ U) /\ W \cap (V \ U) = {}
  OBVIOUS
<1> HIDE DEF W
<1>3. /\ Cardinality(W) \in Nat /\ Cardinality(U \ V) \in Nat /\ Cardinality(V \ U) \in Nat
      /\ Cardinality(Page \ V) \in Nat /\ Cardinality(Page \ U) \in Nat
  BY <1>1, FS_CardinalityType
<1>4. Cardinality(W \cup (U \ V)) = Cardinality(W) + Cardinality(U \ V) - Cardinality(W \cap (U \ V))
  BY <1>1, FS_Union
<1>5. Cardinality(W \cup (V \ U)) = Cardinality(W) + Cardinality(V \ U) - Cardinality(W \cap (V \ U))
  BY <1>1, FS_Union
<1>6. Cardinality({}) = 0
  BY FS_EmptySet
<1>7. /\ Cardinality(Page \ V) = Cardinality(W) + Cardinality(U \ V) - 0
      /\ Cardinality(Page \ U) = Cardinality(W) + Cardinality(V \ U) - 0
  BY <1>2, <1>4, <1>5, <1>6
<1> QED BY <1>3, <1>7

(* The arithmetic of SettleStep.                                           *)
LEMMA Balance ==
    ASSUME NEW com \in Nat, NEW unc \in Nat, NEW vu \in Nat, NEW uv \in Nat, NEW pu \in Nat,
           NEW pv \in Nat, pv + vu = pu + uv, pu = com + unc + vu
    PROVE  pv = com + unc + uv
OBVIOUS

(* What an operation has to account for, before Settle gives back what is  *)
(* not used any more: com is what is promised, and com and unc are what was *)
(* free, except for the pages that come into use.                          *)
Accounts(os, cs, fs, com, unc) ==
    /\ com = Promised(os) + SumFunctionOnSet(cs, CowSet)
    /\ \A s \in CowSet : cs[s] > 0 => s \in Referenced(obj) \cup Referenced(os)
    /\ com + unc + Cardinality(InUse(os, fs) \ InUse(obj, fault)) = Cardinality(FreePages)

(* What every operation has to show: its objects and faults are sound, and *)
(* it accounts for the pages that come into use.                           *)
LEMMA SettleStep ==
    ASSUME MemoryInv, panic = Null, panic' = panic,
           NEW os, NEW fs, Sound(os, fs),
           NEW cs \in [CowSet -> Nat], NEW com \in Nat, NEW unc \in Nat,
           Settle(os, cs, fs, com, unc),
           Accounts(os, cs, fs, com, unc)
    PROVE  MemoryInv'
<1> DEFINE U == InUse(obj, fault)
           V == InUse(os, fs)
           D == Referenced(obj) \ Referenced(os)
           back == SumFunctionOnSet(cs, D)
           zeroed == [s \in CowSet |-> IF s \in D THEN 0 ELSE cs[s]]
<1>1. /\ obj' = os /\ fault' = fs /\ count' = zeroed
      /\ committed' = com - back
      /\ uncommitted' = unc + back + Cardinality(U \ V)
  BY DEF Settle
<1>2. D \in SUBSET CowSet
  <2>1. \A o \in Object : obj[o] # Null => obj[o].shared \in CowSet \cup {Null}
    BY DEF MemoryInv, Sound, ObjectRecord
  <2> QED BY <2>1, ReferencedFacts
<1>3. IsFiniteSet(CowSet) /\ IsFiniteSet(D) /\ \A s \in CowSet : cs[s] \in Nat
  BY <1>2, FiniteAssumption, FS_Subset
<1>4. /\ SumFunctionOnSet(zeroed, CowSet) = SumFunctionOnSet(cs, CowSet) - back
      /\ back <= SumFunctionOnSet(cs, CowSet)
  <2> HIDE DEF D
  <2> QED BY <1>2, <1>3, SumDrop
<1>5. back \in Nat /\ SumFunctionOnSet(cs, CowSet) \in Nat /\ Promised(os) \in Nat
  <2>1. os \in [Object -> ObjectRecord \cup {Null}]
    BY DEF Sound
  <2> HIDE DEF D
  <2> QED BY <1>2, <1>3, <2>1, SumType, UnusedType
<1>6. zeroed \in [CowSet -> Nat] /\ DOMAIN zeroed = CowSet
  <2> HIDE DEF D
  <2> QED BY <1>3
<1>7. SumFunction(count') = SumFunctionOnSet(cs, CowSet) - back
  <2> HIDE DEF zeroed
  <2>1. SumFunction(zeroed) = SumFunctionOnSet(zeroed, CowSet)
    BY <1>6, Zenon DEF SumFunction
  <2> QED BY <1>1, <1>4, <2>1
<1>8. SumFunction([o \in Live(obj') |-> obj'[o].unused]) = Promised(os)
  <2>1. os \in [Object -> ObjectRecord \cup {Null}]
    BY DEF Sound
  <2> QED BY <1>1, <2>1, PromisedIsSum
<1>9. /\ Cardinality(Page \ V) + Cardinality(V \ U) = Cardinality(Page \ U) + Cardinality(U \ V)
      /\ Cardinality(Page \ V) \in Nat /\ Cardinality(V \ U) \in Nat
      /\ Cardinality(Page \ U) \in Nat /\ Cardinality(U \ V) \in Nat
  <2>1. U \in SUBSET Page /\ V \in SUBSET Page
    BY InUseFacts
  <2> HIDE DEF U, V
  <2> QED BY <2>1, FreeChange
<1>10. FreePages = Page \ U /\ FreePages' = Page \ V
  BY <1>1 DEF FreePages, InUse, Live
<1>11. \A s \in CowSet : count'[s] > 0 => s \in Referenced(obj)'
  <2>1. Referenced(obj)' = Referenced(os)
    BY <1>1 DEF Referenced, Live
  <2> SUFFICES ASSUME NEW s \in CowSet, count'[s] > 0 PROVE s \in Referenced(os)
    BY <2>1
  <2>2. s \notin D /\ cs[s] > 0
    BY <1>1, <1>3
  <2> QED BY <2>2 DEF Accounts
<1> HIDE DEF U, V, D, back, zeroed
<1>12. committed' \in Nat /\ uncommitted' \in Nat
  BY <1>1, <1>4, <1>5, <1>9 DEF Accounts
<1>13. Accounting'
  <2>1. committed' = Promised(os) + (SumFunctionOnSet(cs, CowSet) - back)
    BY <1>1, <1>5 DEF Accounts
  <2>2. committed' = SumFunction([o \in Live(obj') |-> obj'[o].unused]) + SumFunction(count')
    BY <1>7, <1>8, <2>1
  <2>3. Cardinality(Page \ U) = com + unc + Cardinality(V \ U)
    BY <1>10 DEF Accounts, U, V
  <2>5. committed' + uncommitted' = Cardinality(Page \ V)
    <3> DEFINE pv == Cardinality(Page \ V)
               pu == Cardinality(Page \ U)
               vu == Cardinality(V \ U)
               uv == Cardinality(U \ V)
    <3>1. /\ pv + vu = pu + uv
          /\ pv \in Nat /\ vu \in Nat /\ pu \in Nat /\ uv \in Nat
          /\ pu = com + unc + vu
      BY <1>9, <2>3
    <3>2. committed' = com - back /\ uncommitted' = unc + back + uv
      BY <1>1
    <3> HIDE DEF pv, pu, vu, uv
    <3>3. pv = com + unc + uv
      BY <3>1, Balance
    <3>5. committed' + uncommitted' = pv
      BY <1>5, <1>12, <3>1, <3>2, <3>3
    <3> QED BY <3>5 DEF pv
  <2>6. (SumFunction([o \in Live(obj) |-> obj[o].unused]) + SumFunction(count))'
           = SumFunction([o \in Live(obj') |-> obj'[o].unused]) + SumFunction(count')
    BY DEF Live
  <2>7. Cardinality(FreePages)' = Cardinality(FreePages')
    OBVIOUS
  <2>8. committed' = (SumFunction([o \in Live(obj) |-> obj[o].unused]) + SumFunction(count))'
    BY <2>2, <2>6
  <2>9. committed' + uncommitted' = Cardinality(FreePages)'
    BY <1>10, <2>5, <2>7
  <2> QED BY <1>11, <2>8, <2>9, Zenon DEF Accounting
<1>14. Sound(obj, fault)'
  <2>1. Sound(obj', fault')
    BY <1>1
  <2> QED BY <2>1 DEF Sound, CopiedBy
<1>15. TypeOK'
  <2>1. \A o \in Object : obj'[o] = Null \/ obj'[o] \in ObjectRecord
    BY <1>1 DEF Sound
  <2>2. \A t \in Thread : fault'[t] = Null \/ fault'[t] \in FaultRecord
    BY <1>1 DEF Sound
  <2>3. panic' \in PanicRecord \cup {Null}
    BY Zenon DEF MemoryInv, TypeOK
  <2>4. count' \in [CowSet -> Nat]
    BY <1>1, <1>6
  <2> QED BY <1>12, <2>1, <2>2, <2>3, <2>4, Zenon DEF TypeOK
<1>16. PanicExplained'
  BY DEF PanicExplained
<1> QED BY <1>13, <1>14, <1>15, <1>16 DEF MemoryInv

(* What MemoryInv says of the counters.                                    *)
LEMMA Now ==
    ASSUME MemoryInv
    PROVE  /\ obj \in [Object -> ObjectRecord \cup {Null}]
           /\ fault \in [Thread -> FaultRecord \cup {Null}]
           /\ count \in [CowSet -> Nat]
           /\ committed \in Nat /\ uncommitted \in Nat
           /\ Promised(obj) \in Nat /\ SumFunctionOnSet(count, CowSet) \in Nat
           /\ committed = Promised(obj) + SumFunctionOnSet(count, CowSet)
           /\ committed + uncommitted = Cardinality(FreePages)
           /\ \A s \in CowSet : count[s] > 0 => s \in Referenced(obj)
<1>1. /\ obj \in [Object -> ObjectRecord \cup {Null}]
      /\ fault \in [Thread -> FaultRecord \cup {Null}]
      /\ count \in [CowSet -> Nat]
      /\ committed \in Nat /\ uncommitted \in Nat
  BY DEF MemoryInv, Sound, TypeOK
<1>2. SumFunction(count) = SumFunctionOnSet(count, CowSet)
  <2>1. DOMAIN count = CowSet
    BY <1>1
  <2> QED BY <2>1, Zenon DEF SumFunction
<1>3. SumFunction([o \in Live(obj) |-> obj[o].unused]) = Promised(obj)
  BY <1>1, PromisedIsSum
<1>4. committed = Promised(obj) + SumFunctionOnSet(count, CowSet)
  BY <1>2, <1>3, Zenon DEF MemoryInv, Accounting
<1>5. Promised(obj) \in Nat /\ SumFunctionOnSet(count, CowSet) \in Nat
  <2>1. \A s \in CowSet : count[s] \in Nat
    BY <1>1
  <2> QED BY <1>1, <2>1, UnusedType, SumType, FiniteAssumption
<1>6. /\ committed + uncommitted = Cardinality(FreePages)
      /\ \A s \in CowSet : count[s] > 0 => s \in Referenced(obj)
  BY Zenon DEF MemoryInv, Accounting
<1> QED BY <1>1, <1>4, <1>5, <1>6

(* A step that gives nothing back.                                         *)
LEMMA PlainStep ==
    ASSUME MemoryInv, panic = Null, panic' = panic,
           NEW os, NEW fs, Sound(os, fs), NEW com \in Nat, NEW unc \in Nat,
           obj' = os, fault' = fs, count' = count, committed' = com, uncommitted' = unc,
           Accounts(os, count, fs, com, unc),
           InUse(obj, fault) \subseteq InUse(os, fs),
           Referenced(obj) \subseteq Referenced(os)
    PROVE  MemoryInv'
<1>1. InUse(obj, fault) \ InUse(os, fs) = {} /\ Referenced(obj) \ Referenced(os) = {}
  OBVIOUS
<1>2. Cardinality({}) = 0
  BY FS_EmptySet
<1>3. SumFunctionOnSet(count, {}) = 0
  <2>1. Tokens(count, {}) = {}
    BY DEF Tokens
  <2>2. IsFiniteSet({}) /\ \A s \in {} : count[s] \in Nat
    BY FS_EmptySet
  <2>3. SumFunctionOnSet(count, {}) = Cardinality(Tokens(count, {}))
    BY <2>2, SumIsTokens
  <2> QED BY <1>2, <2>1, <2>3
<1>4. count \in [CowSet -> Nat]
  BY Now
<1>5. count = [s \in CowSet |-> IF s \in {} THEN 0 ELSE count[s]]
  BY <1>4
<1>6. Settle(os, count, fs, com, unc)
  <2>1. com - 0 = com /\ unc + 0 + 0 = unc
    OBVIOUS
  <2>2. /\ committed' = com - SumFunctionOnSet(count, {})
        /\ uncommitted' = unc + SumFunctionOnSet(count, {}) + Cardinality({})
    BY <1>2, <1>3, <2>1
  <2> QED BY <1>1, <1>5, <2>2, Zenon DEF Settle
<1> QED BY <1>4, <1>6, SettleStep

(* An object is made, changes or is filled, and k pages come into use.     *)
LEMMA AccountsAt ==
    ASSUME MemoryInv, NEW o \in Object, NEW r \in ObjectRecord,
           NEW n, n = [obj EXCEPT ![o] = r], NEW fs,
           NEW com \in Nat, NEW unc \in Nat,
           com + Unused(obj)[o] = committed + r.unused,
           com + unc + Cardinality(InUse(n, fs) \ InUse(obj, fault)) = committed + uncommitted
    PROVE  Accounts(n, count, fs, com, unc)
<1>1. /\ obj \in [Object -> ObjectRecord \cup {Null}] /\ n \in [Object -> ObjectRecord \cup {Null}]
      /\ n[o] = r /\ r # Null /\ r.unused \in Nat
      /\ \A q \in Object \ {o} : n[q] = obj[q]
  BY Now, RecordAssumption DEF ObjectRecord
<1>2. /\ Unused(n)[o] = r.unused /\ Unused(obj)[o] \in Nat
      /\ \A q \in Object \ {o} : Unused(n)[q] = Unused(obj)[q]
  <2>1. \A q \in Object : /\ Unused(n)[q] = IF n[q] = Null THEN 0 ELSE n[q].unused
                          /\ Unused(obj)[q] = IF obj[q] = Null THEN 0 ELSE obj[q].unused
                          /\ Unused(obj)[q] \in Nat
    BY <1>1, UnusedType
  <2> QED BY <1>1, <2>1
<1>3. Promised(n) + Unused(obj)[o] = Promised(obj) + r.unused
  <2>1. Promised(n) + Unused(obj)[o] = Promised(obj) + Unused(n)[o]
    BY <1>1, <1>2, PromisedChange, Zenon
  <2> QED BY <1>2, <2>1, Zenon
<1>4. Promised(n) \in Nat /\ Promised(obj) \in Nat
  BY <1>1, UnusedType
<1>5. com = Promised(n) + SumFunctionOnSet(count, CowSet)
  <2> DEFINE pn == Promised(n)
             po == Promised(obj)
             sm == SumFunctionOnSet(count, CowSet)
             u == Unused(obj)[o]
  <2>1. /\ pn + u = po + r.unused /\ committed = po + sm /\ com + u = committed + r.unused
        /\ pn \in Nat /\ po \in Nat /\ sm \in Nat /\ u \in Nat /\ r.unused \in Nat
    BY <1>1, <1>2, <1>3, <1>4, Now
  <2> HIDE DEF pn, po, sm, u
  <2>2. com = pn + sm
    BY <2>1
  <2> QED BY <2>2 DEF pn, sm
<1>6. com + unc + Cardinality(InUse(n, fs) \ InUse(obj, fault)) = Cardinality(FreePages)
  BY Now
<1> QED BY <1>5, <1>6, Now DEF Accounts

(* No page comes into use.                                                 *)
LEMMA KeepsPages ==
    ASSUME NEW os, NEW fs,
           \A o \in Object, i \in Index : os[o] # Null =>
             os[o].page[i] \in InUse(obj, fault) \cup {Zero, Lazy},
           \A t \in Thread : fs[t] # Null => fs[t].seen \in InUse(obj, fault) \cup {Zero, Lazy}
    PROVE  Cardinality(InUse(os, fs) \ InUse(obj, fault)) = 0
<1>1. ASSUME NEW p \in InUse(os, fs) PROVE p \in InUse(obj, fault)
  <2>1. p \in Page /\ p \notin {Zero, Lazy}
    BY InUseFacts, PageAssumption
  <2> QED BY <1>1, <2>1, InUseFacts
<1>2. InUse(os, fs) \ InUse(obj, fault) = {}
  BY <1>1
<1> QED BY <1>2, FS_EmptySet

(* One page comes into use.                                                *)
LEMMA TakesPage ==
    ASSUME NEW os, NEW fs, NEW p \in Page, p \notin InUse(obj, fault), p \in InUse(os, fs),
           \A o \in Object, i \in Index : os[o] # Null =>
             os[o].page[i] \in InUse(obj, fault) \cup {Zero, Lazy, p},
           \A t \in Thread : fs[t] # Null => fs[t].seen \in InUse(obj, fault) \cup {Zero, Lazy, p}
    PROVE  Cardinality(InUse(os, fs) \ InUse(obj, fault)) = 1
<1>1. ASSUME NEW q \in InUse(os, fs) PROVE q \in InUse(obj, fault) \cup {p}
  <2>1. q \in Page /\ q \notin {Zero, Lazy}
    BY InUseFacts, PageAssumption
  <2> QED BY <1>1, <2>1, InUseFacts
<1>2. InUse(os, fs) \ InUse(obj, fault) = {p}
  BY <1>1
<1> QED BY <1>2, FS_Singleton

(* What the slots and the faults refer to now.                             *)
LEMMA PagesNow ==
    ASSUME MemoryInv
    PROVE  /\ \A o \in Object, i \in Index : obj[o] # Null =>
                obj[o].page[i] \in InUse(obj, fault) \cup {Zero, Lazy}
           /\ \A t \in Thread : fault[t] # Null =>
                fault[t].seen \in InUse(obj, fault) \cup {Zero, Lazy}
<1>1. ASSUME NEW o \in Object, NEW i \in Index, obj[o] # Null
      PROVE  obj[o].page[i] \in InUse(obj, fault) \cup {Zero, Lazy}
  <2>1. obj[o].page[i] \in Page \cup {Zero, Lazy}
    BY <1>1, Now DEF ObjectRecord
  <2> QED BY <1>1, <2>1, InUseFacts
<1>2. ASSUME NEW t \in Thread, fault[t] # Null
      PROVE  fault[t].seen \in InUse(obj, fault) \cup {Zero, Lazy}
  <2>1. fault[t].seen \in Page \cup {Zero, Lazy}
    BY <1>2, Now DEF FaultRecord
  <2> QED BY <1>2, <2>1, InUseFacts
<1> QED BY <1>1, <1>2

(* mmap, or fork of an object with nothing to share.                       *)
LEMMA NewObjectStep ==
    ASSUME MemoryInv, panic = Null, panic' = panic, NEW o \in Object, obj[o] = Null,
           NEW page \in {Zero, Lazy}, NEW unused \in Nat,
           NEW purgeable \in BOOLEAN, NEW volatile \in BOOLEAN,
           page = Lazy => unused = Cardinality(Index) /\ ~volatile,
           page = Zero => unused = 0,
           unused <= uncommitted,
           obj' = [obj EXCEPT ![o] = NewObject(page, unused, purgeable, volatile)],
           committed' = committed + unused, uncommitted' = uncommitted - unused,
           count' = count, fault' = fault
    PROVE  MemoryInv'
<1> DEFINE r == NewObject(page, unused, purgeable, volatile)
           n == [obj EXCEPT ![o] = r]
<1>0. obj \in [Object -> ObjectRecord \cup {Null}] /\ committed \in Nat /\ uncommitted \in Nat
  BY Now
<1>1. /\ r \in ObjectRecord /\ r.page = [i \in Index |-> page] /\ r.unused = unused
      /\ r.volatile = volatile /\ r.purgeable = purgeable /\ r.writable = {} /\ r.cow = Null
      /\ r.shared = Null
  BY DEF NewObject, ObjectRecord
<1>2. r # Null
  BY <1>1, RecordAssumption
<1> HIDE DEF r
<1>3. \A i \in Index : r.page[i] = page /\ ~IsReal(r.page[i])
  BY <1>1 DEF IsReal
<1>4. RecordOK(r)
  <2>1. r.volatile => r.unused = 0
    BY <1>1, PageAssumption
  <2>2. \A i \in Index : r.page[i] = Zero => r.unused = 0
    BY <1>1, <1>3
  <2>3. Cardinality(LazySlots(r)) <= r.unused
    <3>1. CASE page = Lazy
      <4>1. LazySlots(r) = Index
        BY <1>3, <3>1 DEF LazySlots
      <4> QED BY <1>1, <3>1, <4>1
    <3>2. CASE page = Zero
      <4>1. LazySlots(r) = {}
        BY <1>3, <3>2, PageAssumption DEF LazySlots
      <4> QED BY <1>1, <3>2, <4>1, FS_EmptySet
    <3> QED BY <3>1, <3>2
  <2>4. r.writable = {i \in Index : ~should_cow(r, i)}
    BY <1>1, <1>3 DEF should_cow
  <2> QED BY <2>1, <2>2, <2>3, <2>4 DEF RecordOK
<1>5. Sound(n, fault)
  BY <1>1, <1>3, <1>4, AddObject DEF MemoryInv
<1>6. /\ n[o] = r /\ \A q \in Object \ {o} : n[q] = obj[q]
  BY <1>0
<1>7. Cardinality(InUse(n, fault) \ InUse(obj, fault)) = 0
  <2> HIDE DEF n
  <2>1. \A q \in Object, i \in Index : n[q] # Null =>
             n[q].page[i] \in InUse(obj, fault) \cup {Zero, Lazy}
    BY <1>3, <1>6, PagesNow
  <2> QED BY <2>1, PagesNow, KeepsPages
<1>8. Unused(obj)[o] = 0
  BY <1>0, UnusedType
<1>9. Accounts(n, count, fault, committed + unused, uncommitted - unused)
  <2>1. committed + unused \in Nat /\ uncommitted - unused \in Nat
    BY <1>0
  <2>2. (committed + unused) + Unused(obj)[o] = committed + r.unused
    BY <1>0, <1>1, <1>8
  <2>3. (committed + unused) + (uncommitted - unused) + 0 = committed + uncommitted
    BY <1>0
  <2> DEFINE com == committed + unused
             unc == uncommitted - unused
  <2>4. /\ com \in Nat /\ unc \in Nat /\ com + Unused(obj)[o] = committed + r.unused
        /\ com + unc + Cardinality(InUse(n, fault) \ InUse(obj, fault)) = committed + uncommitted
    BY <1>7, <2>1, <2>2, <2>3
  <2>6. n = [obj EXCEPT ![o] = r]
    OBVIOUS
  <2> HIDE DEF com, unc, n
  <2>5. Accounts(n, count, fault, com, unc)
    BY <1>1, <2>4, <2>6, AccountsAt
  <2> QED BY <2>5 DEF com, unc
<1> HIDE DEF n
<1>10. InUse(obj, fault) \subseteq InUse(n, fault)
  <2> SUFFICES ASSUME NEW p \in InUse(obj, fault) PROVE p \in InUse(n, fault)
    OBVIOUS
  <2>1. p \in Page
    BY InUseFacts
  <2>2. CASE \E q \in Object, i \in Index : obj[q] # Null /\ obj[q].page[i] = p
    <3>1. PICK q \in Object, i \in Index : obj[q] # Null /\ obj[q].page[i] = p
      BY <2>2
    <3>2. n[q] = obj[q]
      BY <1>6, <3>1
    <3> QED BY <2>1, <3>1, <3>2, InUseFacts
  <2>3. CASE \E t \in Thread : fault[t] # Null /\ fault[t].seen = p
    BY <2>1, <2>3, InUseFacts
  <2> QED BY <2>1, <2>2, <2>3, InUseFacts
<1>11. Referenced(obj) \subseteq Referenced(n)
  BY <1>6, ReferencedFacts
<1>12. obj' = n
  BY DEF n, r
<1>13. committed + unused \in Nat /\ uncommitted - unused \in Nat
  BY <1>0
<1> QED BY <1>5, <1>9, <1>10, <1>11, <1>12, <1>13, PlainStep

(* mmap keeps the invariant: a reservation commits a page for each slot.   *)
LEMMA CreateStep ==
    ASSUME MemoryInv, NEW o \in Object, NEW strategy \in {"Reserve", "None"},
           NEW purgeable \in BOOLEAN, Create(o, strategy, purgeable)
    PROVE  MemoryInv'
<1> DEFINE reserved == IF strategy = "Reserve" THEN Cardinality(Index) ELSE 0
           initial == IF strategy = "Reserve" THEN Lazy ELSE Zero
<1>1. /\ panic = Null /\ panic' = panic /\ obj[o] = Null /\ reserved <= uncommitted
      /\ obj' = [obj EXCEPT ![o] = NewObject(initial, reserved, purgeable, FALSE)]
      /\ committed' = committed + reserved /\ uncommitted' = uncommitted - reserved
      /\ count' = count /\ fault' = fault
  BY Zenon DEF Create
<1>2. Cardinality(Index) \in Nat
  BY FiniteAssumption, FS_CardinalityType
<1>3. /\ initial \in {Zero, Lazy} /\ reserved \in Nat
      /\ initial = Lazy => reserved = Cardinality(Index)
      /\ initial = Zero => reserved = 0
  BY <1>2, PageAssumption
<1> HIDE DEF reserved, initial
<1> QED BY <1>1, <1>3, NewObjectStep, FALSE \in BOOLEAN

(* So does a fork of an object without anything to share.                  *)
LEMMA CloneNothingStep ==
    ASSUME MemoryInv, NEW o \in Object, NEW c \in Object, CloneNothing(o, c)
    PROVE  MemoryInv'
<1>0. committed \in Nat /\ uncommitted \in Nat
  BY Now
<1>1. PICK b \in BOOLEAN : obj' = [obj EXCEPT ![c] = NewObject(Zero, 0, b, b)]
  BY DEF CloneNothing
<1>2. /\ panic = Null /\ panic' = panic /\ obj[c] = Null
      /\ count' = count /\ fault' = fault
      /\ committed' = committed /\ uncommitted' = uncommitted
  BY DEF CloneNothing
<1>3. /\ committed' = committed + 0 /\ uncommitted' = uncommitted - 0 /\ 0 <= uncommitted /\ 0 \in Nat
  BY <1>0, <1>2
<1> QED BY <1>1, <1>2, <1>3, NewObjectStep, PageAssumption

-----------------------------------------------------------------------------
(* The operations.                                                         *)

(* The counters com and unc after an object whose committed pages go from  *)
(* before to after, with k pages that come into use.                       *)
Rebooked(com, unc, before, after, k) ==
    /\ com \in Nat /\ unc \in Nat
    /\ com + before = committed + after
    /\ com + unc + k = committed + uncommitted

(* One object changes, and no page comes into use.                         *)
LEMMA ChangeStep ==
    ASSUME MemoryInv, panic = Null, panic' = panic, NEW o \in Object, obj[o] # Null,
           NEW m \in ObjectRecord, NEW n, n = [obj EXCEPT ![o] = m],
           NEW fs, Sound(n, fs), NEW com, NEW unc, Settle(n, count, fs, com, unc),
           Rebooked(com, unc, obj[o].unused, m.unused, 0),
           \A i \in Index : m.page[i] \in InUse(obj, fault) \cup {Zero, Lazy},
           \A t \in Thread : fs[t] # Null => fs[t].seen \in InUse(obj, fault) \cup {Zero, Lazy}
    PROVE  MemoryInv'
<1>1. /\ n[o] = m /\ \A q \in Object \ {o} : n[q] = obj[q]
      /\ obj \in [Object -> ObjectRecord \cup {Null}]
      /\ count \in [CowSet -> Nat]
  BY Now
<1>2. Cardinality(InUse(n, fs) \ InUse(obj, fault)) = 0
  <2>1. \A q \in Object, i \in Index : n[q] # Null =>
             n[q].page[i] \in InUse(obj, fault) \cup {Zero, Lazy}
    BY <1>1, PagesNow
  <2> QED BY <2>1, KeepsPages
<1>3. Unused(obj)[o] = obj[o].unused
  BY <1>1, UnusedType
<1>4. /\ com \in Nat /\ unc \in Nat
      /\ com + unc + Cardinality(InUse(n, fs) \ InUse(obj, fault)) = committed + uncommitted
      /\ com + Unused(obj)[o] = committed + m.unused
  BY <1>2, <1>3, Zenon DEF Rebooked
<1>5. Accounts(n, count, fs, com, unc)
  BY <1>4, AccountsAt
<1> QED BY <1>1, <1>4, <1>5, SettleStep

(* Only the faults change, and no page comes into use.                     *)
LEMMA FaultStep ==
    ASSUME MemoryInv, NEW fs,
           \A t \in Thread : fs[t] # Null => fs[t].seen \in InUse(obj, fault) \cup {Zero, Lazy}
    PROVE  Accounts(obj, count, fs, committed, uncommitted)
<1>1. Cardinality(InUse(obj, fs) \ InUse(obj, fault)) = 0
  BY PagesNow, KeepsPages
<1>2. committed + uncommitted + 0 = Cardinality(FreePages)
  BY Now
<1> QED BY <1>1, <1>2, Now DEF Accounts

(* So does madvise when it makes an object non-volatile: nothing was       *)
(* committed for it while it was volatile, and now a page is for each slot *)
(* without one.                                                            *)
LEMMA SetNonVolatileStep ==
    ASSUME MemoryInv, NEW o \in Object, SetNonVolatile(o)
    PROVE  MemoryInv'
<1> DEFINE needed == Cardinality({i \in Index : obj[o].page[i] = Zero})
           r == [obj[o] EXCEPT
                   !.page = [i \in Index |-> IF obj[o].page[i] = Zero THEN Lazy ELSE obj[o].page[i]],
                   !.unused = needed, !.volatile = FALSE]
           m == IF needed = 0 THEN [obj[o] EXCEPT !.volatile = FALSE] ELSE RemapAll(r)
           n == [obj EXCEPT ![o] = m]
<1>1. /\ panic = Null /\ panic' = panic /\ count' = count /\ fault' = fault
      /\ obj[o] # Null /\ obj[o].purgeable /\ obj[o].volatile
      /\ needed <= uncommitted
      /\ committed' = committed + needed /\ uncommitted' = uncommitted - needed
  BY DEF SetNonVolatile
<1>2. obj' = n
  <2>1. obj' = [obj EXCEPT ![o] = IF needed = 0 THEN [@ EXCEPT !.volatile = FALSE]
                                        ELSE RemapAll(r)]
    BY DEF SetNonVolatile
  <2>2. o \in DOMAIN obj
    BY Now
  <2> QED BY <2>1, <2>2
<1>3. /\ obj \in [Object -> ObjectRecord \cup {Null}] /\ committed \in Nat /\ uncommitted \in Nat
      /\ obj[o] \in ObjectRecord /\ RecordOK(obj[o])
  BY <1>1, Now DEF MemoryInv, Sound
<1>4. obj[o].unused = 0
  BY <1>1, <1>3 DEF RecordOK
<1>5. \A i \in Index : obj[o].page[i] # Lazy
  <2>1. IsFiniteSet(LazySlots(obj[o]))
    BY FiniteAssumption, FS_Subset DEF LazySlots
  <2>2. Cardinality(LazySlots(obj[o])) \in Nat
    BY <2>1, FS_CardinalityType
  <2>3. Cardinality(LazySlots(obj[o])) <= 0
    BY <1>3, <1>4 DEF RecordOK
  <2>4. Cardinality(LazySlots(obj[o])) = 0
    BY <2>2, <2>3
  <2>5. LazySlots(obj[o]) = {}
    BY <2>1, <2>4, FS_EmptySet
  <2> QED BY <2>5 DEF LazySlots
<1>6. IsFiniteSet({i \in Index : obj[o].page[i] = Zero}) /\ needed \in Nat
  BY FiniteAssumption, FS_Subset, FS_CardinalityType
<1>7. /\ m \in ObjectRecord /\ m.purgeable /\ ~m.volatile /\ m.unused = needed
      /\ m.shared = obj[o].shared
      /\ \A i \in Index : m.page[i] = IF obj[o].page[i] = Zero THEN Lazy ELSE obj[o].page[i]
  <2>1. CASE needed = 0
    <3>1. {i \in Index : obj[o].page[i] = Zero} = {}
      BY <1>6, <2>1, FS_EmptySet
    <3>2. m = [obj[o] EXCEPT !.volatile = FALSE]
      BY <2>1
    <3> HIDE DEF m, needed
    <3> QED BY <1>1, <1>3, <1>4, <2>1, <3>1, <3>2 DEF ObjectRecord
  <2>2. CASE needed # 0
    <3>1. m = RemapAll(r)
      BY <2>2
    <3> HIDE DEF m, needed
    <3>2. /\ r \in ObjectRecord /\ r.purgeable /\ ~r.volatile /\ r.unused = needed
          /\ r.shared = obj[o].shared
          /\ \A i \in Index : r.page[i] = IF obj[o].page[i] = Zero THEN Lazy ELSE obj[o].page[i]
      BY <1>1, <1>3, <1>6 DEF ObjectRecord
    <3> HIDE DEF r
    <3> QED BY <3>1, <3>2, RemapAllFacts
  <2> QED BY <2>1, <2>2
<1> HIDE DEF m
<1>8. RecordOK(m)
  <2>1. LazySlots(m) = {i \in Index : obj[o].page[i] = Zero}
    BY <1>5, <1>7 DEF LazySlots
  <2>2. Cardinality(LazySlots(m)) = needed
    BY <2>1
  <2>3. \A i \in Index : m.page[i] # Zero
    BY <1>7, PageAssumption
  <2> HIDE DEF needed
  <2> QED BY <1>6, <1>7, <2>2, <2>3 DEF RecordOK
<1> HIDE DEF needed, r
<1>9. \A i \in Index : IsReal(m.page[i]) => m.page[i] = obj[o].page[i]
  BY <1>7 DEF IsReal
<1>10. Sound(n, fault)
  <2>1. m.purgeable = obj[o].purgeable
    BY <1>1, <1>7, Now DEF ObjectRecord
  <2>2. Sound(obj, fault)
    BY DEF MemoryInv
  <2>3. m \in ObjectRecord /\ m.purgeable
    BY <1>7
  <2>4. \A i \in Index : IsReal(m.page[i]) =>
             \/ /\ m.page[i] = obj[o].page[i]
                /\ ~m.purgeable /\ obj[o].cow # Null /\ i \in obj[o].cow => i \in m.cow
             \/ \A q \in Object \ {o} : obj[q] # Null => \A j \in Index : obj[q].page[j] # m.page[i]
    BY <1>9, <2>3
  <2>5. ~m.purgeable =>
             /\ obj[o].cow # Null => m.cow # Null
             /\ \A i \in Index : /\ IsReal(obj[o].page[i]) => IsReal(m.page[i])
                                 /\ obj[o].page[i] = Lazy => m.page[i] # Zero
    BY <2>3
  <2>6. obj[o] # Null /\ m \in ObjectRecord
    BY <1>1, <1>7
  <2>7. Sound([obj EXCEPT ![o] = m], fault)
    BY <1>8, <2>1, <2>2, <2>4, <2>5, <2>6, ChangeObject
  <2> QED BY <2>7
<1>11. /\ n[o] = m /\ m # Null /\ \A q \in Object \ {o} : n[q] = obj[q]
       /\ n = [obj EXCEPT ![o] = m]
  BY <1>3, <1>7, RecordAssumption
<1> HIDE DEF n
<1>12. Accounts(n, count, fault, committed + needed, uncommitted - needed)
  <2> DEFINE com == committed + needed
             unc == uncommitted - needed
  <2>1. \A q \in Object, i \in Index : n[q] # Null =>
             n[q].page[i] \in InUse(obj, fault) \cup {Zero, Lazy}
    BY <1>1, <1>7, <1>11, PagesNow
  <2>2. Cardinality(InUse(n, fault) \ InUse(obj, fault)) = 0
    BY <2>1, PagesNow, KeepsPages
  <2>3. Unused(obj)[o] = 0
    BY <1>1, <1>3, <1>4, UnusedType
  <2>4. /\ com \in Nat /\ unc \in Nat
        /\ com + unc + 0 = committed + uncommitted
        /\ com + 0 = committed + needed
    BY <1>1, <1>3, <1>6
  <2> HIDE DEF com, unc
  <2>5. /\ com + Unused(obj)[o] = committed + m.unused
        /\ com + unc + Cardinality(InUse(n, fault) \ InUse(obj, fault)) = committed + uncommitted
    BY <1>7, <2>2, <2>3, <2>4
  <2>6. Accounts(n, count, fault, com, unc)
    BY <1>7, <1>11, <2>4, <2>5, AccountsAt
  <2> QED BY <2>6 DEF com, unc
<1>13. InUse(obj, fault) \subseteq InUse(n, fault)
  <2> SUFFICES ASSUME NEW p \in InUse(obj, fault) PROVE p \in InUse(n, fault)
    OBVIOUS
  <2>1. p \in Page /\ p # Zero
    BY InUseFacts, PageAssumption
  <2>2. CASE \E q \in Object, i \in Index : obj[q] # Null /\ obj[q].page[i] = p
    <3>1. PICK q \in Object, i \in Index : obj[q] # Null /\ obj[q].page[i] = p
      BY <2>2
    <3>2. n[q] # Null /\ n[q].page[i] = p
      BY <1>7, <1>11, <2>1, <3>1
    <3> QED BY <2>1, <3>1, <3>2, InUseFacts
  <2>3. CASE \E t \in Thread : fault[t] # Null /\ fault[t].seen = p
    BY <2>1, <2>3, InUseFacts
  <2> QED BY <2>1, <2>2, <2>3, InUseFacts
<1>14. Referenced(obj) \subseteq Referenced(n)
  <2> SUFFICES ASSUME NEW s \in Referenced(obj) PROVE s \in Referenced(n)
    OBVIOUS
  <2>1. PICK q \in Object : obj[q] # Null /\ obj[q].shared = s /\ s # Null
    BY ReferencedFacts
  <2>2. n[q] # Null /\ n[q].shared = s
    BY <1>7, <1>11, <2>1
  <2> QED BY <2>1, <2>2, ReferencedFacts
<1>15. committed + needed \in Nat /\ uncommitted - needed \in Nat
  BY <1>1, <1>3, <1>6
<1> QED BY <1>1, <1>2, <1>10, <1>12, <1>13, <1>14, <1>15, PlainStep

(* The beginning of a fault keeps the invariant: the fault refers to a     *)
(* page that is in use.                                                    *)
LEMMA FaultBeginStep ==
    ASSUME MemoryInv, NEW t \in Thread, NEW o \in Object, NEW i \in Index, FaultBegin(t, o, i)
    PROVE  MemoryInv'
<1> DEFINE f == [object |-> o, index |-> i, seen |-> obj[o].page[i],
                 stage |-> IF IsReal(obj[o].page[i]) THEN "check" ELSE "zero"]
           fs == [fault EXCEPT ![t] = f]
<1>1. /\ panic = Null /\ panic' = panic /\ fault[t] = Null /\ obj[o] # Null
      /\ fault' = fs /\ obj' = obj /\ count' = count
      /\ committed' = committed /\ uncommitted' = uncommitted
  BY DEF FaultBegin
<1>2. /\ obj[o].page[i] \in Page \cup {Zero, Lazy}
      /\ obj[o].page[i] \in InUse(obj, fault) \cup {Zero, Lazy}
      /\ fault \in [Thread -> FaultRecord \cup {Null}]
  BY <1>1, Now, PagesNow DEF ObjectRecord
<1>3. /\ f \in FaultRecord /\ f.object = o /\ f.index = i /\ f.seen = obj[o].page[i]
      /\ f.stage = IF IsReal(obj[o].page[i]) THEN "check" ELSE "zero"
  BY <1>2 DEF FaultRecord
<1> HIDE DEF f
<1>4. FaultOK(obj[o], f)
  <2>1. CASE IsReal(obj[o].page[i])
    BY <1>3, <2>1 DEF FaultOK
  <2>2. CASE ~IsReal(obj[o].page[i])
    BY <1>3, <2>2, PageAssumption DEF FaultOK
  <2> QED BY <2>1, <2>2
<1>5. Sound(obj, fs)
  BY <1>1, <1>3, <1>4, ChangeFault DEF MemoryInv
<1>6. fs[t] = f /\ \A u \in Thread \ {t} : fs[u] = fault[u]
  BY <1>2
<1> HIDE DEF fs
<1>7. Accounts(obj, count, fs, committed, uncommitted)
  <2>1. \A u \in Thread : fs[u] # Null => fs[u].seen \in InUse(obj, fault) \cup {Zero, Lazy}
    BY <1>2, <1>3, <1>6, PagesNow
  <2> QED BY <2>1, FaultStep
<1>8. InUse(obj, fault) \subseteq InUse(obj, fs)
  BY <1>1, <1>6, InUseFacts
<1> QED BY <1>1, <1>5, <1>7, <1>8, Now, PlainStep

(* So does the end of a fault that refers to no page.                      *)
LEMMA LeaveStep ==
    ASSUME MemoryInv, panic = Null, NEW t \in Thread, fault[t] # Null, fault[t].seen = Zero,
           fault' = Done(t), UNCHANGED <<obj, count, committed, uncommitted, panic>>
    PROVE  MemoryInv'
<1> DEFINE fs == Done(t)
<1>1. /\ fault' = fs /\ obj' = obj /\ count' = count /\ panic' = panic
      /\ committed' = committed /\ uncommitted' = uncommitted
  OBVIOUS
<1>2. Sound(obj, fs)
  BY DoneSound DEF MemoryInv
<1>4. fs[t] = Null /\ \A u \in Thread \ {t} : fs[u] = fault[u]
  BY Now DEF Done
<1> HIDE DEF fs
<1>5. Accounts(obj, count, fs, committed, uncommitted)
  <2>1. \A u \in Thread : fs[u] # Null => fs[u].seen \in InUse(obj, fault) \cup {Zero, Lazy}
    BY <1>4, PagesNow
  <2> QED BY <2>1, FaultStep
<1>6. InUse(obj, fault) \subseteq InUse(obj, fs)
  <2> SUFFICES ASSUME NEW p \in InUse(obj, fault) PROVE p \in InUse(obj, fs)
    OBVIOUS
  <2>1. p \in Page /\ p # Zero
    BY InUseFacts, PageAssumption
  <2> QED BY <1>4, <2>1, InUseFacts
<1> QED BY <1>1, <1>2, <1>5, <1>6, Now, PlainStep

(* So does the end of a fault that got no page.                            *)
LEMMA CrashStep ==
    ASSUME MemoryInv, NEW t \in Thread, Crash(t)
    PROVE  MemoryInv'
<1>1. /\ panic = Null /\ fault[t] # Null /\ fault[t].stage \in {"cow denied", "zero denied"}
      /\ fault' = Done(t) /\ UNCHANGED <<obj, count, committed, uncommitted, panic>>
  BY DEF Crash
<1>2. FaultOK(obj[fault[t].object], fault[t])
  BY <1>1 DEF MemoryInv, Sound
<1>3. fault[t].seen = Zero
  BY <1>1, <1>2 DEF FaultOK
<1> QED BY <1>1, <1>3, LeaveStep

(* What an object was promised is committed.                               *)
LEMMA UnusedBound ==
    ASSUME MemoryInv, NEW o \in Object, obj[o] # Null
    PROVE  obj[o].unused \in Nat /\ obj[o].unused <= committed
<1>1. obj \in [Object -> ObjectRecord \cup {Null}]
  BY Now
<1>2. /\ \A q \in Object : Unused(obj)[q] \in Nat
      /\ Unused(obj)[o] = obj[o].unused
  BY <1>1, UnusedType
<1>3. Promised(obj) = Unused(obj)[o] + SumFunctionOnSet(Unused(obj), Object \ {o})
  BY <1>2, SumRemove, FiniteAssumption DEF Promised
<1>4. SumFunctionOnSet(Unused(obj), Object \ {o}) \in Nat
  <2>1. IsFiniteSet(Object \ {o}) /\ \A q \in Object \ {o} : Unused(obj)[q] \in Nat
    BY <1>2, FiniteAssumption, FS_Subset
  <2> QED BY <2>1, SumType
<1>5. Unused(obj)[o] <= Promised(obj) /\ Promised(obj) <= committed
  <2>1. /\ committed = Promised(obj) + SumFunctionOnSet(count, CowSet)
        /\ Promised(obj) \in Nat /\ SumFunctionOnSet(count, CowSet) \in Nat
    BY Now
  <2> QED BY <1>2, <1>3, <1>4, <2>1
<1> QED BY <1>2, <1>5, Now

(* madvise, when it makes an object volatile, keeps the invariant: it      *)
(* gives back what was committed for the object.                           *)
LEMMA SetVolatileStep ==
    ASSUME MemoryInv, NEW o \in Object, SetVolatile(o)
    PROVE  MemoryInv'
<1> DEFINE r == [obj[o] EXCEPT
                   !.page = [i \in Index |-> IF obj[o].page[i] = Lazy THEN Zero ELSE obj[o].page[i]],
                   !.unused = 0, !.shared = Null, !.cow = Null, !.volatile = TRUE]
           m == RemapAll(r)
           n == [obj EXCEPT ![o] = m]
           com == committed - obj[o].unused
           unc == uncommitted + obj[o].unused
<1>1. /\ panic = Null /\ panic' = panic /\ obj[o] # Null /\ obj[o].purgeable
      /\ Settle(n, count, fault, com, unc)
  BY DEF SetVolatile
<1>2. /\ obj \in [Object -> ObjectRecord \cup {Null}] /\ committed \in Nat /\ uncommitted \in Nat
      /\ obj[o] \in ObjectRecord
  BY <1>1, Now
<1>3. /\ r \in ObjectRecord /\ r.unused = 0 /\ r.purgeable = obj[o].purgeable
      /\ \A i \in Index : r.page[i] = IF obj[o].page[i] = Lazy THEN Zero ELSE obj[o].page[i]
  BY <1>2 DEF ObjectRecord
<1> HIDE DEF r
<1>4. /\ m \in ObjectRecord /\ m.unused = 0 /\ m.purgeable = obj[o].purgeable
      /\ \A i \in Index : m.page[i] = IF obj[o].page[i] = Lazy THEN Zero ELSE obj[o].page[i]
  BY <1>3, RemapAllFacts
<1> HIDE DEF m
<1>5. RecordOK(m)
  <2>1. LazySlots(m) = {}
    BY <1>4, PageAssumption DEF LazySlots
  <2>2. Cardinality(LazySlots(m)) = 0
    BY <2>1, FS_EmptySet
  <2> QED BY <1>1, <1>4, <2>2 DEF RecordOK
<1>6. Sound(n, fault)
  <2>1. Sound(obj, fault) /\ obj[o] # Null
    BY <1>1 DEF MemoryInv
  <2>2. m.purgeable
    BY <1>1, <1>4
  <2>3. \A i \in Index : IsReal(m.page[i]) =>
             \/ /\ m.page[i] = obj[o].page[i]
                /\ ~m.purgeable /\ obj[o].cow # Null /\ i \in obj[o].cow => i \in m.cow
             \/ \A q \in Object \ {o} : obj[q] # Null => \A j \in Index : obj[q].page[j] # m.page[i]
    BY <1>4, <2>2 DEF IsReal
  <2>4. ~m.purgeable =>
             /\ obj[o].cow # Null => m.cow # Null
             /\ \A i \in Index : /\ IsReal(obj[o].page[i]) => IsReal(m.page[i])
                                 /\ obj[o].page[i] = Lazy => m.page[i] # Zero
    BY <2>2
  <2> QED BY <1>4, <1>5, <2>1, <2>3, <2>4, ChangeObject
<1>7. Rebooked(com, unc, obj[o].unused, m.unused, 0)
  BY <1>1, <1>2, <1>4, UnusedBound DEF Rebooked
<1>8. \A i \in Index : m.page[i] \in InUse(obj, fault) \cup {Zero, Lazy}
  BY <1>1, <1>4, PagesNow
<1>9. n = [obj EXCEPT ![o] = m]
  OBVIOUS
<1> HIDE DEF n, com, unc
<1>10. /\ panic = Null /\ panic' = panic /\ obj[o] # Null /\ m \in ObjectRecord
       /\ Settle(n, count, fault, com, unc)
  BY <1>1, <1>4
<1>11. \A t \in Thread : fault[t] # Null => fault[t].seen \in InUse(obj, fault) \cup {Zero, Lazy}
  BY PagesNow
<1> QED BY <1>6, <1>7, <1>8, <1>9, <1>10, <1>11, ChangeStep

(* sys$purge keeps the invariant: nothing is committed for a volatile      *)
(* object, and the pages that it had are given back.                       *)
LEMMA PurgeStep ==
    ASSUME MemoryInv, NEW o \in Object, Purge(o)
    PROVE  MemoryInv'
<1> DEFINE m == Purged(obj[o])
           n == [obj EXCEPT ![o] = m]
<1>1. /\ panic = Null /\ panic' = panic /\ obj[o] # Null /\ obj[o].purgeable /\ obj[o].volatile
      /\ Settle(n, count, fault, committed, uncommitted)
  BY DEF Purge
<1>2. obj[o] \in ObjectRecord /\ obj[o].unused \in Nat /\ committed \in Nat /\ uncommitted \in Nat
  BY <1>1, Now DEF ObjectRecord
<1>3. m \in ObjectRecord /\ m.unused = obj[o].unused /\ \A i \in Index : m.page[i] = Zero
  BY <1>2, PurgeFacts
<1>4. Sound(n, fault)
  BY <1>1, PurgeSound DEF MemoryInv
<1>5. n = [obj EXCEPT ![o] = m]
  OBVIOUS
<1> HIDE DEF m, n
<1>6. Rebooked(committed, uncommitted, obj[o].unused, m.unused, 0)
  BY <1>2, <1>3 DEF Rebooked
<1>7. \A t \in Thread : fault[t] # Null => fault[t].seen \in InUse(obj, fault) \cup {Zero, Lazy}
  BY PagesNow
<1>8. \A i \in Index : m.page[i] \in InUse(obj, fault) \cup {Zero, Lazy}
  BY <1>3
<1> QED BY <1>1, <1>3, <1>4, <1>5, <1>6, <1>7, <1>8, ChangeStep

(* What PanicExplained asks of a fault f on object r.                      *)
Explains(why, r, f) ==
    /\ why = "VERIFY" => r.purgeable
    /\ why = "unhandled page fault" =>
         r.purgeable \/ (IsReal(r.page[f.index]) /\ should_cow(r, f.index))

(* Nothing changes but the reason to stop.                                 *)
LEMMA PanicOnly ==
    ASSUME MemoryInv, UNCHANGED <<obj, count, fault, committed, uncommitted>>,
           panic' \in PanicRecord \cup {Null}, PanicExplained'
    PROVE  MemoryInv'
<1>1. /\ obj' = obj /\ count' = count /\ fault' = fault
      /\ committed' = committed /\ uncommitted' = uncommitted
  OBVIOUS
<1>2. Sound(obj, fault)'
  <2>1. Sound(obj', fault')
    BY <1>1 DEF MemoryInv
  <2> QED BY <2>1 DEF Sound, CopiedBy
<1>3. TypeOK'
  BY <1>1, Zenon DEF MemoryInv, TypeOK
<1>4. Accounting'
  <2>1. SumFunction(count)' = SumFunction(count)
    BY <1>1
  <2>2. SumFunction([q \in Live(obj) |-> obj[q].unused])' = SumFunction([q \in Live(obj) |-> obj[q].unused])
    BY <1>1 DEF Live
  <2>3. Cardinality(FreePages)' = Cardinality(FreePages)
    BY <1>1 DEF FreePages, InUse, Live
  <2>4. Referenced(obj)' = Referenced(obj)
    BY <1>1 DEF Referenced, Live
  <2>5. Accounting
    BY DEF MemoryInv
  <2> QED BY <1>1, <2>1, <2>2, <2>3, <2>4, <2>5, Zenon DEF Accounting
<1> QED BY <1>2, <1>3, <1>4 DEF MemoryInv

(* The system stops for a reason that PanicExplained allows.               *)
LEMMA PanicStep ==
    ASSUME MemoryInv, NEW t \in Thread,
           NEW why \in {"VERIFY", "unhandled page fault", "purge", "unmap"}, Panic(t, why),
           Explains(why, obj[fault[t].object], fault[t])
    PROVE  MemoryInv'
<1>1. UNCHANGED <<obj, count, fault, committed, uncommitted>>
  BY DEF Panic
<1>2. panic' = [why |-> why, by |-> t]
  BY DEF Panic
<1>3. /\ panic' \in PanicRecord \cup {Null}
      /\ panic'.why = why /\ panic'.by = t
  BY <1>2 DEF PanicRecord
<1>4. PanicExplained'
  BY <1>1, <1>3 DEF PanicExplained, Explains, should_cow
<1> QED BY <1>1, <1>3, <1>4, PanicOnly

(* A fault in progress.                                                    *)
LEMMA FaultFacts ==
    ASSUME MemoryInv, NEW t \in Thread, fault[t] # Null
    PROVE  /\ fault[t] \in FaultRecord
           /\ fault[t].object \in Object /\ fault[t].index \in Index
           /\ obj[fault[t].object] # Null /\ obj[fault[t].object] \in ObjectRecord
           /\ RecordOK(obj[fault[t].object])
           /\ FaultOK(obj[fault[t].object], fault[t])
<1>1. fault[t] \in FaultRecord
  BY Now
<1>2. fault[t].object \in Object /\ fault[t].index \in Index
  BY <1>1 DEF FaultRecord
<1>3. obj[fault[t].object] # Null /\ FaultOK(obj[fault[t].object], fault[t])
  BY DEF MemoryInv, Sound
<1> QED BY <1>1, <1>2, <1>3, Now DEF MemoryInv, Sound

(* The end of a fault refers to no page that was not in use.               *)
LEMMA DoneFacts ==
    ASSUME MemoryInv, NEW t \in Thread
    PROVE  /\ Done(t) \in [Thread -> FaultRecord \cup {Null}]
           /\ Done(t)[t] = Null
           /\ \A u \in Thread \ {t} : Done(t)[u] = fault[u]
           /\ \A u \in Thread : Done(t)[u] # Null =>
                Done(t)[u].seen \in InUse(obj, fault) \cup {Zero, Lazy}
<1>1. /\ Done(t) \in [Thread -> FaultRecord \cup {Null}]
      /\ Done(t)[t] = Null
      /\ \A u \in Thread \ {t} : Done(t)[u] = fault[u]
  BY Now DEF Done
<1> QED BY <1>1, PagesNow

(* The look at the map keeps the invariant: the page is to be copied, or   *)
(* it is there, and the fault lets go of what it saw.                      *)
LEMMA FaultCheckStep ==
    ASSUME MemoryInv, NEW t \in Thread, FaultCheck(t)
    PROVE  MemoryInv'
<1> DEFINE o == fault[t].object
           i == fault[t].index
           f == [fault[t] EXCEPT !.stage = "cow"]
           fs == [fault EXCEPT ![t] = f]
<1>1. panic = Null /\ fault[t] # Null /\ fault[t].stage = "check"
  BY DEF FaultCheck
<1>2. /\ fault[t] \in FaultRecord /\ o \in Object /\ i \in Index
      /\ obj[o] # Null /\ obj[o] \in ObjectRecord /\ RecordOK(obj[o]) /\ FaultOK(obj[o], fault[t])
  BY <1>1, FaultFacts
<1>3. /\ fault \in [Thread -> FaultRecord \cup {Null}] /\ obj \in [Object -> ObjectRecord \cup {Null}]
      /\ committed \in Nat /\ uncommitted \in Nat
  BY Now
<1>4. CASE /\ should_cow(obj[o], i) /\ fault' = [fault EXCEPT ![t].stage = "cow"]
           /\ UNCHANGED <<obj, count, committed, uncommitted, panic>>
  <2>1. /\ fault' = fs /\ panic' = panic /\ obj' = obj /\ count' = count
        /\ committed' = committed /\ uncommitted' = uncommitted
    BY <1>3, <1>4
  <2>2. /\ f \in FaultRecord /\ f.object = o /\ f.index = i /\ f.seen = fault[t].seen
        /\ f.stage = "cow"
    BY <1>2 DEF FaultRecord
  <2> HIDE DEF f
  <2>3. FaultOK(obj[o], f)
    BY <1>1, <1>2, <1>4, <2>2 DEF FaultOK, should_cow
  <2>4. Sound(obj, fs)
    BY <1>2, <2>2, <2>3, ChangeFault DEF MemoryInv
  <2>5. fs[t] = f /\ f # Null /\ \A u \in Thread \ {t} : fs[u] = fault[u]
    BY <1>3, <2>2, RecordAssumption
  <2> HIDE DEF fs
  <2>6. Accounts(obj, count, fs, committed, uncommitted)
    <3>1. \A u \in Thread : fs[u] # Null => fs[u].seen \in InUse(obj, fault) \cup {Zero, Lazy}
      BY <1>1, <2>2, <2>5, PagesNow
    <3> QED BY <3>1, FaultStep
  <2>7. InUse(obj, fault) \subseteq InUse(obj, fs)
    <3> SUFFICES ASSUME NEW p \in InUse(obj, fault) PROVE p \in InUse(obj, fs)
      OBVIOUS
    <3>1. p \in Page
      BY InUseFacts
    <3>2. CASE \E u \in Thread : fault[u] # Null /\ fault[u].seen = p
      <4>1. PICK u \in Thread : fault[u] # Null /\ fault[u].seen = p
        BY <3>2
      <4>2. fs[u] # Null /\ fs[u].seen = p
        BY <2>2, <2>5, <4>1
      <4> QED BY <3>1, <4>2, InUseFacts
    <3> QED BY <3>1, <3>2, InUseFacts
  <2> QED BY <1>1, <1>3, <2>1, <2>4, <2>6, <2>7, PlainStep
<1>5. CASE /\ ~should_cow(obj[o], i) /\ UNCHANGED panic
           /\ Settle(obj, count, [fault EXCEPT ![t].seen = Zero, ![t].stage = "verify"],
                     committed, uncommitted)
  <2> DEFINE g == [fault[t] EXCEPT !.seen = Zero, !.stage = "verify"]
             gs == [fault EXCEPT ![t] = g]
  <2>1. Settle(obj, count, gs, committed, uncommitted) /\ panic' = panic
    BY <1>2, <1>3, <1>5 DEF FaultRecord
  <2>2. g \in FaultRecord /\ g.object = o /\ g.index = i /\ g.seen = Zero /\ g.stage = "verify"
    BY <1>2 DEF FaultRecord
  <2> HIDE DEF g
  <2>3. FaultOK(obj[o], g)
    BY <1>5, <2>2 DEF FaultOK, should_cow
  <2>4. Sound(obj, gs)
    BY <1>2, <2>2, <2>3, ChangeFault DEF MemoryInv
  <2>5. gs[t] = g /\ \A u \in Thread \ {t} : gs[u] = fault[u]
    BY <1>3
  <2> HIDE DEF gs
  <2>6. \A u \in Thread : gs[u] # Null => gs[u].seen \in InUse(obj, fault) \cup {Zero, Lazy}
    BY <2>2, <2>5, PagesNow
  <2>7. Accounts(obj, count, gs, committed, uncommitted)
    BY <2>6, FaultStep
  <2> QED BY <1>1, <1>3, <2>1, <2>4, <2>7, Now, SettleStep
<1> QED BY <1>4, <1>5 DEF FaultCheck

(* The look into the page table keeps the invariant: it tells the truth    *)
(* about an object that is not purgeable, so that a page which is there    *)
(* and cannot be written to is one that has to be copied.                  *)
LEMMA FaultVerifyStep ==
    ASSUME MemoryInv, NEW t \in Thread, FaultVerify(t)
    PROVE  MemoryInv'
<1> DEFINE o == fault[t].object
           i == fault[t].index
<1>1. panic = Null /\ fault[t] # Null /\ fault[t].stage = "verify"
  BY DEF FaultVerify
<1>2. /\ o \in Object /\ i \in Index /\ RecordOK(obj[o]) /\ FaultOK(obj[o], fault[t])
  BY <1>1, FaultFacts
<1>3. CASE fault' = Done(t) /\ UNCHANGED <<obj, count, committed, uncommitted, panic>>
  <2>1. fault[t].seen = Zero
    BY <1>1, <1>2 DEF FaultOK
  <2> QED BY <1>1, <1>3, <2>1, LeaveStep
<1>4. CASE i \notin obj[o].writable /\ Panic(t, "unhandled page fault")
  <2>1. ASSUME ~obj[o].purgeable PROVE IsReal(obj[o].page[i]) /\ should_cow(obj[o], i)
    BY <1>1, <1>2, <1>4, <2>1 DEF FaultOK, RecordOK
  <2>2. Explains("unhandled page fault", obj[o], fault[t])
    BY <2>1 DEF Explains
  <2> QED BY <1>4, <2>2, PanicStep
<1> QED BY <1>3, <1>4 DEF FaultVerify

(* munmap and exit keep the invariant: what was committed for the object   *)
(* is given back, and a shared set that only the parent held with it is    *)
(* let go.                                                                 *)
LEMMA DestroyStep ==
    ASSUME MemoryInv, NEW o \in Object, Destroy(o)
    PROVE  MemoryInv'
<1> DEFINE s == obj[o].shared
           stop == s # Null /\ count[s] > 0
           n == [q \in Object |->
                      IF q = o \/ obj[q] = Null THEN Null
                      ELSE [obj[q] EXCEPT
                             !.shared = IF stop /\ q = obj[o].parent /\ @ = s THEN Null ELSE @,
                             !.parent = IF @ = o THEN Null ELSE @]]
           com == committed - obj[o].unused
           unc == uncommitted + obj[o].unused
<1>0. ASSUME NEW t \in Thread, Panic(t, "unmap") PROVE MemoryInv'
  BY <1>0, PanicStep DEF Explains
<1> SUFFICES ASSUME panic = Null, panic' = panic, obj[o] # Null,
                    \A t \in Thread : fault[t] # Null => fault[t].object # o,
                    Settle(n, count, fault, com, unc)
             PROVE  MemoryInv'
  BY <1>0 DEF Destroy, Without
<1>1. /\ panic = Null /\ panic' = panic /\ obj[o] # Null
      /\ \A t \in Thread : fault[t] # Null => fault[t].object # o
      /\ Settle(n, count, fault, com, unc)
  OBVIOUS
<1>2. /\ obj \in [Object -> ObjectRecord \cup {Null}] /\ committed \in Nat /\ uncommitted \in Nat
      /\ obj[o] \in ObjectRecord
  BY <1>1, Now
<1> HIDE DEF stop
<1>3. ASSUME NEW q \in Object, q # o, obj[q] # Null
      PROVE  /\ n[q] \in ObjectRecord
             /\ n[q].page = obj[q].page /\ n[q].unused = obj[q].unused /\ n[q].cow = obj[q].cow
             /\ n[q].purgeable = obj[q].purgeable /\ n[q].volatile = obj[q].volatile
             /\ n[q].writable = obj[q].writable
  <2> DEFINE x == IF stop /\ q = obj[o].parent /\ obj[q].shared = s THEN Null ELSE obj[q].shared
             y == IF obj[q].parent = o THEN Null ELSE obj[q].parent
  <2>1. n[q] = [obj[q] EXCEPT !.shared = x, !.parent = y]
    BY <1>2, <1>3 DEF ObjectRecord
  <2>2. obj[q] \in ObjectRecord
    BY <1>2, <1>3
  <2>3. x \in CowSet \cup {Null} /\ y \in Object \cup {Null}
    BY <2>2 DEF ObjectRecord
  <2> HIDE DEF x, y, n
  <2> QED BY <2>1, <2>2, <2>3 DEF ObjectRecord
<1>4. n[o] = Null /\ \A q \in Object : obj[q] = Null => n[q] = Null
  OBVIOUS
<1>5. n \in [Object -> ObjectRecord \cup {Null}]
  <2>1. \A q \in Object : n[q] \in ObjectRecord \cup {Null}
    BY <1>3, <1>4
  <2>2. n = [q \in Object |-> n[q]]
    OBVIOUS
  <2> HIDE DEF n
  <2> QED BY <2>1, <2>2
<1> HIDE DEF n
<1>6. Sound(n, fault)
  <2>1. \A t \in Thread : fault[t] # Null => n[fault[t].object] # Null
    <3> SUFFICES ASSUME NEW t \in Thread, fault[t] # Null PROVE n[fault[t].object] # Null
      OBVIOUS
    <3> QED BY <1>1, <1>3, FaultFacts, RecordAssumption
  <2>2. Sound(obj, fault)
    BY DEF MemoryInv
  <2>3. \A q \in Object : n[q] # Null =>
             /\ obj[q] # Null
             /\ n[q].page = obj[q].page /\ n[q].unused = obj[q].unused /\ n[q].cow = obj[q].cow
             /\ n[q].purgeable = obj[q].purgeable /\ n[q].volatile = obj[q].volatile
             /\ n[q].writable = obj[q].writable
    BY <1>3, <1>4
  <2> QED BY <1>5, <2>1, <2>2, <2>3, DropObjects
<1>7. Cardinality(InUse(n, fault) \ InUse(obj, fault)) = 0
  <2>1. \A q \in Object, i \in Index : n[q] # Null =>
             n[q].page[i] \in InUse(obj, fault) \cup {Zero, Lazy}
    <3> SUFFICES ASSUME NEW q \in Object, NEW i \in Index, n[q] # Null
                 PROVE  n[q].page[i] \in InUse(obj, fault) \cup {Zero, Lazy}
      OBVIOUS
    <3>1. obj[q] # Null /\ n[q].page = obj[q].page
      BY <1>3, <1>4
    <3> QED BY <3>1, PagesNow
  <2> QED BY <2>1, PagesNow, KeepsPages
<1>8. Promised(n) + obj[o].unused = Promised(obj)
  <2>1. /\ \A q \in Object : /\ Unused(n)[q] = IF n[q] = Null THEN 0 ELSE n[q].unused
                             /\ Unused(obj)[q] = IF obj[q] = Null THEN 0 ELSE obj[q].unused
        /\ Promised(n) \in Nat /\ Promised(obj) \in Nat
    BY <1>2, <1>5, UnusedType
  <2>2. Unused(n)[o] = 0 /\ Unused(obj)[o] = obj[o].unused
    BY <1>1, <1>4, <2>1
  <2>3. \A q \in Object \ {o} : Unused(n)[q] = Unused(obj)[q]
    <3> SUFFICES ASSUME NEW q \in Object \ {o} PROVE Unused(n)[q] = Unused(obj)[q]
      OBVIOUS
    <3>1. CASE obj[q] = Null
      BY <1>4, <2>1, <3>1
    <3>2. CASE obj[q] # Null
      BY <1>3, <2>1, <3>2, RecordAssumption
    <3> QED BY <3>1, <3>2
  <2>4. Promised(n) + Unused(obj)[o] = Promised(obj) + Unused(n)[o]
    BY <1>2, <1>5, <2>3, PromisedChange
  <2> QED BY <2>1, <2>2, <2>4
<1>9. com \in Nat /\ unc \in Nat /\ com + unc = committed + uncommitted
  BY <1>1, <1>2, UnusedBound
<1>10. Accounts(n, count, fault, com, unc)
  <2>1. com = Promised(n) + SumFunctionOnSet(count, CowSet)
    <3>1. /\ Promised(obj) \in Nat /\ SumFunctionOnSet(count, CowSet) \in Nat
          /\ committed = Promised(obj) + SumFunctionOnSet(count, CowSet)
          /\ Promised(n) \in Nat /\ obj[o].unused \in Nat
      BY <1>1, <1>5, Now, UnusedType, UnusedBound
    <3> QED BY <1>8, <3>1
  <2>2. com + unc + 0 = Cardinality(FreePages)
    BY <1>2, <1>9, Now
  <2> HIDE DEF com, unc
  <2> QED BY <1>7, <2>1, <2>2, Now DEF Accounts
<1> HIDE DEF com, unc
<1> QED BY <1>1, <1>6, <1>9, <1>10, Now, SettleStep

(* There is always a shared set for a new clone.                           *)
LEMMA CowSetLeft ==
    ASSUME MemoryInv
    PROVE  /\ Referenced(obj) \subseteq CowSet
           /\ \E x \in CowSet : x \notin Referenced(obj)
<1> DEFINE sh == [q \in Live(obj) |-> obj[q].shared]
           I == {obj[q].shared : q \in Live(obj)}
<1>1. Live(obj) \subseteq Object /\ IsFiniteSet(Live(obj))
  BY FiniteAssumption, FS_Subset DEF Live
<1>2. IsFiniteSet(I) /\ Cardinality(I) <= Cardinality(Live(obj))
  <2>1. I = {sh[q] : q \in Live(obj)}
    OBVIOUS
  <2>2. sh \in [Live(obj) -> I] /\ \A y \in I : \E q \in Live(obj) : sh[q] = y
    OBVIOUS
  <2>3. sh \in Surjection(Live(obj), I)
    BY <2>2 DEF Surjection
  <2> HIDE DEF sh, I
  <2> QED BY <1>1, <2>3, FS_Surjection
<1>3. Cardinality(Live(obj)) <= Cardinality(Object)
  BY <1>1, FiniteAssumption, FS_Subset
<1>4. Referenced(obj) \subseteq I /\ Referenced(obj) \subseteq CowSet
  <2>1. \A q \in Object : obj[q] # Null => obj[q].shared \in CowSet \cup {Null}
    BY Now DEF ObjectRecord
  <2> QED BY <2>1 DEF Referenced, Live
<1> HIDE DEF I
<1>5. IsFiniteSet(Referenced(obj)) /\ Cardinality(Referenced(obj)) <= Cardinality(I)
  BY <1>2, <1>4, FS_Subset
<1>6. ASSUME CowSet \subseteq Referenced(obj) PROVE FALSE
  <2>1. Cardinality(CowSet) <= Cardinality(Referenced(obj))
    BY <1>5, <1>6, FS_Subset
  <2>2. /\ Cardinality(CowSet) \in Nat /\ Cardinality(Referenced(obj)) \in Nat
        /\ Cardinality(I) \in Nat /\ Cardinality(Live(obj)) \in Nat /\ Cardinality(Object) \in Nat
    BY <1>1, <1>2, <1>5, FiniteAssumption, FS_CardinalityType
  <2> QED BY <1>2, <1>3, <1>5, <2>1, <2>2, CowSetAssumption
<1> QED BY <1>4, <1>6

(* A slot that shows the lazy page has something committed for it.         *)
LEMMA LazyHasUnused ==
    ASSUME NEW r \in ObjectRecord, RecordOK(r), NEW i \in Index, r.page[i] = Lazy
    PROVE  r.unused > 0
<1>1. IsFiniteSet(LazySlots(r)) /\ i \in LazySlots(r)
  BY FiniteAssumption, FS_Subset DEF LazySlots
<1>2. Cardinality(LazySlots(r)) \in Nat /\ Cardinality(LazySlots(r)) # 0
  BY <1>1, FS_CardinalityType, FS_EmptySet
<1>3. Cardinality(LazySlots(r)) <= r.unused /\ r.unused \in Nat
  BY DEF RecordOK, ObjectRecord
<1> QED BY <1>2, <1>3

(* fork keeps the invariant: both objects copy every page that they share, *)
(* and a page is committed for each.                                       *)
LEMMA CloneStep ==
    ASSUME MemoryInv, NEW o \in Object, NEW c \in Object, Clone(o, c)
    PROVE  MemoryInv'
<1> DEFINE s == CHOOSE x \in CowSet : x \notin Referenced(obj)
           needed == Cardinality(RealIndices(obj[o]))
           cowed == [BecomesCow(obj[o]) EXCEPT !.shared = s]
           parent == RemapAll(cowed)
           clone == [NewObject(Zero, 0, obj[o].purgeable, FALSE) EXCEPT
                       !.page = ClonedPages(obj[o]), !.cow = RealIndices(obj[o]),
                       !.shared = s, !.parent = o]
           n1 == [obj EXCEPT ![o] = parent]
           n == [n1 EXCEPT ![c] = clone]
           cs == [count EXCEPT ![s] = needed]
           com == committed + needed
           unc == uncommitted - needed
<1>1. /\ panic = Null /\ panic' = panic /\ obj[o] # Null /\ obj[c] = Null /\ o # c
      /\ needed <= uncommitted
      /\ Settle(n, cs, fault, com, unc)
  BY DEF Clone
<1>2. /\ obj \in [Object -> ObjectRecord \cup {Null}] /\ committed \in Nat /\ uncommitted \in Nat
      /\ obj[o] \in ObjectRecord /\ RecordOK(obj[o]) /\ count \in [CowSet -> Nat]
  BY <1>1, Now DEF MemoryInv, Sound
<1>3. s \in CowSet /\ s \notin Referenced(obj) /\ s # Null
  BY CowSetLeft, NullAssumption
<1> HIDE DEF s
<1>4. /\ RealIndices(obj[o]) \in SUBSET Index /\ RealIndices(obj[o]) # Null
      /\ \A i \in Index : i \in RealIndices(obj[o]) <=> IsReal(obj[o].page[i])
  BY NullAssumption DEF RealIndices
<1>5. needed \in Nat
  BY <1>4, FiniteAssumption, FS_Subset, FS_CardinalityType
<1> HIDE DEF needed
<1>6. /\ cowed \in ObjectRecord /\ cowed.page = obj[o].page /\ cowed.unused = obj[o].unused
      /\ cowed.cow = RealIndices(obj[o]) /\ cowed.shared = s
      /\ cowed.purgeable = obj[o].purgeable /\ cowed.volatile = obj[o].volatile
  <2> DEFINE b == BecomesCow(obj[o])
  <2>1. /\ b \in ObjectRecord /\ b.page = obj[o].page /\ b.unused = obj[o].unused
        /\ b.cow = RealIndices(obj[o])
        /\ b.purgeable = obj[o].purgeable /\ b.volatile = obj[o].volatile
    BY <1>2, <1>4 DEF BecomesCow, ObjectRecord
  <2>2. cowed = [b EXCEPT !.shared = s]
    OBVIOUS
  <2> HIDE DEF b, cowed
  <2> QED BY <1>3, <2>1, <2>2 DEF ObjectRecord
<1> HIDE DEF cowed
<1>7. /\ parent \in ObjectRecord /\ parent.page = obj[o].page /\ parent.unused = obj[o].unused
      /\ parent.cow = RealIndices(obj[o]) /\ parent.shared = s
      /\ parent.purgeable = obj[o].purgeable /\ parent.volatile = obj[o].volatile
      /\ parent.writable = {i \in Index : ~should_cow(parent, i)}
  BY <1>6, RemapAllFacts
<1> HIDE DEF parent
<1>8. /\ ClonedPages(obj[o]) \in [Index -> Page \cup {Zero, Lazy}]
      /\ \A i \in Index : ClonedPages(obj[o])[i] =
           IF obj[o].page[i] = Lazy /\ obj[o].unused > 0 THEN Zero ELSE obj[o].page[i]
  BY <1>2 DEF ClonedPages, ObjectRecord
<1>9. /\ clone \in ObjectRecord /\ clone.page = ClonedPages(obj[o]) /\ clone.unused = 0
      /\ clone.cow = RealIndices(obj[o]) /\ clone.shared = s
      /\ clone.purgeable = obj[o].purgeable /\ clone.volatile = FALSE /\ clone.writable = {}
  <2> DEFINE pg == ClonedPages(obj[o])
             ri == RealIndices(obj[o])
             e == NewObject(Zero, 0, obj[o].purgeable, FALSE)
  <2>1. /\ e \in ObjectRecord /\ e.unused = 0 /\ e.purgeable = obj[o].purgeable
        /\ e.volatile = FALSE /\ e.writable = {}
    BY <1>2 DEF NewObject, ObjectRecord
  <2>2. clone = [e EXCEPT !.page = pg, !.cow = ri, !.shared = s, !.parent = o]
    OBVIOUS
  <2>3. pg \in [Index -> Page \cup {Zero, Lazy}] /\ ri \in SUBSET Index
    BY <1>4, <1>8
  <2> HIDE DEF pg, ri, e, clone
  <2>4. /\ clone \in ObjectRecord /\ clone.page = pg /\ clone.unused = 0
        /\ clone.cow = ri /\ clone.shared = s
        /\ clone.purgeable = obj[o].purgeable /\ clone.volatile = FALSE /\ clone.writable = {}
    BY <1>3, <2>1, <2>2, <2>3 DEF ObjectRecord
  <2> QED BY <2>4 DEF pg, ri
<1> HIDE DEF clone
<1>10. \A i \in Index : IsReal(clone.page[i]) => clone.page[i] = obj[o].page[i]
  BY <1>8, <1>9 DEF IsReal
<1>11. RecordOK(parent)
  <2>1. LazySlots(parent) = LazySlots(obj[o])
    BY <1>7 DEF LazySlots
  <2> QED BY <1>2, <1>7, <2>1 DEF RecordOK
<1>12. RecordOK(clone)
  <2>1. \A i \in Index : clone.page[i] # Lazy
    BY <1>2, <1>8, <1>9, LazyHasUnused, PageAssumption
  <2>2. LazySlots(clone) = {}
    BY <2>1 DEF LazySlots
  <2>3. Cardinality(LazySlots(clone)) = 0
    BY <2>2, FS_EmptySet
  <2>4. \A i \in Index : should_cow(clone, i)
    BY <1>4, <1>9, <1>10 DEF should_cow
  <2> QED BY <1>9, <2>3, <2>4 DEF RecordOK
<1>13. Sound(n1, fault)
  <2>1. Sound(obj, fault) /\ obj[o] # Null
    BY <1>1 DEF MemoryInv
  <2>2. ~parent.purgeable =>
             /\ obj[o].cow # Null => parent.cow # Null
             /\ \A i \in Index : /\ IsReal(obj[o].page[i]) => IsReal(parent.page[i])
                                 /\ obj[o].page[i] = Lazy => parent.page[i] # Zero
    BY <1>4, <1>7, PageAssumption
  <2>3. \A i \in Index : IsReal(parent.page[i]) =>
             \/ /\ parent.page[i] = obj[o].page[i]
                /\ ~parent.purgeable /\ obj[o].cow # Null /\ i \in obj[o].cow => i \in parent.cow
             \/ \A q \in Object \ {o} : obj[q] # Null => \A j \in Index : obj[q].page[j] # parent.page[i]
    BY <1>4, <1>7
  <2> QED BY <1>7, <1>11, <2>1, <2>2, <2>3, ChangeObject
<1>14. n1[o] = parent /\ parent # Null /\ \A q \in Object \ {o} : n1[q] = obj[q]
  BY <1>2, <1>7, RecordAssumption
<1> HIDE DEF n1
<1>15. Sound(n, fault)
  <2>1. n1[c] = Null
    BY <1>1, <1>14
  <2>2. ASSUME NEW q \in Object \ {c}, n1[q] # Null, NEW i \in Index, NEW j \in Index,
               IsReal(clone.page[i]), clone.page[i] = n1[q].page[j]
        PROVE  /\ clone.cow # Null /\ i \in clone.cow
               /\ ~n1[q].purgeable => n1[q].cow # Null /\ j \in n1[q].cow
    <3>1. clone.page[i] = obj[o].page[i]
      BY <1>10, <2>2
    <3>2. clone.cow # Null /\ i \in clone.cow
      BY <1>4, <1>9, <2>2, <3>1
    <3>3. CASE q = o
      BY <1>4, <1>7, <1>14, <2>2, <3>1, <3>2, <3>3
    <3>4. CASE q # o
      <4>1. n1[q] = obj[q]
        BY <1>14, <3>4
      <4>2. CopiedBy(obj, q, o)
        BY <1>1, <2>2, <3>4, <4>1 DEF MemoryInv, Sound
      <4> QED BY <2>2, <3>1, <3>2, <4>1, <4>2 DEF CopiedBy
    <3> QED BY <3>3, <3>4
  <2>3. \A q \in Object \ {c} : n1[q] # Null =>
             \A i, j \in Index : IsReal(clone.page[i]) /\ clone.page[i] = n1[q].page[j] =>
               /\ ~clone.purgeable => clone.cow # Null /\ i \in clone.cow
               /\ ~n1[q].purgeable => n1[q].cow # Null /\ j \in n1[q].cow
    BY <2>2
  <2> QED BY <1>9, <1>12, <1>13, <2>1, <2>3, AddObject
<1>16. /\ n[o] = parent /\ n[c] = clone /\ clone # Null
       /\ \A q \in Object \ {o, c} : n[q] = obj[q]
       /\ n \in [Object -> ObjectRecord \cup {Null}]
  <2>1. n1 \in [Object -> ObjectRecord \cup {Null}]
    BY <1>13 DEF Sound
  <2> QED BY <1>1, <1>9, <1>14, <2>1, RecordAssumption
<1> HIDE DEF n
<1>17. Cardinality(InUse(n, fault) \ InUse(obj, fault)) = 0
  <2>1. ASSUME NEW q \in Object, NEW i \in Index, n[q] # Null
        PROVE  n[q].page[i] \in InUse(obj, fault) \cup {Zero, Lazy}
    <3>1. obj[o].page[i] \in InUse(obj, fault) \cup {Zero, Lazy}
      BY <1>1, PagesNow
    <3>2. CASE q \in {o, c}
      BY <1>7, <1>8, <1>9, <1>16, <3>1, <3>2
    <3>3. CASE q \notin {o, c}
      BY <1>16, <2>1, <3>3, PagesNow
    <3> QED BY <3>2, <3>3
  <2> QED BY <2>1, PagesNow, KeepsPages
<1>18. Promised(n) = Promised(obj)
  <2>1. \A q \in Object : /\ Unused(n)[q] = IF n[q] = Null THEN 0 ELSE n[q].unused
                          /\ Unused(obj)[q] = IF obj[q] = Null THEN 0 ELSE obj[q].unused
                          /\ Unused(obj)[q] \in Nat
    BY <1>2, <1>16, UnusedType
  <2>2. \A q \in Object : Unused(obj)[q] \in Nat /\ Unused(n)[q] = Unused(obj)[q]
    BY <1>1, <1>7, <1>9, <1>14, <1>16, <2>1
  <2> QED BY <2>2, SumSame, FiniteAssumption DEF Promised
<1>19. cs \in [CowSet -> Nat] /\ cs[s] = needed /\ \A x \in CowSet \ {s} : cs[x] = count[x]
  BY <1>2, <1>3, <1>5
<1> HIDE DEF cs
<1>20. SumFunctionOnSet(cs, CowSet) = SumFunctionOnSet(count, CowSet) + needed
  <2>1. count[s] = 0
    BY <1>2, <1>3, Now
  <2>2. \A x \in CowSet : count[x] \in Nat /\ cs[x] \in Nat
    BY <1>2, <1>19
  <2>3. SumFunctionOnSet(cs, CowSet) + count[s] = SumFunctionOnSet(count, CowSet) + cs[s]
    BY <1>3, <1>19, <2>2, SumChange, FiniteAssumption
  <2>4. SumFunctionOnSet(cs, CowSet) \in Nat /\ SumFunctionOnSet(count, CowSet) \in Nat
    BY <2>2, SumType, FiniteAssumption
  <2> QED BY <1>5, <1>19, <2>1, <2>3, <2>4
<1>21. com \in Nat /\ unc \in Nat
  BY <1>1, <1>2, <1>5
<1>22. Accounts(n, cs, fault, com, unc)
  <2>1. com = Promised(n) + SumFunctionOnSet(cs, CowSet)
    BY <1>5, <1>18, <1>20, Now
  <2>2. \A x \in CowSet : cs[x] > 0 => x \in Referenced(obj) \cup Referenced(n)
    <3>1. s \in Referenced(n)
      BY <1>3, <1>7, <1>14, <1>16, ReferencedFacts
    <3> QED BY <1>19, <3>1, Now
  <2>3. com + unc + 0 = Cardinality(FreePages)
    BY <1>1, <1>2, <1>5, Now
  <2> HIDE DEF com, unc
  <2> QED BY <1>17, <2>1, <2>2, <2>3 DEF Accounts
<1> HIDE DEF com, unc
<1> QED BY <1>1, <1>15, <1>19, <1>21, <1>22, SettleStep

-----------------------------------------------------------------------------
(* The faults that fill a slot.                                            *)

(* Nothing is booked anew.                                                 *)
LEMMA RebookedSame ==
    ASSUME MemoryInv, NEW x \in Nat
    PROVE  Rebooked(committed, uncommitted, x, x, 0)
BY Now DEF Rebooked

(* r is the object q, but for the shared set.                              *)
SameButShared(r, q) ==
    /\ r.page = q.page /\ r.unused = q.unused /\ r.cow = q.cow
    /\ r.purgeable = q.purgeable /\ r.volatile = q.volatile /\ r.writable = q.writable

(* A fault that finds its page there already, or is refused, only tells    *)
(* the page table.                                                         *)
LEMMA RemapStep ==
    ASSUME MemoryInv, panic = Null, panic' = panic, NEW t \in Thread, fault[t] # Null,
           NEW o \in Object, o = fault[t].object, NEW i \in Index,
           NEW r \in ObjectRecord, SameButShared(r, obj[o]),
           NEW f \in FaultRecord \cup {Null},
           f # Null => /\ f.object = o /\ f.seen = Zero
                       /\ f.stage \in {"cow denied", "zero denied"},
           Settle([obj EXCEPT ![o] = RemapPage(r, i)], count, [fault EXCEPT ![t] = f],
                  committed, uncommitted)
    PROVE  MemoryInv'
<1> DEFINE m == RemapPage(r, i)
           n == [obj EXCEPT ![o] = m]
           fs == [fault EXCEPT ![t] = f]
<1>1. /\ obj[o] # Null /\ obj[o] \in ObjectRecord
      /\ obj \in [Object -> ObjectRecord \cup {Null}] /\ fault \in [Thread -> FaultRecord \cup {Null}]
      /\ committed \in Nat /\ uncommitted \in Nat
  BY FaultFacts, Now
<1>2. m \in ObjectRecord /\ m.page = obj[o].page /\ m.unused = obj[o].unused /\ m # Null
  BY RemapPageFacts, RecordAssumption DEF SameButShared
<1>3. Sound(n, fault)
  BY <1>1, RemapSound DEF SameButShared, MemoryInv
<1> HIDE DEF m
<1>4. n[o] = m
  BY <1>1
<1>5. n = [obj EXCEPT ![o] = m]
  OBVIOUS
<1> HIDE DEF n
<1>6. Sound(n, fs)
  <2>1. f # Null => n[f.object] # Null /\ FaultOK(n[f.object], f)
    BY <1>2, <1>4 DEF FaultOK
  <2> QED BY <1>3, <2>1, ChangeFault
<1>7. \A u \in Thread : fs[u] # Null => fs[u].seen \in InUse(obj, fault) \cup {Zero, Lazy}
  BY <1>1, PagesNow
<1>8. Settle(n, count, fs, committed, uncommitted)
  BY <1>5 DEF m
<1> HIDE DEF fs
<1>9. Rebooked(committed, uncommitted, obj[o].unused, m.unused, 0)
  <2>1. obj[o].unused \in Nat
    BY <1>1 DEF ObjectRecord
  <2> QED BY <1>2, <2>1, RebookedSame, Zenon
<1>10. \A j \in Index : m.page[j] \in InUse(obj, fault) \cup {Zero, Lazy}
  BY <1>1, <1>2, PagesNow
<1>11. obj[o] # Null /\ m \in ObjectRecord
  BY <1>1, <1>2
<1> QED BY <1>5, <1>6, <1>7, <1>8, <1>9, <1>10, <1>11, ChangeStep

(* A free page in the slot of a fault.                                     *)
LEMMA FillFacts ==
    ASSUME MemoryInv,
           NEW t \in Thread, NEW o \in Object, NEW i \in Index, FaultAt(t, o, i),
           NEW r \in ObjectRecord, NEW p \in FreePages, Fillable(r, obj[o], i)
    PROVE  /\ Sound([obj EXCEPT ![o] = FilledRecord(t, r, p)], Done(t))
           /\ FilledRecord(t, r, p) \in ObjectRecord
           /\ FilledRecord(t, r, p).unused = r.unused
           /\ obj[o] # Null
           /\ Cardinality(InUse([obj EXCEPT ![o] = FilledRecord(t, r, p)], Done(t))
                            \ InUse(obj, fault)) = 1
<1> DEFINE m == FilledRecord(t, r, p)
           n == [obj EXCEPT ![o] = m]
<1>1. p \in Page /\ p \notin InUse(obj, fault)
  BY DEF FreePages
<1>2. NewTo(obj, o, p)
  BY <1>1, InUseFacts DEF NewTo
<1>3. /\ Sound(n, Done(t)) /\ m \in ObjectRecord /\ m.page[i] = p
      /\ \A j \in Index \ {i} : m.page[j] = r.page[j]
      /\ m.unused = r.unused
  <2>1. Sound(obj, fault)
    BY DEF MemoryInv
  <2>2. Sound(n, Done(t))
    BY <1>1, <1>2, <2>1, FillSound
  <2>3. fault[t].index = i
    BY DEF FaultAt
  <2> QED BY <1>1, <2>2, <2>3, FilledRecordFacts
<1> HIDE DEF m
<1>4. obj[o] # Null /\ obj \in [Object -> ObjectRecord \cup {Null}]
  BY FaultFacts, Now DEF FaultAt
<1>5. n[o] = m /\ m # Null /\ \A q \in Object \ {o} : n[q] = obj[q]
  BY <1>3, <1>4, RecordAssumption
<1> HIDE DEF n
<1>6. p \in InUse(n, Done(t))
  <2>1. n[o] # Null /\ n[o].page[i] = p
    BY <1>3, <1>5
  <2> QED BY <1>1, <2>1, InUseFacts
<1>7. ASSUME NEW q \in Object, NEW j \in Index, n[q] # Null
      PROVE  n[q].page[j] \in InUse(obj, fault) \cup {Zero, Lazy, p}
  <2>1. CASE q = o /\ j = i
    BY <1>3, <1>5, <2>1
  <2>2. CASE q = o /\ j # i
    <3>1. n[q].page[j] = obj[o].page[j]
      BY <1>3, <1>5, <2>2 DEF Fillable
    <3> QED BY <1>4, <3>1, PagesNow
  <2>3. CASE q # o
    BY <1>5, <1>7, <2>3, PagesNow
  <2> QED BY <2>1, <2>2, <2>3
<1>8. \A u \in Thread : Done(t)[u] # Null => Done(t)[u].seen \in InUse(obj, fault) \cup {Zero, Lazy, p}
  BY DoneFacts
<1>9. Cardinality(InUse(n, Done(t)) \ InUse(obj, fault)) = 1
  BY <1>1, <1>6, <1>7, <1>8, TakesPage
<1> QED BY <1>3, <1>4, <1>9 DEF m, n

(* A page comes into use for the slot of a fault.                          *)
LEMMA FillStep ==
    ASSUME MemoryInv, panic = Null, panic' = panic,
           NEW t \in Thread, NEW o \in Object, NEW i \in Index, FaultAt(t, o, i),
           NEW r \in ObjectRecord, NEW p \in FreePages,
           Fillable(r, obj[o], i),
           NEW com, NEW unc, Fill(t, obj, count, r, p, com, unc),
           Rebooked(com, unc, obj[o].unused, r.unused, 1)
    PROVE  MemoryInv'
<1> DEFINE m == FilledRecord(t, r, p)
           n == [obj EXCEPT ![o] = m]
           fs == Done(t)
<1>1. Settle(n, count, fs, com, unc)
  BY DEF Fill, FilledRecord, FaultAt
<1>2. n = [obj EXCEPT ![o] = m]
  OBVIOUS
<1>3. /\ Sound(n, Done(t))
      /\ m \in ObjectRecord /\ m.unused = r.unused /\ obj[o] # Null
      /\ Cardinality(InUse(n, Done(t)) \ InUse(obj, fault)) = 1
  <2>1. Sound(n, Done(t))
    BY FillFacts
  <2>2. m \in ObjectRecord
    BY FillFacts
  <2>3. m.unused = r.unused
    BY FillFacts
  <2>4. obj[o] # Null
    BY FillFacts
  <2>5. Cardinality(InUse(n, Done(t)) \ InUse(obj, fault)) = 1
    BY FillFacts
  <2> QED BY <2>1, <2>2, <2>3, <2>4, <2>5
<1> HIDE DEF m, n, fs
<1>4. Unused(obj)[o] = obj[o].unused
  BY <1>3, Now, UnusedType
<1>5. /\ com \in Nat /\ unc \in Nat
      /\ com + unc + Cardinality(InUse(n, fs) \ InUse(obj, fault)) = committed + uncommitted
      /\ com + Unused(obj)[o] = committed + m.unused
  BY <1>3, <1>4, Zenon DEF Rebooked, fs
<1>6. Accounts(n, count, fs, com, unc)
  BY <1>2, <1>3, <1>5, AccountsAt
<1>7. Sound(n, fs)
  BY <1>3 DEF fs
<1> QED BY <1>1, <1>5, <1>6, <1>7, Now, SettleStep

(* An object that its fault has not changed can be filled.                 *)
LEMMA SameFillable ==
    ASSUME NEW q \in ObjectRecord, RecordOK(q), NEW r \in ObjectRecord, SameButShared(r, q),
           NEW i \in Index
    PROVE  Fillable(r, q, i)
<1>1. IsFiniteSet(LazySlots(q)) /\ LazySlots(r) = LazySlots(q)
  BY FiniteAssumption, FS_Subset DEF LazySlots, SameButShared
<1>2. /\ IsFiniteSet(LazySlots(q) \ {i})
      /\ Cardinality(LazySlots(q) \ {i}) <= Cardinality(LazySlots(q))
      /\ Cardinality(LazySlots(q)) \in Nat /\ Cardinality(LazySlots(q) \ {i}) \in Nat
  BY <1>1, FS_Subset, FS_CardinalityType
<1>3. Cardinality(LazySlots(q)) <= q.unused /\ q.unused \in Nat
  BY DEF RecordOK, ObjectRecord
<1>4. Cardinality(LazySlots(r) \ {i}) <= r.unused
  <2>1. Cardinality(LazySlots(q) \ {i}) <= q.unused
    BY <1>2, <1>3
  <2>2. r.unused = q.unused
    BY DEF SameButShared
  <2> QED BY <1>1, <2>1, <2>2
<1>5. /\ r.page = q.page /\ r.cow = q.cow /\ r.purgeable = q.purgeable /\ r.writable = q.writable
      /\ r.volatile => r.unused = 0
      /\ \A j \in Index \ {i} : r.page[j] = Zero => r.unused = 0
  BY DEF SameButShared, RecordOK
<1> QED BY <1>4, <1>5, Zenon DEF Fillable

(* An allocation keeps the invariant: a page that was uncommitted is new   *)
(* to all objects; otherwise the fault is refused, or a purge never ends.  *)
LEMMA AllocateIntoStep ==
    ASSUME MemoryInv, panic = Null,
           NEW t \in Thread, NEW o \in Object, NEW i \in Index, FaultAt(t, o, i),
           NEW r \in ObjectRecord, SameButShared(r, obj[o]), AllocateInto(t, r)
    PROVE  MemoryInv'
<1>1. /\ fault[t] # Null /\ fault[t].object = o /\ fault[t].index = i
      /\ fault[t].stage \in {"zero", "cow"}
      /\ obj[o] # Null /\ obj[o] \in ObjectRecord /\ RecordOK(obj[o])
      /\ fault[t] \in FaultRecord /\ fault \in [Thread -> FaultRecord \cup {Null}]
  BY FaultFacts, Now DEF FaultAt
<1>2. CASE /\ uncommitted > 0 /\ UNCHANGED panic
           /\ \E p \in FreePages : Fill(t, obj, count, r, p, committed, uncommitted - 1)
  <2>1. PICK p \in FreePages : Fill(t, obj, count, r, p, committed, uncommitted - 1)
    BY <1>2
  <2>2. Fillable(r, obj[o], i)
    BY <1>1, SameFillable
  <2>3. Rebooked(committed, uncommitted - 1, obj[o].unused, r.unused, 1)
    <3>1. r.unused = obj[o].unused /\ obj[o].unused \in Nat
      BY <1>1 DEF SameButShared, ObjectRecord
    <3>2. /\ uncommitted - 1 \in Nat /\ committed \in Nat
          /\ committed + (uncommitted - 1) + 1 = committed + uncommitted
      BY <1>2, Now
    <3> QED BY <3>1, <3>2 DEF Rebooked
  <2>4. panic' = panic
    BY <1>2
  <2> QED BY <2>1, <2>2, <2>3, <2>4, FillStep
<1>3. CASE Panic(t, "purge")
  BY <1>3, PanicStep DEF Explains
<1>6. CASE /\ UNCHANGED panic
           /\ Settle([obj EXCEPT ![o] = RemapPage(r, i)], count,
                     [fault EXCEPT ![t].seen = Zero,
                                   ![t].stage = IF @ = "cow" THEN "cow denied" ELSE "zero denied"],
                     committed, uncommitted)
  <2> DEFINE st == IF fault[t].stage = "cow" THEN "cow denied" ELSE "zero denied"
             f == [fault[t] EXCEPT !.seen = Zero, !.stage = st]
             fs == [fault EXCEPT ![t].seen = Zero,
                                 ![t].stage = IF @ = "cow" THEN "cow denied" ELSE "zero denied"]
  <2>1. fs = [fault EXCEPT ![t] = f]
    BY <1>1 DEF FaultRecord
  <2>2. st \in {"cow denied", "zero denied"}
    OBVIOUS
  <2>3. Settle([obj EXCEPT ![o] = RemapPage(r, i)], count, fs, committed, uncommitted)
    BY <1>6
  <2> HIDE DEF st, fs
  <2>4. f \in FaultRecord /\ f.object = o /\ f.seen = Zero /\ f.stage = st
    BY <1>1, <2>2 DEF FaultRecord
  <2> HIDE DEF f
  <2>5. f # Null => /\ f.object = o /\ f.seen = Zero
                    /\ f.stage \in {"cow denied", "zero denied"}
    BY <2>2, <2>4
  <2>6. panic' = panic
    BY <1>6
  <2>7. f \in FaultRecord \cup {Null} /\ fault[t] # Null /\ o = fault[t].object
    BY <1>1, <2>4
  <2>8. Settle([obj EXCEPT ![o] = RemapPage(r, i)], count, [fault EXCEPT ![t] = f], committed, uncommitted)
    BY <2>1, <2>3
  <2> QED BY <2>5, <2>6, <2>7, <2>8, RemapStep
<1> QED BY <1>1, <1>2, <1>3, <1>6 DEF AllocateInto

(* A fault on a zero or lazy page keeps the invariant. A lazy slot has a   *)
(* committed page: what the fault saw before it got the lock is still true *)
(* unless the object is purgeable.                                         *)
LEMMA FaultZeroStep ==
    ASSUME MemoryInv, NEW t \in Thread, FaultZero(t)
    PROVE  MemoryInv'
<1> DEFINE o == fault[t].object
           i == fault[t].index
           r == obj[o]
<1>1. panic = Null /\ fault[t] # Null /\ fault[t].stage = "zero"
  BY DEF FaultZero
<1>2. /\ fault[t] \in FaultRecord /\ o \in Object /\ i \in Index
      /\ r # Null /\ r \in ObjectRecord /\ RecordOK(r) /\ FaultOK(r, fault[t])
      /\ FaultAt(t, o, i)
      /\ fault \in [Thread -> FaultRecord \cup {Null}]
  BY <1>1, FaultFacts, Now DEF FaultAt
<1>3. SameButShared(r, r)
  BY DEF SameButShared
<1>4. CASE /\ UNCHANGED panic
           /\ Settle([obj EXCEPT ![o] = RemapPage(r, i)], count, Done(t), committed, uncommitted)
  <2>1. Settle([obj EXCEPT ![o] = RemapPage(r, i)], count, [fault EXCEPT ![t] = Null], committed, uncommitted)
    BY <1>4 DEF Done
  <2>2. panic' = panic
    BY <1>4
  <2> QED BY <1>1, <1>2, <1>3, <2>1, <2>2, RemapStep
<1>5. CASE /\ ~AlreadyHandled(r, i) /\ r.unused > 0 /\ UNCHANGED panic
           /\ \E p \in FreePages :
                Fill(t, obj, count, [r EXCEPT !.unused = @ - 1], p, committed - 1, uncommitted)
  <2> DEFINE e == [r EXCEPT !.unused = r.unused - 1]
  <2>1. PICK p \in FreePages : Fill(t, obj, count, e, p, committed - 1, uncommitted)
    BY <1>2, <1>5 DEF ObjectRecord
  <2>2. /\ e \in ObjectRecord /\ e.page = r.page /\ e.cow = r.cow /\ e.purgeable = r.purgeable
        /\ e.writable = r.writable /\ e.volatile = r.volatile /\ e.unused = r.unused - 1
        /\ r.unused \in Nat
    <3>1. r.unused \in Nat /\ r.unused - 1 \in Nat
      BY <1>2, <1>5 DEF ObjectRecord
    <3> QED BY <1>2, <3>1 DEF ObjectRecord
  <2> HIDE DEF e
  <2>3. ~r.volatile /\ \A j \in Index : r.page[j] # Zero
    BY <1>2, <1>5 DEF RecordOK
  <2>4. r.page[i] = Lazy
    BY <1>2, <1>5, <2>3 DEF AlreadyHandled, IsReal
  <2>5. Cardinality(LazySlots(e) \ {i}) <= e.unused
    <3>1. LazySlots(e) = LazySlots(r) /\ i \in LazySlots(r)
      BY <1>2, <2>2, <2>4 DEF LazySlots
    <3>2. IsFiniteSet(LazySlots(r))
      BY FiniteAssumption, FS_Subset DEF LazySlots
    <3>3. /\ Cardinality(LazySlots(r) \ {i}) = Cardinality(LazySlots(r)) - 1
          /\ Cardinality(LazySlots(r)) \in Nat
      BY <3>1, <3>2, FS_RemoveElement, FS_CardinalityType
    <3>4. Cardinality(LazySlots(r)) <= r.unused
      BY <1>2 DEF RecordOK
    <3> QED BY <2>2, <3>1, <3>3, <3>4
  <2>6. Fillable(e, obj[o], i)
    BY <2>2, <2>3, <2>5 DEF Fillable
  <2>7. Rebooked(committed - 1, uncommitted, obj[o].unused, e.unused, 1)
    <3>1. committed \in Nat /\ uncommitted \in Nat /\ r.unused <= committed
      BY <1>2, Now, UnusedBound
    <3> QED BY <1>5, <2>2, <3>1 DEF Rebooked
  <2>8. panic' = panic
    BY <1>5
  <2> QED BY <1>1, <1>2, <2>1, <2>2, <2>6, <2>7, <2>8, FillStep
<1>6. CASE ~AlreadyHandled(r, i) /\ fault[t].seen = Lazy /\ r.unused = 0 /\ Panic(t, "VERIFY")
  <2>1. ASSUME ~r.purgeable PROVE FALSE
    <3>1. r.page[i] # Zero
      BY <1>1, <1>2, <1>6, <2>1 DEF FaultOK
    <3>2. r.page[i] = Lazy
      BY <1>6, <3>1 DEF AlreadyHandled, IsReal
    <3>3. r.unused > 0
      BY <1>2, <3>2, LazyHasUnused
    <3> QED BY <1>6, <3>3
  <2> QED BY <1>2, <1>6, <2>1, PanicStep DEF Explains
<1>7. CASE AllocateInto(t, r)
  BY <1>1, <1>2, <1>3, <1>7, AllocateIntoStep
<1> QED BY <1>4, <1>5, <1>6, <1>7 DEF FaultZero

(* A page with one reference is in no other object.                        *)
LEMMA UnsharedNew ==
    ASSUME MemoryInv, NEW o \in Object, obj[o] # Null, NEW i \in Index,
           NEW r, r.page = obj[o].page, Unshared(r, i)
    PROVE  NewTo(obj, o, obj[o].page[i])
<1> DEFINE p == obj[o].page[i]
           R == References(obj, fault, p)
<1>1. IsFiniteSet(R)
  <2>1. IsFiniteSet(Object \X Index) /\ IsFiniteSet(Thread \X {Null})
    BY FiniteAssumption, FS_Product, FS_Singleton
  <2>2. IsFiniteSet((Object \X Index) \cup (Thread \X {Null}))
    BY <2>1, FS_Union
  <2>3. R \subseteq (Object \X Index) \cup (Thread \X {Null})
    BY DEF References, Live
  <2> QED BY <2>2, <2>3, FS_Subset
<1>2. Cardinality(R) = 1
  BY DEF Unshared
<1>3. PICK x : R = {x}
  BY <1>1, <1>2, FS_Singleton
<1> SUFFICES ASSUME NEW q \in Object \ {o}, obj[q] # Null, NEW j \in Index, obj[q].page[j] = p
             PROVE  FALSE
  BY DEF NewTo
<1>4. <<o, i>> \in R /\ <<q, j>> \in R
  BY DEF References, Live
<1> HIDE DEF R
<1>5. <<o, i>> = <<q, j>>
  BY <1>3, <1>4
<1> QED BY <1>5

(* A fault on a page that nobody else has makes it writable.               *)
LEMMA OwnSound ==
    ASSUME MemoryInv, NEW t \in Thread, NEW o \in Object, NEW i \in Index, FaultAt(t, o, i),
           fault[t].stage = "cow", NEW r \in ObjectRecord, SameButShared(r, obj[o]),
           NewTo(obj, o, obj[o].page[i]),
           NEW m \in ObjectRecord, SameButShared(m, RemapPage(ClearCow(r, i), i))
    PROVE  /\ Sound([obj EXCEPT ![o] = m], Done(t))
           /\ m.page = obj[o].page /\ m.unused = obj[o].unused
<1> DEFINE c == ClearCow(r, i)
           w == RemapPage(c, i)
<1>1. obj[o] # Null /\ obj[o] \in ObjectRecord /\ RecordOK(obj[o]) /\ FaultOK(obj[o], fault[t])
  BY FaultFacts DEF FaultAt
<1>2. /\ c \in ObjectRecord /\ c.page = r.page /\ c.unused = r.unused
      /\ c.cow = (IF r.cow = Null THEN RealIndices(r) ELSE r.cow) \ {i} /\ c.cow # Null
      /\ c.purgeable = r.purgeable /\ c.volatile = r.volatile /\ c.writable = r.writable
  BY ClearCowFacts
<1> HIDE DEF c
<1>3. /\ w.page = c.page /\ w.unused = c.unused /\ w.cow = c.cow
      /\ w.purgeable = c.purgeable /\ w.volatile = c.volatile
      /\ w.writable = IF should_cow(c, i) THEN c.writable \ {i} ELSE c.writable \cup {i}
  BY <1>2, RemapPageFacts
<1>4. SameButShared(m, w)
  BY DEF c
<1> HIDE DEF w
<1>5. /\ m.page = obj[o].page /\ m.unused = obj[o].unused
      /\ m.purgeable = obj[o].purgeable /\ m.volatile = obj[o].volatile
      /\ m.cow = c.cow /\ m.cow # Null
      /\ m.writable = IF should_cow(c, i) THEN obj[o].writable \ {i} ELSE obj[o].writable \cup {i}
  BY <1>2, <1>3, <1>4 DEF SameButShared
<1>6. \A j \in Index : should_cow(c, j) <=> should_cow(m, j)
  BY <1>2, <1>5 DEF should_cow, SameButShared
<1>7. ASSUME ~obj[o].purgeable
      PROVE  \A j \in Index \ {i} : /\ j \in m.cow <=> j \in obj[o].cow
                                    /\ obj[o].cow # Null
  BY <1>1, <1>2, <1>5, <1>7 DEF FaultOK, SameButShared
<1>8. RecordOK(m)
  <2>1. LazySlots(m) = LazySlots(obj[o])
    BY <1>5 DEF LazySlots
  <2>2. ASSUME ~m.purgeable PROVE m.writable = {j \in Index : ~should_cow(m, j)}
    <3>1. obj[o].writable = {j \in Index : ~should_cow(obj[o], j)}
      BY <1>1, <1>5, <2>2 DEF RecordOK
    <3>2. \A j \in Index \ {i} : should_cow(m, j) <=> should_cow(obj[o], j)
      BY <1>5, <1>7, <2>2 DEF should_cow
    <3>3. \A j \in Index : j \in m.writable <=> ~should_cow(m, j)
      BY <1>5, <1>6, <3>1, <3>2
    <3>4. m.writable \subseteq Index
      BY DEF ObjectRecord
    <3> QED BY <3>3, <3>4
  <2>3. /\ m.volatile => m.unused = 0
        /\ \A j \in Index : m.page[j] = Zero => m.unused = 0
        /\ Cardinality(LazySlots(m)) <= m.unused
    BY <1>1, <1>5, <2>1 DEF RecordOK
  <2> QED BY <2>2, <2>3 DEF RecordOK
<1>9. ~m.purgeable =>
             /\ obj[o].cow # Null => m.cow # Null
             /\ \A j \in Index : /\ IsReal(obj[o].page[j]) => IsReal(m.page[j])
                                 /\ obj[o].page[j] = Lazy => m.page[j] # Zero
  BY <1>5, PageAssumption
<1>10. \A j \in Index : IsReal(m.page[j]) =>
             \/ /\ m.page[j] = obj[o].page[j]
                /\ ~m.purgeable /\ obj[o].cow # Null /\ j \in obj[o].cow => j \in m.cow
             \/ \A q \in Object \ {o} : obj[q] # Null => \A k \in Index : obj[q].page[k] # m.page[j]
  <2> SUFFICES ASSUME NEW j \in Index
               PROVE  \/ /\ m.page[j] = obj[o].page[j]
                         /\ ~m.purgeable /\ obj[o].cow # Null /\ j \in obj[o].cow => j \in m.cow
                      \/ \A q \in Object \ {o} : obj[q] # Null => \A k \in Index : obj[q].page[k] # m.page[j]
    OBVIOUS
  <2>1. CASE j = i
    BY <1>5, <2>1 DEF NewTo
  <2>2. CASE j # i
    BY <1>5, <1>7, <2>2
  <2> QED BY <2>1, <2>2
<1>11. Sound([obj EXCEPT ![o] = m], fault)
  <2>1. Sound(obj, fault) /\ obj[o] # Null /\ m.purgeable = obj[o].purgeable
    BY <1>1, <1>5 DEF MemoryInv
  <2> QED BY <1>8, <1>9, <1>10, <2>1, ChangeObject
<1>12. Sound([obj EXCEPT ![o] = m], Done(t))
  BY <1>11, DoneSound
<1> QED BY <1>5, <1>12

(* The shared sets when one page of s is used, see FaultCow.               *)
Less(cs, s) == [cs EXCEPT ![s] = @ - 1]

(* The pages and the committed pages of an object whose fault only made a  *)
(* slot writable.                                                          *)
LEMMA OwnFacts ==
    ASSUME NEW q \in ObjectRecord, NEW r \in ObjectRecord, SameButShared(r, q), NEW i \in Index,
           NEW m, SameButShared(m, RemapPage(ClearCow(r, i), i))
    PROVE  m.page = q.page /\ m.unused = q.unused
<1>1. ClearCow(r, i) \in ObjectRecord /\ ClearCow(r, i).page = r.page /\ ClearCow(r, i).unused = r.unused
  BY ClearCowFacts
<1>2. /\ RemapPage(ClearCow(r, i), i).page = r.page
      /\ RemapPage(ClearCow(r, i), i).unused = r.unused
  BY <1>1, RemapPageFacts
<1> QED BY <1>2 DEF SameButShared

(* The sum of the shared sets is one less then.                            *)
LEMMA OneLess ==
    ASSUME NEW cs \in [CowSet -> Nat], NEW s \in CowSet, cs[s] # 0
    PROVE  /\ Less(cs, s) \in [CowSet -> Nat]
           /\ SumFunctionOnSet(Less(cs, s), CowSet) + 1 = SumFunctionOnSet(cs, CowSet)
           /\ SumFunctionOnSet(Less(cs, s), CowSet) \in Nat
           /\ \A x \in CowSet : Less(cs, s)[x] > 0 => cs[x] > 0
<1> DEFINE rest == Less(cs, s)
<1>1. cs[s] \in Nat \ {0}
  OBVIOUS
<1>2. rest \in [CowSet -> Nat] /\ rest[s] = cs[s] - 1 /\ \A x \in CowSet \ {s} : rest[x] = cs[x]
  BY <1>1 DEF Less
<1> HIDE DEF rest
<1>3. \A x \in CowSet : cs[x] \in Nat /\ rest[x] \in Nat
  BY <1>2
<1>4. SumFunctionOnSet(rest, CowSet) + cs[s] = SumFunctionOnSet(cs, CowSet) + rest[s]
  BY <1>2, <1>3, SumChange, FiniteAssumption
<1>5. SumFunctionOnSet(rest, CowSet) \in Nat /\ SumFunctionOnSet(cs, CowSet) \in Nat
  BY <1>3, SumType, FiniteAssumption
<1>6. /\ SumFunctionOnSet(rest, CowSet) + 1 = SumFunctionOnSet(cs, CowSet)
      /\ \A x \in CowSet : rest[x] > 0 => cs[x] > 0
  BY <1>1, <1>2, <1>3, <1>4, <1>5
<1> QED BY <1>2, <1>5, <1>6 DEF rest

(* A page is taken from shared set s.                                      *)
LEMMA TakeShared ==
    ASSUME MemoryInv, NEW o \in Object, obj[o] # Null, NEW m \in ObjectRecord,
           m.unused = obj[o].unused, NEW n, n = [obj EXCEPT ![o] = m],
           NEW s \in CowSet, count[s] # 0, NEW rest, rest = Less(count, s),
           NEW fs, NEW com, com = committed - 1, NEW unc \in Nat,
           unc + Cardinality(InUse(n, fs) \ InUse(obj, fault)) = uncommitted + 1
    PROVE  Accounts(n, rest, fs, com, unc) /\ rest \in [CowSet -> Nat] /\ com \in Nat
<1> DEFINE k == Cardinality(InUse(n, fs) \ InUse(obj, fault))
<1>1. /\ obj \in [Object -> ObjectRecord \cup {Null}] /\ count \in [CowSet -> Nat]
      /\ committed \in Nat /\ uncommitted \in Nat
  BY Now
<1>2. /\ n \in [Object -> ObjectRecord \cup {Null}] /\ n[o] = m /\ m # Null
      /\ \A q \in Object \ {o} : n[q] = obj[q]
  BY <1>1, RecordAssumption
<1>5. /\ rest \in [CowSet -> Nat]
      /\ SumFunctionOnSet(rest, CowSet) + 1 = SumFunctionOnSet(count, CowSet)
      /\ SumFunctionOnSet(rest, CowSet) \in Nat
      /\ \A x \in CowSet : rest[x] > 0 => count[x] > 0
  BY <1>1, OneLess
<1>6. Promised(n) = Promised(obj)
  <2>1. \A q \in Object : /\ Unused(n)[q] = IF n[q] = Null THEN 0 ELSE n[q].unused
                          /\ Unused(obj)[q] = IF obj[q] = Null THEN 0 ELSE obj[q].unused
                          /\ Unused(obj)[q] \in Nat
    BY <1>1, <1>2, UnusedType
  <2>2. \A q \in Object : Unused(obj)[q] \in Nat /\ Unused(n)[q] = Unused(obj)[q]
    BY <1>2, <2>1
  <2> QED BY <2>2, SumSame, FiniteAssumption DEF Promised
<1>7. com \in Nat /\ com = Promised(n) + SumFunctionOnSet(rest, CowSet)
  <2>1. /\ committed = Promised(obj) + SumFunctionOnSet(count, CowSet)
        /\ Promised(obj) \in Nat /\ SumFunctionOnSet(count, CowSet) \in Nat
    BY Now
  <2> QED BY <1>5, <1>6, <2>1
<1>8. \A x \in CowSet : rest[x] > 0 => x \in Referenced(obj) \cup Referenced(n)
  BY <1>5, Now
<1>9. com + unc + k = Cardinality(FreePages)
  <2>1. committed + uncommitted = Cardinality(FreePages)
    BY Now
  <2>2. k \in Nat
    <3>1. IsFiniteSet(InUse(n, fs) \ InUse(obj, fault))
      BY InUseFacts, FS_Difference
    <3> QED BY <3>1, FS_CardinalityType
  <2>3. unc + k = uncommitted + 1
    OBVIOUS
  <2> HIDE DEF k
  <2> QED BY <1>1, <1>7, <2>1, <2>2, <2>3
<1> QED BY <1>5, <1>7, <1>8, <1>9 DEF Accounts

(* A fault on a page that is to be copied keeps the invariant, whether the *)
(* page is its own, is copied into one of the shared set's or into an      *)
(* allocated one.                                                          *)
LEMMA FaultCowStep ==
    ASSUME MemoryInv, NEW t \in Thread, FaultCow(t)
    PROVE  MemoryInv'
<1> DEFINE o == fault[t].object
           i == fault[t].index
           r == [obj[o] EXCEPT !.shared = IF UsedUp(obj[o]) THEN Null ELSE @]
           s == r.shared
           rest == [count EXCEPT ![s] = @ - 1]
           mine == RemapPage(ClearCow(r, i), i)
<1>1. panic = Null /\ fault[t] # Null /\ fault[t].stage = "cow"
  BY DEF FaultCow
<1>2. /\ fault[t] \in FaultRecord /\ o \in Object /\ i \in Index
      /\ obj[o] # Null /\ obj[o] \in ObjectRecord /\ RecordOK(obj[o])
      /\ FaultAt(t, o, i)
      /\ obj \in [Object -> ObjectRecord \cup {Null}]
      /\ fault \in [Thread -> FaultRecord \cup {Null}] /\ count \in [CowSet -> Nat]
      /\ committed \in Nat /\ uncommitted \in Nat
  BY <1>1, FaultFacts, Now DEF FaultAt
<1>3. r \in ObjectRecord /\ SameButShared(r, obj[o])
  <2> DEFINE x == IF UsedUp(obj[o]) THEN Null ELSE obj[o].shared
  <2>1. r = [obj[o] EXCEPT !.shared = x]
    BY <1>2 DEF ObjectRecord
  <2>2. x \in CowSet \cup {Null}
    BY <1>2 DEF ObjectRecord
  <2> HIDE DEF x, r
  <2> QED BY <1>2, <2>1, <2>2 DEF ObjectRecord, SameButShared
<1>4. s # Null => s \in CowSet /\ count[s] # 0
  <2>1. s = IF UsedUp(obj[o]) THEN Null ELSE obj[o].shared
    BY <1>2 DEF ObjectRecord
  <2>2. obj[o].shared \in CowSet \cup {Null}
    BY <1>2 DEF ObjectRecord
  <2> HIDE DEF s
  <2> QED BY <2>1, <2>2 DEF UsedUp
<1>5. /\ mine \in ObjectRecord
      /\ s # Null => \A x \in CowSet \cup {Null} : [mine EXCEPT !.shared = x] \in ObjectRecord
  <2> HIDE DEF r
  <2>1. mine \in ObjectRecord
    BY <1>2, <1>3, ClearCowFacts, RemapPageFacts
  <2> HIDE DEF mine
  <2> QED BY <2>1 DEF ObjectRecord
<1>6. CASE /\ UNCHANGED panic
           /\ Settle([obj EXCEPT ![o] = RemapPage(@, i)], count, Done(t), committed, uncommitted)
  <2>1. Settle([obj EXCEPT ![o] = RemapPage(obj[o], i)], count, [fault EXCEPT ![t] = Null],
               committed, uncommitted)
    BY <1>2, <1>6 DEF Done
  <2>2. panic' = panic /\ SameButShared(obj[o], obj[o])
    BY <1>6 DEF SameButShared
  <2> QED BY <1>1, <1>2, <2>1, <2>2, RemapStep
<1>7. CASE /\ Unshared(r, i) /\ s = Null /\ UNCHANGED panic
           /\ Settle([obj EXCEPT ![o] = mine], count, Done(t), committed, uncommitted)
  <2> DEFINE n == [obj EXCEPT ![o] = mine]
             fs == Done(t)
  <2>0. Unshared(r, i)
    BY <1>7
  <2> HIDE DEF r
  <2>1. NewTo(obj, o, obj[o].page[i])
    BY <1>2, <1>3, <2>0, UnsharedNew DEF SameButShared
  <2>2. SameButShared(mine, mine)
    BY DEF SameButShared
  <2>3. Sound(n, fs)
    BY <1>1, <1>2, <1>3, <1>5, <2>1, <2>2, OwnSound
  <2>4. mine.page = obj[o].page
    BY <1>2, <1>3, <2>2, OwnFacts
  <2>5. mine.unused = obj[o].unused
    BY <1>2, <1>3, <2>2, OwnFacts
  <2>6. obj[o].unused \in Nat
    BY <1>2 DEF ObjectRecord
  <2> HIDE DEF mine
  <2>7. Rebooked(committed, uncommitted, obj[o].unused, mine.unused, 0)
    BY <2>5, <2>6, RebookedSame, Zenon
  <2>8. \A j \in Index : mine.page[j] \in InUse(obj, fault) \cup {Zero, Lazy}
    BY <1>2, <2>4, PagesNow
  <2>9. \A u \in Thread : fs[u] # Null => fs[u].seen \in InUse(obj, fault) \cup {Zero, Lazy}
    BY DoneFacts
  <2>10. Settle(n, count, fs, committed, uncommitted) /\ panic' = panic /\ mine \in ObjectRecord
    BY <1>5, <1>7
  <2>11. n = [obj EXCEPT ![o] = mine]
    OBVIOUS
  <2> HIDE DEF n, fs
  <2> QED BY <1>1, <1>2, <2>3, <2>7, <2>8, <2>9, <2>10, <2>11, ChangeStep
<1>8. CASE /\ Unshared(r, i) /\ s # Null /\ UNCHANGED panic
           /\ Settle([obj EXCEPT ![o] = [mine EXCEPT !.shared = IF rest[s] = 0 THEN Null ELSE s]],
                     rest, Done(t), committed - 1, uncommitted + 1)
  <2> DEFINE x == IF rest[s] = 0 THEN Null ELSE s
             m == [mine EXCEPT !.shared = x]
             n == [obj EXCEPT ![o] = m]
             fs == Done(t)
             com == committed - 1
             unc == uncommitted + 1
  <2>0. /\ Unshared(r, i) /\ s \in CowSet /\ count[s] # 0 /\ panic' = panic
        /\ Settle(n, rest, fs, com, unc) /\ x \in CowSet \cup {Null}
    BY <1>4, <1>8
  <2>00. rest = Less(count, s)
    BY DEF Less
  <2> HIDE DEF r, s, rest, x
  <2>1. NewTo(obj, o, obj[o].page[i])
    BY <1>2, <1>3, <2>0, UnsharedNew DEF SameButShared
  <2>2. m \in ObjectRecord /\ SameButShared(m, mine)
    <3>1. mine \in ObjectRecord
      BY <1>5
    <3> HIDE DEF mine
    <3> QED BY <2>0, <3>1 DEF SameButShared, ObjectRecord
  <2> HIDE DEF m
  <2>3. Sound(n, fs)
    BY <1>1, <1>2, <1>3, <2>1, <2>2, OwnSound
  <2>4. m.page = obj[o].page
    BY <1>2, <1>3, <2>2, OwnFacts
  <2>5. m.unused = obj[o].unused
    BY <1>2, <1>3, <2>2, OwnFacts
  <2>6. n[o] = m /\ \A q \in Object \ {o} : n[q] = obj[q]
    BY <1>2
  <2>7. n = [obj EXCEPT ![o] = m]
    OBVIOUS
  <2> HIDE DEF n
  <2>8. Cardinality(InUse(n, fs) \ InUse(obj, fault)) = 0
    <3>1. \A q \in Object, j \in Index : n[q] # Null =>
             n[q].page[j] \in InUse(obj, fault) \cup {Zero, Lazy}
      BY <1>2, <2>4, <2>6, PagesNow
    <3> QED BY <3>1, DoneFacts, KeepsPages
  <2>9. unc \in Nat /\ com = committed - 1
        /\ unc + Cardinality(InUse(n, fs) \ InUse(obj, fault)) = uncommitted + 1
    BY <1>2, <2>8
  <2> HIDE DEF fs, com, unc
  <2>10. Accounts(n, rest, fs, com, unc) /\ rest \in [CowSet -> Nat] /\ com \in Nat
    <3>1. o \in Object /\ obj[o] # Null /\ s \in CowSet /\ count[s] # 0
      BY <1>2, <2>0
    <3>2. m \in ObjectRecord
      BY <2>2
    <3> HIDE DEF o
    <3>3. Accounts(n, rest, fs, com, unc)
      BY <2>00, <2>5, <2>7, <2>9, <3>1, <3>2, TakeShared
    <3>4. rest \in [CowSet -> Nat] /\ com \in Nat
      BY <2>00, <2>5, <2>7, <2>9, <3>1, <3>2, TakeShared
    <3> QED BY <3>3, <3>4
  <2> QED BY <1>1, <2>0, <2>3, <2>9, <2>10, SettleStep
<1>9. CASE /\ s # Null /\ UNCHANGED panic
           /\ \E p \in FreePages : Fill(t, obj, rest, r, p, committed - 1, uncommitted)
  <2>1. PICK p \in FreePages : Fill(t, obj, rest, r, p, committed - 1, uncommitted)
    BY <1>9
  <2> DEFINE m == FilledRecord(t, r, p)
             n == [obj EXCEPT ![o] = m]
             fs == Done(t)
             com == committed - 1
             unc == uncommitted
  <2>2. Settle(n, rest, fs, com, unc)
    BY <2>1 DEF Fill, FilledRecord
  <2>3. s \in CowSet /\ count[s] # 0 /\ panic' = panic /\ rest = Less(count, s)
    BY <1>4, <1>9 DEF Less
  <2>4. Fillable(r, obj[o], i)
    BY <1>2, <1>3, SameFillable
  <2>5. r.unused = obj[o].unused
    BY <1>3 DEF SameButShared
  <2> HIDE DEF o, i, r, s, rest
  <2>6. Sound(n, fs)
    BY <1>2, <1>3, <2>4, FillFacts
  <2>7. m \in ObjectRecord
    BY <1>2, <1>3, <2>4, FillFacts
  <2>8. m.unused = r.unused
    BY <1>2, <1>3, <2>4, FillFacts
  <2>9. Cardinality(InUse(n, fs) \ InUse(obj, fault)) = 1
    <3>1. o \in Object /\ i \in Index /\ FaultAt(t, o, i) /\ r \in ObjectRecord
      BY <1>2, <1>3
    <3> QED BY <2>4, <3>1, FillFacts
  <2>10. n = [obj EXCEPT ![o] = m]
    OBVIOUS
  <2> HIDE DEF m, n, fs
  <2>11. /\ com = committed - 1 /\ unc \in Nat
         /\ unc + Cardinality(InUse(n, fs) \ InUse(obj, fault)) = uncommitted + 1
    BY <1>2, <2>9
  <2> HIDE DEF com, unc
  <2>12. m.unused = obj[o].unused
    BY <2>5, <2>8
  <2>13. Accounts(n, rest, fs, com, unc) /\ rest \in [CowSet -> Nat] /\ com \in Nat
    <3>1. o \in Object /\ obj[o] # Null /\ s \in CowSet /\ count[s] # 0 /\ rest = Less(count, s)
      BY <1>2, <2>3
    <3>2. m \in ObjectRecord
      BY <2>7
    <3> HIDE DEF o
    <3>3. Accounts(n, rest, fs, com, unc)
      BY <2>10, <2>11, <2>12, <3>1, <3>2, TakeShared
    <3>4. rest \in [CowSet -> Nat] /\ com \in Nat
      BY <2>10, <2>11, <2>12, <3>1, <3>2, TakeShared
    <3> QED BY <3>3, <3>4
  <2> QED BY <1>1, <2>2, <2>3, <2>6, <2>11, <2>13, SettleStep
<1>10. CASE AllocateInto(t, r)
  <2> HIDE DEF r
  <2> QED BY <1>1, <1>2, <1>3, <1>10, AllocateIntoStep
<1> QED BY <1>6, <1>7, <1>8, <1>9, <1>10 DEF FaultCow

-----------------------------------------------------------------------------
(* The theorems.                                                           *)

(* In the beginning all pages are free and uncommitted.                    *)
LEMMA InitOK == Init => MemoryInv
<1> SUFFICES ASSUME Init PROVE MemoryInv
  OBVIOUS
<1>1. /\ obj = [o \in Object |-> Null] /\ count = [s \in CowSet |-> 0]
      /\ fault = [t \in Thread |-> Null] /\ committed = 0
      /\ uncommitted = Cardinality(Page) /\ panic = Null
  BY DEF Init
<1>2. /\ obj \in [Object -> ObjectRecord \cup {Null}]
      /\ \A o \in Object : obj[o] = Null
      /\ fault \in [Thread -> FaultRecord \cup {Null}]
      /\ \A t \in Thread : fault[t] = Null
      /\ count \in [CowSet -> Nat] /\ \A s \in CowSet : count[s] = 0
  BY <1>1
<1>3. Sound(obj, fault)
  BY <1>2 DEF Sound
<1>4. Cardinality(Page) \in Nat
  BY FiniteAssumption, FS_CardinalityType
<1>5. TypeOK
  <2>1. panic \in PanicRecord \cup {Null}
    BY <1>1
  <2> QED BY <1>1, <1>2, <1>4, <2>1 DEF TypeOK
<1>6. ASSUME NEW S, IsFiniteSet(S), NEW f, \A x \in S : f[x] = 0
      PROVE  SumFunctionOnSet(f, S) = 0
  <2>1. \A x \in S : f[x] \in Nat
    BY <1>6
  <2>2. Tokens(f, S) = {}
    BY <1>6 DEF Tokens
  <2> QED BY <1>6, <2>1, <2>2, SumIsTokens, FS_EmptySet
<1>7. SumFunction(count) = 0
  <2>1. SumFunctionOnSet(count, CowSet) = 0
    BY <1>2, <1>6, FiniteAssumption
  <2>2. DOMAIN count = CowSet
    BY <1>2
  <2> QED BY <2>1, <2>2, Zenon DEF SumFunction
<1>8. SumFunction([o \in Live(obj) |-> obj[o].unused]) = 0
  <2>1. \A o \in Object : Unused(obj)[o] = 0
    BY <1>2, UnusedType
  <2>2. Promised(obj) = 0
    BY <1>6, <2>1, FiniteAssumption DEF Promised
  <2> QED BY <1>2, <2>2, PromisedIsSum
<1>9. FreePages = Page
  BY <1>2, InUseFacts DEF FreePages
<1>10. Accounting
  <2>1. committed = SumFunction([o \in Live(obj) |-> obj[o].unused]) + SumFunction(count)
    <3>1. 0 = 0 + 0
      OBVIOUS
    <3> QED BY <1>1, <1>7, <1>8, <3>1, Zenon
  <2>2. committed + uncommitted = Cardinality(FreePages)
    BY <1>1, <1>4, <1>9
  <2>3. \A s \in CowSet : ~(count[s] > 0)
    BY <1>2
  <2> QED BY <2>1, <2>2, <2>3, Zenon DEF Accounting
<1>11. PanicExplained
  BY <1>1 DEF PanicExplained
<1> QED BY <1>3, <1>5, <1>10, <1>11 DEF MemoryInv

(* A step that changes nothing.                                            *)
LEMMA StutterStep ==
    ASSUME MemoryInv, UNCHANGED vars
    PROVE  MemoryInv'
<1>1. UNCHANGED <<obj, count, fault, committed, uncommitted>> /\ panic' = panic
  BY DEF vars
<1>2. PanicExplained'
  BY <1>1 DEF PanicExplained, should_cow, MemoryInv
<1>3. panic' \in PanicRecord \cup {Null}
  BY <1>1, Zenon DEF MemoryInv, TypeOK
<1> QED BY <1>1, <1>2, <1>3, PanicOnly

(* Every step keeps the invariant.                                         *)
LEMMA NextOK ==
    ASSUME MemoryInv, [Next]_vars
    PROVE  MemoryInv'
<1>1. CASE \E o \in Object :
              \/ \E strategy \in {"Reserve", "None"}, purgeable \in BOOLEAN :
                    Create(o, strategy, purgeable)
              \/ \E c \in Object : CloneNothing(o, c)
              \/ \E c \in Object : Clone(o, c)
              \/ Destroy(o)
              \/ SetVolatile(o)
              \/ SetNonVolatile(o)
              \/ Purge(o)
  BY <1>1, CreateStep, CloneNothingStep, CloneStep, DestroyStep, SetVolatileStep,
     SetNonVolatileStep, PurgeStep
<1>2. CASE \E t \in Thread :
              \/ \E o \in Object, i \in Index : FaultBegin(t, o, i)
              \/ FaultCheck(t)
              \/ FaultVerify(t)
              \/ FaultZero(t)
              \/ FaultCow(t)
              \/ Crash(t)
  BY <1>2, FaultBeginStep, FaultCheckStep, FaultVerifyStep, FaultZeroStep, FaultCowStep, CrashStep
<1>3. CASE UNCHANGED vars
  BY <1>3, StutterStep
<1> QED BY <1>1, <1>2, <1>3 DEF Next

(* The inductive invariant: the objects and the faults are sound, the      *)
(* counters account for every page, and every panic is explained.          *)
THEOREM MemoryInvariance == Spec => []MemoryInv
<1>1. Init => MemoryInv
  BY InitOK
<1>2. MemoryInv /\ [Next]_vars => MemoryInv'
  BY NextOK
<1> QED BY <1>1, <1>2, PTL DEF Spec

(* The counters of the memory manager never go below zero, and everything  *)
(* else has its type (MemoryManager.cpp, AnonymousVMObject.cpp).           *)
THEOREM MemoryTypeCorrect == Spec => []TypeOK
<1>1. MemoryInv => TypeOK
  BY DEF MemoryInv
<1> QED BY <1>1, MemoryInvariance, PTL

(* commit_physical_pages, uncommit_physical_pages,                         *)
(* allocate_committed_physical_page and deallocate_physical_page keep the  *)
(* books: every committed page belongs to one object or shared set, and    *)
(* the committed and uncommitted pages together are the free ones.         *)
THEOREM AccountingHolds == Spec => []Accounting
<1>1. MemoryInv => Accounting
  BY DEF MemoryInv
<1> QED BY <1>1, MemoryInvariance, PTL

(* A fault on memory that is not purgeable hits no VERIFY in               *)
(* handle_zero_fault, and when handle_fault finds the page-table entry not *)
(* writable without a reason, the page has to be copied: the page tables   *)
(* agree with the objects, whatever forks, copies and exits come between   *)
(* the steps of a fault.                                                   *)
THEOREM PanicExplainedHolds == Spec => []PanicExplained
<1>1. MemoryInv => PanicExplained
  BY DEF MemoryInv
<1> QED BY <1>1, MemoryInvariance, PTL

(* A slot that shows the lazy page has a page committed for it, in the     *)
(* original and in the clone (AnonymousVMObject::try_clone, set_volatile). *)
THEOREM LazyBackedHolds == Spec => []LazyBacked
<1>1. MemoryInv => LazyBacked
  <2> SUFFICES ASSUME MemoryInv, NEW o \in Live(obj)
               PROVE  Cardinality({i \in Index : obj[o].page[i] = Lazy}) <= obj[o].unused
    BY DEF LazyBacked
  <2>1. RecordOK(obj[o])
    BY DEF MemoryInv, Sound, Live
  <2> QED BY <2>1 DEF RecordOK, LazySlots
<1> QED BY <1>1, MemoryInvariance, PTL

(* No process can write to a page that another one can read: fork, the     *)
(* copy on write and the shortcut for the last reference keep a page that  *)
(* two objects have read-only in both, unless the object is purgeable.     *)
THEOREM CowIsolationHolds == Spec => []CowIsolation
<1>1. MemoryInv => CowIsolation
  <2> SUFFICES ASSUME MemoryInv, NEW o \in Live(obj), NEW q \in Live(obj), NEW i \in Index, NEW j \in Index,
                      o # q, IsReal(obj[o].page[i]), obj[o].page[i] = obj[q].page[j],
                      ~obj[o].purgeable
               PROVE  i \notin obj[o].writable
    BY DEF CowIsolation
  <2>1. RecordOK(obj[o]) /\ CopiedBy(obj, o, q)
    BY DEF MemoryInv, Sound, Live
  <2>2. obj[o].cow # Null /\ i \in obj[o].cow
    BY <2>1 DEF CopiedBy
  <2>3. should_cow(obj[o], i)
    BY <2>2 DEF should_cow
  <2> QED BY <2>1, <2>3 DEF RecordOK
<1> QED BY <1>1, MemoryInvariance, PTL
=============================================================================
