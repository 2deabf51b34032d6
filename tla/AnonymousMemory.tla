--------------------------- MODULE AnonymousMemory ---------------------------
(***************************************************************************)
(* Private anonymous memory: AnonymousVMObject                             *)
(* (Kernel/Memory/AnonymousVMObject.cpp), the page faults of the Region    *)
(* that maps it (Kernel/Memory/Region.cpp), and the committed and          *)
(* uncommitted physical pages of MemoryManager                             *)
(* (Kernel/Memory/MemoryManager.cpp).                                      *)
(*                                                                         *)
(* mmap reserves pages or not; fork clones an object, after which both     *)
(* copy a page before they write to it and share a set of pages committed  *)
(* for that; madvise lets the kernel take away the pages of a purgeable    *)
(* object while it is volatile.  An object is mapped by one region.        *)
(*                                                                         *)
(* There is one processor (SMP is off by default, Kernel/Boot/             *)
(* CommandLine.cpp), and what runs under a spinlock is not preempted: the  *)
(* functions that hold m_lock of the object, and fork with the remapping   *)
(* of the parent, are one action.  A page fault runs with interrupts       *)
(* enabled and looks at the object and its page table up to three times,   *)
(* with no lock in between.  Allocations from the kernel heap succeed, and *)
(* inodes have no clean pages to give back.                                *)
(***************************************************************************)
EXTENDS Naturals, FiniteSets, Functions

CONSTANTS Page,      \* physical pages
          Object,    \* AnonymousVMObjects that may exist
          Index,     \* the pages of each object
          CowSet,    \* SharedCommittedCowPages that may exist
          Thread,    \* threads that write to the memory
          MaxMixed,  \* a bound: the objects that exist at once if one is purgeable
          MaxBusy,   \* a bound: the objects that exist when a second fault begins
          Zero,      \* MM.shared_zero_page()
          Lazy,      \* MM.lazy_committed_page()
          Null       \* a null pointer, no map, no fault

ASSUME FiniteAssumption == /\ IsFiniteSet(Page) /\ IsFiniteSet(Object)
                           /\ IsFiniteSet(Index) /\ IsFiniteSet(CowSet)
                           /\ IsFiniteSet(Thread)
ASSUME PageAssumption == {Zero, Lazy} \cap Page = {} /\ Zero # Lazy
ASSUME NullAssumption == Null \notin Object \cup CowSet /\ \A S \in SUBSET Index : S # Null
ASSUME CowSetAssumption == Cardinality(CowSet) > Cardinality(Object)  \* one can be made
ASSUME IndexAssumption == Index # {}
ASSUME BoundAssumption == MaxMixed \in Nat /\ MaxBusy \in Nat

(* A VMObject, and a page fault in progress; a null pointer is neither.    *)
ObjectRecord ==
    [page : [Index -> Page \cup {Zero, Lazy}], unused : Nat, cow : (SUBSET Index) \cup {Null},
     shared : CowSet \cup {Null}, parent : Object \cup {Null}, purgeable : BOOLEAN,
     volatile : BOOLEAN, writable : SUBSET Index]
FaultRecord ==
    [object : Object, index : Index, seen : Page \cup {Zero, Lazy},
     stage : {"check", "verify", "zero", "cow", "cow denied", "zero denied"}]

(* Why the system has stopped, and which thread's fault it is about: a     *)
(* VERIFY or PANIC that was hit, or a spinlock that is waited for in vain. *)
PanicRecord == [why : {"VERIFY", "unhandled page fault", "purge", "unmap"}, by : Thread]

ASSUME RecordAssumption == Null \notin ObjectRecord /\ Null \notin FaultRecord
                                           /\ Null \notin PanicRecord

VARIABLES
    obj,          \* the objects: a record each, or Null
    count,        \* [CowSet -> Nat]: m_committed_pages of each shared set
    fault,        \* the write fault that each thread is handling, or Null
    committed,    \* physical_pages_committed
    uncommitted,  \* physical_pages_uncommitted
    panic         \* why the system has stopped, or Null

vars == <<obj, count, fault, committed, uncommitted, panic>>

(* A new object: m_physical_pages, m_unused_committed_pages, m_cow_map,    *)
(* m_shared_committed_cow_pages, m_cow_parent, m_purgeable, m_volatile, and *)
(* the pages that the page table lets its process write to.                *)
NewObject(initial_page, unused, purgeable, volatile) ==
    [page |-> [i \in Index |-> initial_page], unused |-> unused, cow |-> Null,
     shared |-> Null, parent |-> Null, purgeable |-> purgeable, volatile |-> volatile,
     writable |-> {}]

Init ==
    /\ obj = [o \in Object |-> Null]
    /\ count = [s \in CowSet |-> 0]
    /\ fault = [t \in Thread |-> Null]
    /\ committed = 0
    /\ uncommitted = Cardinality(Page)
    /\ panic = Null

-----------------------------------------------------------------------------
(* Reference counts.                                                       *)

Live(os) == {o \in Object : os[o] # Null}

(* The slots and the page faults that refer to page p.                     *)
References(os, fs, p) ==
    {e \in Live(os) \X Index : os[e[1]].page[e[2]] = p}
      \cup {<<t, Null>> : t \in {u \in Thread : fs[u] # Null /\ fs[u].seen = p}}

(* The pages that something refers to.                                     *)
InUse(os, fs) ==
    Page \cap ({os[o].page[i] : o \in Live(os), i \in Index}
                 \cup {fs[t].seen : t \in {u \in Thread : fs[u] # Null}})
FreePages == Page \ InUse(obj, fault)

Referenced(os) == {os[o].shared : o \in Live(os)} \ {Null}

(* Mutant: a shared set that nobody uses any more is forgotten.            *)
SettleForgets(os, cs, fs, com, unc) ==
    LET freed == InUse(obj, fault) \ InUse(os, fs)
        dropped == Referenced(obj) \ Referenced(os)
    IN  /\ obj' = os
        /\ fault' = fs
        /\ count' = [s \in CowSet |-> IF s \in dropped THEN 0 ELSE cs[s]]
        /\ committed' = com
        /\ uncommitted' = unc + Cardinality(freed)

(* The state after an operation that leaves the objects as os, the shared  *)
(* sets as cs, the faults as fs and the two counters as com and unc: a     *)
(* page without references goes back to the uncommitted ones               *)
(* (deallocate_physical_page), a shared set without references is          *)
(* destroyed and uncommits what it still has.                              *)
Settle(os, cs, fs, com, unc) ==
    LET freed == InUse(obj, fault) \ InUse(os, fs)
        dropped == Referenced(obj) \ Referenced(os)
        returned == SumFunctionOnSet(cs, dropped)
    IN  /\ obj' = os
        /\ fault' = fs
        /\ count' = [s \in CowSet |-> IF s \in dropped THEN 0 ELSE cs[s]]
        /\ committed' = com - returned
        /\ uncommitted' = unc + returned + Cardinality(freed)

Panic(t, reason) ==
    /\ panic' = [why |-> reason, by |-> t]
    /\ UNCHANGED <<obj, count, fault, committed, uncommitted>>

-----------------------------------------------------------------------------
(* The map of pages to copy, and the page table.                           *)

IsReal(p) == p \notin {Zero, Lazy}
RealIndices(r) == {i \in Index : IsReal(r.page[i])}

(* AnonymousVMObject::should_cow of a region that is not shared.           *)
should_cow(r, i) == ~IsReal(r.page[i]) \/ (r.cow # Null /\ i \in r.cow)

(* set_should_cow(i, false): ensure_cow_map makes a map if there is none.  *)
ClearCow(r, i) ==
    [r EXCEPT !.cow = (IF r.cow = Null THEN RealIndices(r) ELSE r.cow) \ {i}]

(* Mutant: the page table is not told that the page may be written to.     *)
RemapPageReadOnly(r, i) == [r EXCEPT !.writable = @ \ {i}]

(* Region::remap_vmobject_page and, for all pages, remap_regions_locked.   *)
RemapPage(r, i) ==
    [r EXCEPT !.writable = IF should_cow(r, i) THEN @ \ {i} ELSE @ \cup {i}]
RemapAll(r) == [r EXCEPT !.writable = {i \in Index : ~should_cow(r, i)}]

-----------------------------------------------------------------------------
(* The bounds, which keep the instances small.                             *)
Room(os) ==
    (\E o \in Live(os) : os[o].purgeable) => Cardinality(Live(os)) <= MaxMixed
Quiet == (\E t \in Thread : fault[t] # Null) => Cardinality(Live(obj)) <= MaxBusy

(* mmap: try_create_with_size and try_create_purgeable_with_size.  Without *)
(* enough uncommitted pages a reservation fails with ENOMEM.               *)
Create(o, strategy, purgeable) ==
    LET reserved == IF strategy = "Reserve" THEN Cardinality(Index) ELSE 0
        initial_page == IF strategy = "Reserve" THEN Lazy ELSE Zero
    IN  /\ panic = Null
        /\ obj[o] = Null
        /\ reserved <= uncommitted
        /\ obj' = [obj EXCEPT ![o] = NewObject(initial_page, reserved, purgeable, FALSE)]
        /\ Room(obj')
        /\ committed' = committed + reserved
        /\ uncommitted' = uncommitted - reserved
        /\ UNCHANGED <<count, fault, panic>>

(* try_clone of an object that has nothing to share: it is volatile, or    *)
(* has no page of its own yet.  In the second case the clone is not        *)
(* purgeable.                                                              *)
CloneNothing(o, c) ==
    /\ panic = Null
    /\ obj[o] # Null /\ obj[c] = Null
    /\ \/ /\ obj[o].purgeable /\ obj[o].volatile
          /\ obj' = [obj EXCEPT ![c] = NewObject(Zero, 0, TRUE, TRUE)]
       \/ /\ ~(obj[o].purgeable /\ obj[o].volatile)
          /\ RealIndices(obj[o]) = {}
          /\ obj' = [obj EXCEPT ![c] = NewObject(Zero, 0, FALSE, FALSE)]
    /\ Room(obj')
    /\ UNCHANGED <<count, fault, committed, uncommitted, panic>>

(* The clone has the pages of the original, but none of those that were    *)
(* committed for it.                                                       *)
ClonedPages(r) ==
    [i \in Index |-> IF r.page[i] = Lazy /\ r.unused > 0 THEN Zero ELSE r.page[i]]

(* Mutant: the parent keeps its map.                                       *)
BecomesCowLater(r) == [r EXCEPT !.cow = IF @ = Null THEN RealIndices(r) ELSE @]

(* ensure_or_reset_cow_map                                                 *)
BecomesCow(r) == [r EXCEPT !.cow = RealIndices(r)]

(* try_clone of an object with pages, by Region::try_clone: a page for     *)
(* each of them is committed, in a new set that replaces the parent's.     *)
Clone(o, c) ==
    /\ panic = Null
    /\ obj[o] # Null /\ obj[c] = Null
    /\ ~(obj[o].purgeable /\ obj[o].volatile)
    /\ RealIndices(obj[o]) # {}
    /\ LET s == CHOOSE x \in CowSet : x \notin Referenced(obj)
           needed == Cardinality(RealIndices(obj[o]))
           parent == RemapAll([BecomesCow(obj[o]) EXCEPT !.shared = s])
           clone == [NewObject(Zero, 0, obj[o].purgeable, FALSE) EXCEPT
                       !.page = ClonedPages(obj[o]), !.cow = RealIndices(obj[o]),
                       !.shared = s, !.parent = o]
       IN  /\ needed <= uncommitted
           /\ Settle([obj EXCEPT ![o] = parent, ![c] = clone], [count EXCEPT ![s] = needed],
                     fault, committed + needed, uncommitted - needed)
    /\ Room(obj')
    /\ UNCHANGED panic

(* ~AnonymousVMObject of o takes the shared set from its parent, which was *)
(* only committed for the two of them.                                     *)
Without(o) ==
    LET s == obj[o].shared
        stop == s # Null /\ count[s] > 0
    IN  [q \in Object |->
           IF q = o \/ obj[q] = Null THEN Null
           ELSE [obj[q] EXCEPT
                  !.shared = IF stop /\ q = obj[o].parent /\ @ = s THEN Null ELSE @,
                  !.parent = IF @ = o THEN Null ELSE @]]

(* munmap or exit: the object's own committed pages are uncommitted with   *)
(* it.  But ~Region unmaps the pages and then waits for the page faults in *)
(* progress; munmap holds the spinlock of the address space, so that on    *)
(* this processor the faulting thread never runs again.                    *)
Destroy(o) ==
    /\ panic = Null
    /\ obj[o] # Null
    /\ \/ /\ \A t \in Thread : fault[t] # Null => fault[t].object # o
          /\ Settle(Without(o), count, fault,
                    committed - obj[o].unused, uncommitted + obj[o].unused)
          /\ UNCHANGED panic
       \/ \E t \in Thread : /\ fault[t] # Null /\ fault[t].object = o
                            /\ Panic(t, "unmap")

-----------------------------------------------------------------------------
(* madvise: AnonymousVMObject::set_volatile.                               *)

SetVolatile(o) ==
    /\ panic = Null
    /\ obj[o] # Null /\ obj[o].purgeable /\ ~obj[o].volatile
    /\ LET r == [obj[o] EXCEPT
                   !.page = [i \in Index |-> IF @[i] = Lazy THEN Zero ELSE @[i]],
                   !.unused = 0, !.shared = Null, !.cow = Null, !.volatile = TRUE]
       IN  Settle([obj EXCEPT ![o] = RemapAll(r)], count, fault,
                  committed - obj[o].unused, uncommitted + obj[o].unused)
    /\ UNCHANGED panic

(* It commits a page for each one it does not have, or fails with ENOMEM.  *)
SetNonVolatile(o) ==
    /\ panic = Null
    /\ obj[o] # Null /\ obj[o].purgeable /\ obj[o].volatile
    /\ LET needed == Cardinality({i \in Index : obj[o].page[i] = Zero})
           r == [obj[o] EXCEPT
                   !.page = [i \in Index |-> IF @[i] = Zero THEN Lazy ELSE @[i]],
                   !.unused = needed, !.volatile = FALSE]
       IN  /\ needed <= uncommitted
           /\ obj' = [obj EXCEPT ![o] = IF needed = 0 THEN [@ EXCEPT !.volatile = FALSE]
                                        ELSE RemapAll(r)]
           /\ committed' = committed + needed
           /\ uncommitted' = uncommitted - needed
    /\ UNCHANGED <<count, fault, panic>>

(* AnonymousVMObject::purge, for sys$purge(PURGE_ALL_VOLATILE), which      *)
(* calls it for one object after the other.                                *)
Purged(r) == RemapAll([r EXCEPT !.page = [i \in Index |-> Zero]])

Purge(o) ==
    /\ panic = Null
    /\ obj[o] # Null /\ obj[o].purgeable /\ obj[o].volatile
    /\ Settle([obj EXCEPT ![o] = Purged(obj[o])], count, fault, committed, uncommitted)
    /\ UNCHANGED panic

(* The objects that purge() takes pages from; it counts the pages whether  *)
(* or not anybody else refers to them, too.                                *)
Purgeable == {v \in Live(obj) : /\ obj[v].purgeable /\ obj[v].volatile
                                /\ \E i \in Index : obj[v].page[i] # Zero}
-----------------------------------------------------------------------------
(* Page faults: Region::handle_fault for a write.                          *)

Done(t) == [fault EXCEPT ![t] = Null]

(* The write did not go through, and the fault reads the slot.  The trap   *)
(* may be long ago (no page of a new object is writable): another thread   *)
(* may have handled the same fault since.                                  *)
FaultBegin(t, o, i) ==
    /\ panic = Null
    /\ fault[t] = Null
    /\ obj[o] # Null
    /\ Quiet
    /\ LET page == obj[o].page[i]
       IN  fault' = [fault EXCEPT ![t] = [object |-> o, index |-> i, seen |-> page,
                                          stage |-> IF IsReal(page) THEN "check" ELSE "zero"]]
    /\ UNCHANGED <<obj, count, committed, uncommitted, panic>>

(* It is not a zero page.  If it is not to be copied either, the fault     *)
(* lets go of the page and will look into the page table.                  *)
FaultCheck(t) ==
    /\ panic = Null
    /\ fault[t] # Null /\ fault[t].stage = "check"
    /\ \/ /\ should_cow(obj[fault[t].object], fault[t].index)
          /\ fault' = [fault EXCEPT ![t].stage = "cow"]
          /\ UNCHANGED <<obj, count, committed, uncommitted>>
       \/ /\ ~should_cow(obj[fault[t].object], fault[t].index)
          /\ Settle(obj, count, [fault EXCEPT ![t].seen = Zero, ![t].stage = "verify"],
                    committed, uncommitted)
    /\ UNCHANGED panic

(* If another thread has handled the fault, the page table says so.        *)
FaultVerify(t) ==
    /\ panic = Null
    /\ fault[t] # Null /\ fault[t].stage = "verify"
    /\ \/ /\ fault[t].index \in obj[fault[t].object].writable
          /\ fault' = Done(t)
          /\ UNCHANGED <<obj, count, committed, uncommitted, panic>>
       \/ /\ fault[t].index \notin obj[fault[t].object].writable
          /\ Panic(t, "unhandled page fault")

(* The fault ends with page p in the slot that t has faulted on.           *)
Fill(t, os, cs, r, p, com, unc) ==
    LET o == fault[t].object
        i == fault[t].index
        filled == [r EXCEPT !.page[i] = p]
        mapped == RemapPage(IF fault[t].stage = "cow" THEN ClearCow(filled, i) ELSE filled, i)
    IN  Settle([os EXCEPT ![o] = mapped], cs, Done(t), com, unc)

(* MemoryManager::allocate_physical_page for t, which wants to have a page *)
(* in its slot of r.  Without an uncommitted page it purges the first      *)
(* volatile object while it holds the spinlock m_global_data.  To free a   *)
(* page takes that lock again, if no page became free VERIFY(page) fails,  *)
(* and a volatile object that faults itself holds the lock that purge()    *)
(* takes: none of these comes to an end.                                   *)
AllocateInto(t, r) ==
    LET o == fault[t].object
    IN  \/ /\ uncommitted > 0
           /\ \E p \in FreePages : Fill(t, obj, count, r, p, committed, uncommitted - 1)
           /\ UNCHANGED panic
        \/ /\ uncommitted = 0
           /\ Purgeable \ {o} # {} \/ obj[o].volatile
           /\ Panic(t, "purge")
        \/ /\ uncommitted = 0
           /\ Purgeable \ {o} = {} /\ ~obj[o].volatile
           /\ Settle([obj EXCEPT ![o] = RemapPage(r, fault[t].index)], count,
                     [fault EXCEPT ![t].seen = Zero, ![t].stage = IF @ = "cow" THEN "cow denied"
                                                                  ELSE "zero denied"],
                     committed, uncommitted)
           /\ UNCHANGED panic

(* Mutant: the slot is not looked at again under the lock.                 *)
AlreadyHandledNever(r, i) == FALSE

AlreadyHandled(r, i) == IsReal(r.page[i])

(* handle_zero_fault, under the lock: what the fault saw before it decides *)
(* where the page comes from.                                              *)
FaultZero(t) ==
    /\ panic = Null
    /\ fault[t] # Null /\ fault[t].stage = "zero"
    /\ LET o == fault[t].object
           r == obj[o]
           i == fault[t].index
       IN  \/ /\ AlreadyHandled(r, i)
              /\ Settle([obj EXCEPT ![o] = RemapPage(r, i)], count, Done(t), committed, uncommitted)
              /\ UNCHANGED panic
           \/ /\ ~AlreadyHandled(r, i) /\ fault[t].seen = Lazy /\ r.unused > 0
              /\ \E p \in FreePages :
                   Fill(t, obj, count, [r EXCEPT !.unused = @ - 1], p, committed - 1, uncommitted)
              /\ UNCHANGED panic
           \/ /\ ~AlreadyHandled(r, i) /\ fault[t].seen = Lazy /\ r.unused = 0
              /\ Panic(t, "VERIFY")
           \/ /\ ~AlreadyHandled(r, i) /\ fault[t].seen = Zero
              /\ AllocateInto(t, r)

(* page_slot->ref_count() == 1                                             *)
Unshared(r, i) == IsReal(r.page[i]) /\ Cardinality(References(obj, fault, r.page[i])) = 1

(* Mutant: the shared set is not looked at before it is used.              *)
UsedUpNever(r) == FALSE

(* The other process has exhausted the supply.                             *)
UsedUp(r) == r.shared # Null /\ count[r.shared] = 0

(* handle_cow_fault, under s_cow_lock and the object's lock.  A shared set *)
(* that is used up is let go first.  If nobody else has the page it is     *)
(* just made writable, and a page that was committed for it uncommitted;   *)
(* otherwise it is copied.                                                 *)
FaultCow(t) ==
    /\ panic = Null
    /\ fault[t] # Null /\ fault[t].stage = "cow"
    /\ LET o == fault[t].object
           i == fault[t].index
           r == [obj[o] EXCEPT !.shared = IF UsedUp(obj[o]) THEN Null ELSE @]
           s == r.shared
           rest == [count EXCEPT ![s] = @ - 1]
       IN  \/ /\ r.volatile                            \* ShouldCrash
              /\ Settle([obj EXCEPT ![o] = RemapPage(@, i)], count, Done(t), committed, uncommitted)
              /\ UNCHANGED panic
           \/ /\ ~r.volatile /\ Unshared(r, i)
              /\ LET mine == RemapPage(ClearCow(r, i), i) IN
                 IF s = Null
                 THEN Settle([obj EXCEPT ![o] = mine], count, Done(t), committed, uncommitted)
                 ELSE Settle([obj EXCEPT ![o] =
                                [mine EXCEPT !.shared = IF rest[s] = 0 THEN Null ELSE s]],
                             rest, Done(t), committed - 1, uncommitted + 1)
              /\ UNCHANGED panic
           \/ /\ ~r.volatile /\ ~Unshared(r, i) /\ s # Null
              /\ \E p \in FreePages : Fill(t, obj, rest, r, p, committed - 1, uncommitted)
              /\ UNCHANGED panic
           \/ /\ ~r.volatile /\ ~Unshared(r, i) /\ s = Null
              /\ AllocateInto(t, r)

(* The process of t is crashed for want of memory.                         *)
Crash(t) ==
    /\ panic = Null
    /\ fault[t] # Null /\ fault[t].stage \in {"cow denied", "zero denied"}
    /\ fault' = Done(t)
    /\ UNCHANGED <<obj, count, committed, uncommitted, panic>>

-----------------------------------------------------------------------------
Next ==
    \/ \E o \in Object :
          \/ \E strategy \in {"Reserve", "None"}, purgeable \in BOOLEAN :
                Create(o, strategy, purgeable)
          \/ \E c \in Object : CloneNothing(o, c)
          \/ \E c \in Object : Clone(o, c)
          \/ Destroy(o)
          \/ SetVolatile(o)
          \/ SetNonVolatile(o)
          \/ Purge(o)
    \/ \E t \in Thread :
          \/ \E o \in Object, i \in Index : FaultBegin(t, o, i)
          \/ FaultCheck(t)
          \/ FaultVerify(t)
          \/ FaultZero(t)
          \/ FaultCow(t)
          \/ Crash(t)

Spec == Init /\ [][Next]_vars

-----------------------------------------------------------------------------
(* Properties.                                                             *)

(* The types; neither counter of the memory manager goes below zero.       *)
TypeOK ==
    /\ \A o \in Object : obj[o] = Null \/ obj[o] \in ObjectRecord
    /\ count \in [CowSet -> Nat]
    /\ \A t \in Thread : fault[t] = Null \/ fault[t] \in FaultRecord
    /\ committed \in Nat
    /\ uncommitted \in Nat
    /\ panic \in PanicRecord \cup {Null}

(* Every committed page belongs to exactly one object or shared set, and   *)
(* committed and uncommitted pages together are the free pages: whatever   *)
(* was promised can be delivered (the VERIFYs of find_free_physical_page,  *)
(* allocate_committed_physical_page and uncommit_physical_pages), and      *)
(* nothing that was given up stays committed for ever.                     *)
Accounting ==
    /\ committed = SumFunction([o \in Live(obj) |-> obj[o].unused]) + SumFunction(count)
    /\ committed + uncommitted = Cardinality(FreePages)
    /\ \A s \in CowSet : count[s] > 0 => s \in Referenced(obj)

(* A slot that shows the lazy page can be filled: the object, original or  *)
(* clone, still has a committed page for each of them.                     *)
LazyBacked ==
    \A o \in Live(obj) :
        Cardinality({i \in Index : obj[o].page[i] = Lazy}) <= obj[o].unused

(* No process can write to a page that another one can read: a page that   *)
(* two objects refer to is writable in neither, through every order of     *)
(* clones, copies, exits and racing faults.  (Not for a purgeable object:  *)
(* SetVolatile drops the map and makes all its pages writable.)            *)
CowIsolation ==
    \A o, q \in Live(obj) : \A i, j \in Index :
        o # q /\ IsReal(obj[o].page[i]) /\ obj[o].page[i] = obj[q].page[j] =>
            obj[o].purgeable \/ i \notin obj[o].writable

(* With memory that is not purgeable a fault hits no VERIFY, and when it   *)
(* finds no reason for itself the page table has one: it hits              *)
(* PANIC("Unhandled page fault") only on a page that is to be copied,      *)
(* because of a fork since it looked at the map, and never because the     *)
(* page table and the object disagree ("the page tables are desynced from  *)
(* our state", Region.cpp).                                                *)
PanicExplained ==
    panic # Null =>
        LET f == fault[panic.by]
            r == obj[f.object]
        IN  /\ panic.why = "VERIFY" => r.purgeable
            /\ panic.why = "unhandled page fault" =>
                 r.purgeable \/ (IsReal(r.page[f.index]) /\ should_cow(r, f.index))

=============================================================================
