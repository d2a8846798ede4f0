------------------------------ MODULE RefCounting ------------------------------
(***************************************************************************)
(* Reference-counted objects (rtc_base/ref_counter.h, api/ref_counted_     *)
(* base.h) and the pointers that count (api/scoped_refptr.h).  Every       *)
(* pointer is a variable of one thread; an increment, a decrement and the  *)
(* deletion that may follow it are one step each.  A pointer may be a      *)
(* member of an object, and then dies with it.                             *)
(***************************************************************************)
EXTENDS Integers, FiniteSets

CONSTANTS Objects, Null,
          Pointers,    \* the pointers of the program
          Threads,
          OwnerOf      \* the thread whose variable each pointer is

VARIABLES
  ref_count_,
  heap,                \* "unborn", "alive" or "deleted", for each object
  ptr_,                \* what each pointer holds
  raw,                 \* objects taken out with release(), by thread
  op                   \* what each thread is doing, and with what

vars == <<ref_count_, heap, ptr_, raw, op>>

Nothing == [what |-> "none", to |-> Null, p |-> Null, old |-> Null]

Init ==
  /\ ref_count_ = [o \in Objects |-> 0]
  /\ heap = [o \in Objects |-> "unborn"]
  /\ ptr_ = [p \in Pointers |-> Null]
  /\ raw = [t \in Threads |-> Null]
  /\ op = [t \in Threads |-> Nothing]

Mine(t) == {p \in Pointers : OwnerOf[p] = t}
Idle(t) == op[t].what = "none"
Begin(t, what, to, p) == op' = [op EXCEPT ![t] = [what |-> what, to |-> to, p |-> p, old |-> Null]]
IncRef(o) == ref_count_' = [ref_count_ EXCEPT ![o] = @ + 1]

-----------------------------------------------------------------------------

(* What a thread can give to a pointer of its own: a new object, what      *)
(* another pointer of its own holds, what another thread hands over in a   *)
(* copy that lasts until it is taken, or null.                             *)
Source(t) ==
  {Null} \cup {ptr_[p] : p \in Mine(t)}
         \cup {ptr_[p] : p \in {q \in Pointers : Idle(OwnerOf[q])}}

New(t, o, p) ==
  /\ Idle(t) /\ heap[o] = "unborn" /\ ptr_[p] = Null
  /\ heap' = [heap EXCEPT ![o] = "alive"]
  /\ IncRef(o)
  /\ ptr_' = [ptr_ EXCEPT ![p] = o]
  /\ UNCHANGED <<raw, op>>

(* Mutant: the old object is released first. *)
AddRef_Late(t, p, o) ==
  /\ Idle(t) /\ o \in Source(t)
  /\ Begin(t, "release", o, p)
  /\ UNCHANGED <<ref_count_, heap, ptr_, raw>>

(* operator=(T* p): AddRef, then Release, then the assignment.             *)
AddRef(t, p, o) ==
  /\ Idle(t) /\ o \in Source(t)
  /\ IF o = Null THEN UNCHANGED ref_count_ ELSE IncRef(o)
  /\ Begin(t, "release", o, p)
  /\ UNCHANGED <<heap, ptr_, raw>>

(* DecRef: whoever takes the last reference deletes.                       *)
DecRef(t, o, place) ==
  /\ ref_count_' = [ref_count_ EXCEPT ![o] = @ - 1]
  /\ op' = [op EXCEPT ![t].what = IF ref_count_[o] = 1 THEN "delete" ELSE place, ![t].old = o]

Release(t) ==
  /\ op[t].what = "release"
  /\ LET old == ptr_[op[t].p]
     IN  IF old = Null
           THEN op' = [op EXCEPT ![t].what = "assign"] /\ UNCHANGED ref_count_
           ELSE DecRef(t, old, "assign")
  /\ UNCHANGED <<heap, ptr_, raw>>

Delete(t) ==
  /\ op[t].what = "delete"
  /\ heap' = [heap EXCEPT ![op[t].old] = "deleted"]
  /\ op' = IF op[t].p = Null THEN [op EXCEPT ![t] = Nothing] ELSE [op EXCEPT ![t].what = "assign"]
  /\ UNCHANGED <<ref_count_, ptr_, raw>>

Assign(t) ==
  /\ op[t].what = "assign"
  /\ ptr_' = [ptr_ EXCEPT ![op[t].p] = op[t].to]
  /\ op' = [op EXCEPT ![t] = Nothing]
  /\ UNCHANGED <<ref_count_, heap, raw>>

(* The moving operator=: a temporary takes what r held, is swapped with    *)
(* the pointer, and releases what that held, also if the two are one.      *)
Move(t, p, r) ==
  /\ Idle(t)
  /\ LET taken == [ptr_ EXCEPT ![r] = Null]
     IN  /\ ptr_' = [taken EXCEPT ![p] = ptr_[r]]
         /\ IF taken[p] = Null
              THEN UNCHANGED <<ref_count_, op>>
              ELSE /\ ref_count_' = [ref_count_ EXCEPT ![taken[p]] = @ - 1]
                   /\ op' = [op EXCEPT ![t] = [what |-> IF ref_count_[taken[p]] = 1 THEN "delete" ELSE "none",
                                               to |-> Null, p |-> Null, old |-> taken[p]]]
  /\ UNCHANGED <<heap, raw>>

(* release() hands the reference to the caller, who drops it later.        *)
TakeOut(t, p) ==
  /\ Idle(t) /\ raw[t] = Null
  /\ raw' = [raw EXCEPT ![t] = ptr_[p]]
  /\ ptr_' = [ptr_ EXCEPT ![p] = Null]
  /\ UNCHANGED <<ref_count_, heap, op>>

DropRaw(t) ==
  /\ Idle(t) /\ raw[t] # Null
  /\ raw' = [raw EXCEPT ![t] = Null]
  /\ ref_count_' = [ref_count_ EXCEPT ![raw[t]] = @ - 1]
  /\ op' = [op EXCEPT ![t] = [what |-> IF ref_count_[raw[t]] = 1 THEN "delete" ELSE "none",
                              to |-> Null, p |-> Null, old |-> raw[t]]]
  /\ UNCHANGED <<heap, ptr_>>

-----------------------------------------------------------------------------

Next ==
  \E t \in Threads :
    \/ \E p \in Mine(t) :
         \/ \E o \in Objects : New(t, o, p) \/ AddRef(t, p, o)
         \/ AddRef(t, p, Null) \/ TakeOut(t, p)
         \/ \E r \in Mine(t) : Move(t, p, r)
    \/ Release(t) \/ Delete(t) \/ Assign(t) \/ DropRaw(t)

Spec == Init /\ [][Next]_vars

(* Who holds a reference to o: pointers, and operators and callers of      *)
(* release() that are about to pass one on or drop it.                     *)
Hidden(p) == \E t \in Threads : op[t].p = p /\ op[t].what \in {"assign", "delete"}
Holders(o) ==
  {<<"pointer", p>> : p \in {q \in Pointers : ptr_[q] = o /\ ~Hidden(q)}}
    \cup {<<"operation", t>> : t \in {u \in Threads : op[u].to = o /\ op[u].what # "none"}}
    \cup {<<"caller", t>> : t \in {u \in Threads : raw[u] = o}}

(* The count is the number of holders, an object with a holder lives, and  *)
(* one that has lost all of them is deleted, once, or about to be.         *)
ReferencesAreCounted ==
  \A o \in Objects :
    /\ ref_count_[o] = Cardinality(Holders(o))
    /\ Holders(o) # {} => heap[o] = "alive"
    /\ Holders(o) = {} /\ heap[o] = "alive" =>
         Cardinality({t \in Threads : op[t].what = "delete" /\ op[t].old = o}) = 1
===============================================================================
