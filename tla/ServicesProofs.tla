------------------------------ MODULE ServicesProofs ------------------------------
(***************************************************************************)
(* What the parts that serve the queues and threads promise, for any       *)
(* instance of them: the lock of RecursiveCriticalSection, the places of   *)
(* SequenceChecker, the scopes of TraceScopes and the captures of          *)
(* EventTracer, the references of RefCounting and the sinks of Logging.    *)
(* Each part has its invariant, the lemmas of its steps and a theorem of   *)
(* its own specification; the end takes them to MCServices, which runs one *)
(* of the parts at a time.                                                 *)
(***************************************************************************)
EXTENDS MCServices, FiniteSetTheorems, SequenceTheorems, WellFoundedInduction, TLAPS

-----------------------------------------------------------------------------
(* The lock of RecursiveCriticalSection.                                   *)
(*                                                                         *)
(* Whoever is inside, or has let go of lock_queue_ and still has to signal,*)
(* carries the lock; a count in the semaphore stands for a lock that       *)
(* nobody carries yet.  There is at most one of these, and lock_queue_     *)
(* counts the holds of the carrier and those that wait, so it reads zero   *)
(* only when the lock is free.                                             *)

Waiting == {t \in Lockers : lpc[t] \in {"sleep", "asleep"}}
Carries(t) == depth[t] > 0 \/ lpc[t] \in {"own", "count", "disown", "release", "test", "signal"}
Holds(t) == depth[t] + IF lpc[t] \in {"own", "count", "disown", "release"} THEN 1 ELSE 0

LockTyped ==
  /\ lock_queue_ \in Nat /\ recursion_ \in Nat /\ semaphore_ \in {0, 1}
  /\ owning_thread_ \in Lockers \cup {Free}
  /\ sleepers \in Seq(Lockers)
  /\ lpc \in [Lockers -> {"out", "spin", "again", "swap", "sleep", "asleep", "own", "count", "try",
                         "disown", "release", "test", "signal"}]
  /\ depth \in [Lockers -> Nat] /\ enters \in [Lockers -> Nat]

(* The sleepers of the semaphore, each once.                               *)
Sleepers ==
  /\ \A i, j \in 1 .. Len(sleepers) : sleepers[i] = sleepers[j] => i = j
  /\ \A t \in Lockers : lpc[t] = "asleep" <=> \E i \in 1 .. Len(sleepers) : sleepers[i] = t
  /\ semaphore_ = 1 => sleepers = << >>

(* One carrier, counted by lock_queue_ together with those who wait.       *)
Carrier ==
  /\ \A t, u \in Lockers : Carries(t) /\ Carries(u) => t = u
  /\ semaphore_ = 1 => \A t \in Lockers : ~Carries(t)
  /\ \A t \in Lockers : Carries(t) => lock_queue_ = Cardinality(Waiting) + Holds(t)
  /\ (\A t \in Lockers : ~Carries(t)) => lock_queue_ = Cardinality(Waiting) /\ recursion_ = 0

(* The lock is handed over only if somebody waits, and is free only if     *)
(* nobody does.                                                            *)
HandedOver ==
  /\ IsFiniteSet(Waiting)
  /\ \A t \in Lockers : lpc[t] \in {"test", "signal"} /\ depth[t] = 0 => Waiting # {}
  /\ semaphore_ = 1 => Waiting # {}
  /\ Waiting # {} => semaphore_ = 1 \/ \E t \in Lockers : Carries(t)

(* What each thread knows of the owner.                                    *)
OwnerAgrees ==
  /\ \A t \in Lockers : Carries(t) => recursion_ = depth[t]
  /\ \A t \in Lockers : depth[t] > 0 => owning_thread_ = t
  /\ \A t \in Lockers : owning_thread_ = t => depth[t] > 0 \/ lpc[t] \in {"count", "disown"}
  /\ \A t \in Lockers : lpc[t] \in {"swap", "try", "sleep", "asleep", "disown", "signal"} => depth[t] = 0
  /\ \A t \in Lockers : lpc[t] = "again" => depth[t] > 0
  /\ \A t \in Lockers : lpc[t] = "count" => owning_thread_ = t

LockInv == LockTyped /\ Sleepers /\ Carrier /\ HandedOver /\ OwnerAgrees

-----------------------------------------------------------------------------
(* A zero in lock_queue_ says that nobody carries the lock and that it is  *)
(* not on its way to anybody; and with another value it is.                *)
ZeroFree ==
  /\ Cardinality(Waiting) \in Nat /\ (Cardinality(Waiting) = 0 <=> Waiting = {})
  /\ lock_queue_ = 0 => semaphore_ = 0 /\ Waiting = {} /\ \A t \in Lockers : ~Carries(t)
  /\ lock_queue_ > 0 => semaphore_ = 1 \/ \E t \in Lockers : Carries(t)

LEMMA ZeroIsFree ==
  ASSUME LockInv
  PROVE  ZeroFree
<1>1. Cardinality(Waiting) \in Nat /\ (Cardinality(Waiting) = 0 <=> Waiting = {})
  BY FS_CardinalityType, FS_EmptySet DEF LockInv, HandedOver
<1>2. ASSUME lock_queue_ = 0 PROVE semaphore_ = 0 /\ Waiting = {} /\ \A t \in Lockers : ~Carries(t)
  <2>1. \A t \in Lockers : ~Carries(t)
    <3>1. SUFFICES ASSUME NEW t \in Lockers, Carries(t) PROVE FALSE
      OBVIOUS
    <3>2. Holds(t) = 0 /\ Waiting = {}
      BY <1>1, <1>2, <3>1 DEF LockInv, LockTyped, Carrier, Holds
    <3>3. QED
      BY <3>1, <3>2 DEF LockInv, LockTyped, HandedOver, Carries, Holds
  <2>2. QED
    BY <1>1, <1>2, <2>1 DEF LockInv, LockTyped, Carrier, HandedOver
<1>3. ASSUME lock_queue_ > 0 PROVE semaphore_ = 1 \/ \E t \in Lockers : Carries(t)
  BY <1>1, <1>3 DEF LockInv, LockTyped, Carrier, HandedOver
<1>4. QED
  BY <1>1, <1>2, <1>3 DEF ZeroFree

(* A step that changes neither who carries the lock nor the counts.        *)
LEMMA SameCarrier ==
  ASSUME LockInv, Waiting' = Waiting, UNCHANGED <<lock_queue_, recursion_, semaphore_>>,
         \A u \in Lockers :
           /\ Carries(u)' <=> Carries(u)
           /\ Holds(u)' = Holds(u)
           /\ lpc'[u] \in {"test", "signal"} /\ depth'[u] = 0 =>
                lpc[u] \in {"test", "signal"} /\ depth[u] = 0
  PROVE  Carrier' /\ HandedOver'
<1>1. Carrier'
  BY DEF LockInv, Carrier
<1>2. HandedOver'
  BY DEF LockInv, HandedOver
<1>3. QED
  BY <1>1, <1>2

-----------------------------------------------------------------------------
(* The steps that leave Waiting as it is.                                  *)

LEMMA EnterKeeps ==
  ASSUME Free \notin Lockers, LockInv, NEW t \in Lockers, L!Enter(t)
  PROVE  LockInv'
<1>1. Waiting' = Waiting
  BY DEF LockInv, LockTyped, Waiting, L!Enter, L!Goto, L!lockVars, L!historyVars
<1>2. LockTyped'
  BY DEF LockInv, LockTyped, OwnerAgrees, L!Enter, L!Goto, L!lockVars, L!historyVars
<1>3. Sleepers'
  BY DEF LockInv, LockTyped, Sleepers, L!Enter, L!Goto, L!lockVars, L!historyVars
<1>4. Carrier' /\ HandedOver'
  <2>1. \A u \in Lockers :
           /\ Carries(u)' <=> Carries(u)
           /\ Holds(u)' = Holds(u)
           /\ lpc'[u] \in {"test", "signal"} /\ depth'[u] = 0 =>
                lpc[u] \in {"test", "signal"} /\ depth[u] = 0
    BY DEF LockInv, LockTyped, OwnerAgrees, Carries, Holds, L!Enter, L!Goto, L!historyVars
  <2>2. QED
    BY <1>1, <2>1, SameCarrier DEF L!Enter, L!lockVars
<1>5. OwnerAgrees'
  BY DEF LockInv, LockTyped, OwnerAgrees, Carries, L!Enter, L!Goto, L!lockVars, L!historyVars
<1>6. QED
  BY <1>2, <1>3, <1>4, <1>5 DEF LockInv

LEMMA TryEnterKeeps ==
  ASSUME Free \notin Lockers, LockInv, NEW t \in Lockers, L!TryEnter(t)
  PROVE  LockInv'
<1>1. Waiting' = Waiting
  BY DEF LockInv, LockTyped, Waiting, L!TryEnter, L!Goto, L!lockVars, L!historyVars
<1>2. LockTyped'
  BY DEF LockInv, LockTyped, OwnerAgrees, L!TryEnter, L!Goto, L!lockVars, L!historyVars
<1>3. Sleepers'
  BY DEF LockInv, LockTyped, Sleepers, L!TryEnter, L!Goto, L!lockVars, L!historyVars
<1>4. Carrier' /\ HandedOver'
  <2>1. \A u \in Lockers :
           /\ Carries(u)' <=> Carries(u)
           /\ Holds(u)' = Holds(u)
           /\ lpc'[u] \in {"test", "signal"} /\ depth'[u] = 0 =>
                lpc[u] \in {"test", "signal"} /\ depth[u] = 0
    BY ZenonT(30) DEF LockInv, LockTyped, OwnerAgrees, Carries, Holds, L!TryEnter, L!Goto, L!historyVars
  <2>2. QED
    BY <1>1, <2>1, SameCarrier DEF L!TryEnter, L!lockVars
<1>5. OwnerAgrees'
  BY DEF LockInv, LockTyped, OwnerAgrees, Carries, L!TryEnter, L!Goto, L!lockVars, L!historyVars
<1>6. QED
  BY <1>2, <1>3, <1>4, <1>5 DEF LockInv

LEMMA SpinKeeps ==
  ASSUME Free \notin Lockers, LockInv, NEW t \in Lockers, L!Spin(t)
  PROVE  LockInv'
<1>1. Waiting' = Waiting
  BY DEF LockInv, LockTyped, Waiting, L!Spin, L!Goto, L!lockVars, L!historyVars
<1>2. LockTyped'
  BY DEF LockInv, LockTyped, OwnerAgrees, L!Spin, L!Goto, L!lockVars, L!historyVars
<1>3. Sleepers'
  BY DEF LockInv, LockTyped, Sleepers, L!Spin, L!Goto, L!lockVars, L!historyVars
<1>4. Carrier' /\ HandedOver'
  <2>1. \A u \in Lockers :
           /\ Carries(u)' <=> Carries(u)
           /\ Holds(u)' = Holds(u)
           /\ lpc'[u] \in {"test", "signal"} /\ depth'[u] = 0 =>
                lpc[u] \in {"test", "signal"} /\ depth[u] = 0
    BY DEF LockInv, LockTyped, OwnerAgrees, Carries, Holds, L!Spin, L!Goto, L!historyVars
  <2>2. QED
    BY <1>1, <2>1, SameCarrier DEF L!Spin, L!lockVars
<1>5. OwnerAgrees'
  BY DEF LockInv, LockTyped, OwnerAgrees, Carries, L!Spin, L!Goto, L!lockVars, L!historyVars
<1>6. QED
  BY <1>2, <1>3, <1>4, <1>5 DEF LockInv

LEMMA AgainKeeps ==
  ASSUME Free \notin Lockers, LockInv, NEW t \in Lockers, L!Again(t)
  PROVE  LockInv'
<1>0. ZeroFree
  BY ZeroIsFree
<1>1. Waiting' = Waiting
  BY DEF LockInv, LockTyped, Waiting, L!Again, L!Goto, L!lockVars, L!historyVars
<1>2. LockTyped'
  BY DEF LockInv, LockTyped, OwnerAgrees, L!Again, L!Goto, L!lockVars, L!historyVars
<1>3. Sleepers'
  BY DEF LockInv, LockTyped, Sleepers, L!Again, L!Goto, L!lockVars, L!historyVars
<1>4. Carrier'
  <2>1. \A u \in Lockers : Carries(u)' <=> Carries(u)
    BY DEF LockInv, LockTyped, OwnerAgrees, Carries, L!Again, L!Goto, L!lockVars, L!historyVars
  <2>2. Carries(t) /\ Holds(t)' = Holds(t) + 1
    BY DEF LockInv, LockTyped, OwnerAgrees, Carries, Holds, L!Again, L!Goto, L!lockVars, L!historyVars
  <2>3. Holds(t) \in Nat
    BY DEF LockInv, LockTyped, Holds
  <2>4. lock_queue_' = lock_queue_ + 1 /\ semaphore_' = semaphore_
    BY DEF L!Again
  <2>5. QED
    BY <1>1, <2>1, <2>2, <2>3, <2>4, <1>0 DEF ZeroFree, LockInv, LockTyped, Carrier
<1>5. HandedOver'
  BY <1>1, <1>0 DEF ZeroFree, LockInv, LockTyped, Carrier, HandedOver, OwnerAgrees, Carries, Holds, L!Again, L!Goto, L!lockVars, L!historyVars
<1>6. OwnerAgrees'
  BY <1>0 DEF ZeroFree, LockInv, LockTyped, OwnerAgrees, Carrier, Carries, L!Again, L!Goto, L!lockVars, L!historyVars
<1>7. QED
  BY <1>2, <1>3, <1>4, <1>5, <1>6 DEF LockInv

LEMMA CompareAndSwapKeeps ==
  ASSUME Free \notin Lockers, LockInv, NEW t \in Lockers, L!CompareAndSwap(t)
  PROVE  LockInv'
<1>0. ZeroFree
  BY ZeroIsFree
<1>1. Waiting' = Waiting
  BY DEF LockInv, LockTyped, Waiting, L!CompareAndSwap, L!Goto, L!lockVars, L!historyVars
<1>2. LockTyped'
  <2>1. lock_queue_' \in Nat
    BY DEF LockInv, LockTyped, L!CompareAndSwap, L!Goto, L!lockVars, L!historyVars
  <2>2. lpc' \in [Lockers -> {"out", "spin", "again", "swap", "sleep", "asleep", "own", "count", "try",
                           "disown", "release", "test", "signal"}]
    BY DEF LockInv, LockTyped, L!CompareAndSwap, L!Goto, L!lockVars, L!historyVars
  <2>3. QED
    BY <2>1, <2>2 DEF LockInv, LockTyped, L!CompareAndSwap, L!Goto, L!lockVars, L!historyVars
<1>3. Sleepers'
  BY DEF LockInv, LockTyped, Sleepers, L!CompareAndSwap, L!Goto, L!lockVars, L!historyVars
<1>4. Carrier'
  <2>1. CASE lock_queue_ = 0
    <3>1. /\ Cardinality(Waiting) = 0 /\ lock_queue_' = 1 /\ semaphore_' = 0
          /\ \A u \in Lockers : ~Carries(u)
      BY <1>0, <2>1 DEF ZeroFree, L!CompareAndSwap
    <3>2. \A u \in Lockers : Carries(u)' <=> u = t
      BY <2>1, <3>1 DEF LockInv, LockTyped, Carries, L!CompareAndSwap, L!Goto, L!historyVars
    <3>3. Holds(t)' = 1
      BY <2>1, <3>1 DEF LockInv, LockTyped, OwnerAgrees, Holds, L!CompareAndSwap, L!Goto, L!historyVars
    <3>4. QED
      BY <1>1, <3>1, <3>2, <3>3 DEF Carrier
  <2>2. CASE lock_queue_ # 0
    <3>1. \A u \in Lockers : (Carries(u)' <=> Carries(u)) /\ Holds(u)' = Holds(u)
      BY <2>2 DEF LockInv, LockTyped, Carries, Holds, L!CompareAndSwap, L!Goto, L!historyVars
    <3>2. QED
      BY <1>1, <2>2, <3>1 DEF LockInv, Carrier, L!CompareAndSwap
  <2>3. QED
    BY <2>1, <2>2
<1>5. HandedOver'
  BY <1>1, <1>0 DEF ZeroFree, LockInv, LockTyped, Carrier, HandedOver, OwnerAgrees, Carries, Holds, L!CompareAndSwap, L!Goto, L!lockVars, L!historyVars
<1>6. OwnerAgrees'
  BY <1>0 DEF ZeroFree, LockInv, LockTyped, OwnerAgrees, Carrier, Carries, L!CompareAndSwap, L!Goto, L!lockVars, L!historyVars
<1>7. QED
  BY <1>2, <1>3, <1>4, <1>5, <1>6 DEF LockInv

LEMMA OwnKeeps ==
  ASSUME Free \notin Lockers, LockInv, NEW t \in Lockers, L!Own(t)
  PROVE  LockInv'
<1>1. Waiting' = Waiting
  BY DEF LockInv, LockTyped, Waiting, L!Own, L!Goto, L!lockVars, L!historyVars
<1>2. LockTyped'
  BY DEF LockInv, LockTyped, OwnerAgrees, L!Own, L!Goto, L!lockVars, L!historyVars
<1>3. Sleepers'
  BY DEF LockInv, LockTyped, Sleepers, L!Own, L!Goto, L!lockVars, L!historyVars
<1>4. Carrier' /\ HandedOver'
  <2>1. \A u \in Lockers :
           /\ Carries(u)' <=> Carries(u)
           /\ Holds(u)' = Holds(u)
           /\ lpc'[u] \in {"test", "signal"} /\ depth'[u] = 0 =>
                lpc[u] \in {"test", "signal"} /\ depth[u] = 0
    BY DEF LockInv, LockTyped, OwnerAgrees, Carries, Holds, L!Own, L!Goto, L!historyVars
  <2>2. QED
    BY <1>1, <2>1, SameCarrier DEF L!Own, L!lockVars
<1>5. OwnerAgrees'
  BY DEF LockInv, LockTyped, OwnerAgrees, Carrier, Carries, L!Own, L!Goto, L!lockVars, L!historyVars
<1>6. QED
  BY <1>2, <1>3, <1>4, <1>5 DEF LockInv

LEMMA CountKeeps ==
  ASSUME Free \notin Lockers, LockInv, NEW t \in Lockers, L!Count(t)
  PROVE  LockInv'
<1>0. ZeroFree
  BY ZeroIsFree
<1>1. Waiting' = Waiting
  BY DEF LockInv, LockTyped, Waiting, L!Count, L!Goto, L!lockVars, L!historyVars
<1>2. LockTyped'
  BY DEF LockInv, LockTyped, OwnerAgrees, L!Count, L!Goto, L!lockVars, L!historyVars
<1>3. Sleepers'
  BY DEF LockInv, LockTyped, Sleepers, L!Count, L!Goto, L!lockVars, L!historyVars
<1>4. Carrier'
  BY <1>1, <1>0 DEF ZeroFree, LockInv, LockTyped, Carrier, OwnerAgrees, Carries, Holds, L!Count, L!Goto, L!lockVars, L!historyVars
<1>5. HandedOver'
  BY <1>1, <1>0 DEF ZeroFree, LockInv, LockTyped, Carrier, HandedOver, OwnerAgrees, Carries, Holds, L!Count, L!Goto, L!lockVars, L!historyVars
<1>6. OwnerAgrees'
  BY <1>0 DEF ZeroFree, LockInv, LockTyped, OwnerAgrees, Carrier, Carries, L!Count, L!Goto, L!lockVars, L!historyVars
<1>7. QED
  BY <1>2, <1>3, <1>4, <1>5, <1>6 DEF LockInv

LEMMA TrySwapKeeps ==
  ASSUME Free \notin Lockers, LockInv, NEW t \in Lockers, L!TrySwap(t)
  PROVE  LockInv'
<1>0. ZeroFree
  BY ZeroIsFree
<1>1. Waiting' = Waiting
  BY DEF LockInv, LockTyped, Waiting, L!TrySwap, L!Goto, L!lockVars, L!historyVars
<1>2. LockTyped'
  <2>1. lock_queue_' \in Nat
    BY DEF LockInv, LockTyped, L!TrySwap, L!Goto, L!lockVars, L!historyVars
  <2>2. lpc' \in [Lockers -> {"out", "spin", "again", "swap", "sleep", "asleep", "own", "count", "try",
                           "disown", "release", "test", "signal"}]
    BY DEF LockInv, LockTyped, L!TrySwap, L!Goto, L!lockVars, L!historyVars
  <2>3. QED
    BY <2>1, <2>2 DEF LockInv, LockTyped, L!TrySwap, L!Goto, L!lockVars, L!historyVars
<1>3. Sleepers'
  BY DEF LockInv, LockTyped, Sleepers, L!TrySwap, L!Goto, L!lockVars, L!historyVars
<1>4. Carrier'
  <2>1. CASE lock_queue_ = 0
    <3>1. /\ Cardinality(Waiting) = 0 /\ lock_queue_' = 1 /\ semaphore_' = 0
          /\ \A u \in Lockers : ~Carries(u)
      BY <1>0, <2>1 DEF ZeroFree, L!TrySwap
    <3>2. \A u \in Lockers : Carries(u)' <=> u = t
      BY <2>1, <3>1 DEF LockInv, LockTyped, Carries, L!TrySwap, L!Goto, L!historyVars
    <3>3. Holds(t)' = 1
      BY <2>1, <3>1 DEF LockInv, LockTyped, OwnerAgrees, Holds, L!TrySwap, L!Goto, L!historyVars
    <3>4. QED
      BY <1>1, <3>1, <3>2, <3>3 DEF Carrier
  <2>2. CASE lock_queue_ # 0
    <3>1. \A u \in Lockers : (Carries(u)' <=> Carries(u)) /\ Holds(u)' = Holds(u)
      BY <2>2 DEF LockInv, LockTyped, Carries, Holds, L!TrySwap, L!Goto, L!historyVars
    <3>2. QED
      BY <1>1, <2>2, <3>1 DEF LockInv, Carrier, L!TrySwap
  <2>3. QED
    BY <2>1, <2>2
<1>5. HandedOver'
  BY <1>1, <1>0 DEF ZeroFree, LockInv, LockTyped, Carrier, HandedOver, OwnerAgrees, Carries, Holds, L!TrySwap, L!Goto, L!lockVars, L!historyVars
<1>6. OwnerAgrees'
  BY <1>0 DEF ZeroFree, LockInv, LockTyped, OwnerAgrees, Carrier, Carries, L!TrySwap, L!Goto, L!lockVars, L!historyVars
<1>7. QED
  BY <1>2, <1>3, <1>4, <1>5, <1>6 DEF LockInv

LEMMA LeaveKeeps ==
  ASSUME Free \notin Lockers, LockInv, NEW t \in Lockers, L!Leave(t)
  PROVE  LockInv'
<1>0. ZeroFree
  BY ZeroIsFree
<1>1. Waiting' = Waiting
  BY DEF LockInv, LockTyped, Waiting, L!Leave, L!Goto, L!lockVars, L!historyVars
<1>2. LockTyped'
  <2>1. recursion_' \in Nat /\ depth' \in [Lockers -> Nat]
    BY DEF LockInv, LockTyped, OwnerAgrees, Carries, L!Leave, L!Goto, L!lockVars, L!historyVars
  <2>2. QED
    BY <2>1 DEF LockInv, LockTyped, L!Leave, L!Goto, L!lockVars, L!historyVars
<1>3. Sleepers'
  BY DEF LockInv, LockTyped, Sleepers, L!Leave, L!Goto, L!lockVars, L!historyVars
<1>4. Carrier'
  BY <1>1, <1>0 DEF ZeroFree, LockInv, LockTyped, Carrier, OwnerAgrees, Carries, Holds, L!Leave, L!Goto, L!lockVars, L!historyVars
<1>5. HandedOver'
  BY <1>1, <1>0 DEF ZeroFree, LockInv, LockTyped, Carrier, HandedOver, OwnerAgrees, Carries, Holds, L!Leave, L!Goto, L!lockVars, L!historyVars
<1>6. OwnerAgrees'
  BY <1>0 DEF ZeroFree, LockInv, LockTyped, OwnerAgrees, Carrier, Carries, L!Leave, L!Goto, L!lockVars, L!historyVars
<1>7. QED
  BY <1>2, <1>3, <1>4, <1>5, <1>6 DEF LockInv

LEMMA DisownKeeps ==
  ASSUME Free \notin Lockers, LockInv, NEW t \in Lockers, L!Disown(t)
  PROVE  LockInv'
<1>1. Waiting' = Waiting
  BY DEF LockInv, LockTyped, Waiting, L!Disown, L!Goto, L!lockVars, L!historyVars
<1>2. LockTyped'
  BY DEF LockInv, LockTyped, OwnerAgrees, L!Disown, L!Goto, L!lockVars, L!historyVars
<1>3. Sleepers'
  BY DEF LockInv, LockTyped, Sleepers, L!Disown, L!Goto, L!lockVars, L!historyVars
<1>4. Carrier' /\ HandedOver'
  <2>1. \A u \in Lockers :
           /\ Carries(u)' <=> Carries(u)
           /\ Holds(u)' = Holds(u)
           /\ lpc'[u] \in {"test", "signal"} /\ depth'[u] = 0 =>
                lpc[u] \in {"test", "signal"} /\ depth[u] = 0
    BY DEF LockInv, LockTyped, OwnerAgrees, Carries, Holds, L!Disown, L!Goto, L!historyVars
  <2>2. QED
    BY <1>1, <2>1, SameCarrier DEF L!Disown, L!lockVars
<1>5. OwnerAgrees'
  BY DEF LockInv, LockTyped, OwnerAgrees, Carrier, Carries, L!Disown, L!Goto, L!lockVars, L!historyVars
<1>6. QED
  BY <1>2, <1>3, <1>4, <1>5 DEF LockInv

LEMMA ReleaseKeeps ==
  ASSUME Free \notin Lockers, LockInv, NEW t \in Lockers, L!Release(t)
  PROVE  LockInv'
<1>0. ZeroFree
  BY ZeroIsFree
<1>1. Waiting' = Waiting
  BY DEF LockInv, LockTyped, Waiting, L!Release, L!Goto, L!lockVars, L!historyVars
<1>2. LockTyped'
  <2>1. lock_queue_' \in Nat
    BY <1>0 DEF ZeroFree, LockInv, LockTyped, Carries, L!Release, L!Goto, L!lockVars, L!historyVars
  <2>2. QED
    BY <2>1 DEF LockInv, LockTyped, L!Release, L!Goto, L!lockVars, L!historyVars
<1>3. Sleepers'
  BY DEF LockInv, LockTyped, Sleepers, L!Release, L!Goto, L!lockVars, L!historyVars
<1>4. Carrier'
  BY <1>1, <1>0 DEF ZeroFree, LockInv, LockTyped, Carrier, OwnerAgrees, Carries, Holds, L!Release, L!Goto, L!lockVars, L!historyVars
<1>5. HandedOver'
  BY <1>1, <1>0 DEF ZeroFree, LockInv, LockTyped, Carrier, HandedOver, OwnerAgrees, Carries, Holds, L!Release, L!Goto, L!lockVars, L!historyVars
<1>6. OwnerAgrees'
  BY <1>0 DEF ZeroFree, LockInv, LockTyped, OwnerAgrees, Carrier, Carries, L!Release, L!Goto, L!lockVars, L!historyVars
<1>7. QED
  BY <1>2, <1>3, <1>4, <1>5, <1>6 DEF LockInv

LEMMA TestKeeps ==
  ASSUME Free \notin Lockers, LockInv, NEW t \in Lockers, L!Test(t)
  PROVE  LockInv'
<1>1. Waiting' = Waiting
  BY DEF LockInv, LockTyped, Waiting, L!Test, L!Goto, L!lockVars, L!historyVars
<1>2. LockTyped'
  BY DEF LockInv, LockTyped, OwnerAgrees, L!Test, L!Goto, L!lockVars, L!historyVars
<1>3. Sleepers'
  BY DEF LockInv, LockTyped, Sleepers, L!Test, L!Goto, L!lockVars, L!historyVars
<1>4. Carrier' /\ HandedOver'
  <2>1. \A u \in Lockers :
           /\ Carries(u)' <=> Carries(u)
           /\ Holds(u)' = Holds(u)
           /\ lpc'[u] \in {"test", "signal"} /\ depth'[u] = 0 =>
                lpc[u] \in {"test", "signal"} /\ depth[u] = 0
    BY DEF LockInv, LockTyped, OwnerAgrees, Carries, Holds, L!Test, L!Goto, L!historyVars
  <2>2. QED
    BY <1>1, <2>1, SameCarrier DEF L!Test, L!lockVars
<1>5. OwnerAgrees'
  BY DEF LockInv, LockTyped, OwnerAgrees, Carries, L!Test, L!Goto, L!lockVars, L!historyVars
<1>6. QED
  BY <1>2, <1>3, <1>4, <1>5 DEF LockInv

(* The counter was not zero, so the lock has a carrier or is on its way.   *)
LEMMA GiveUpSpinningKeeps ==
  ASSUME Free \notin Lockers, LockInv, NEW t \in Lockers, L!GiveUpSpinning(t)
  PROVE  LockInv'
<1>0. ZeroFree
  BY ZeroIsFree
<1>1. CASE lock_queue_ > 0
  <2>1. Waiting' = Waiting \cup {t} /\ t \notin Waiting
    BY <1>1 DEF LockInv, LockTyped, Waiting, L!GiveUpSpinning, L!Goto
  <2>2. IsFiniteSet(Waiting') /\ Cardinality(Waiting') = Cardinality(Waiting) + 1
    BY <2>1, FS_AddElement DEF LockInv, HandedOver
  <2>3. LockTyped'
    BY <1>1 DEF LockInv, LockTyped, L!GiveUpSpinning, L!Goto, L!lockVars, L!historyVars
  <2>4. Sleepers'
    BY <1>1 DEF LockInv, LockTyped, Sleepers, L!GiveUpSpinning, L!Goto, L!lockVars, L!historyVars
  <2>5. \A u \in Lockers : (Carries(u)' <=> Carries(u)) /\ Holds(u)' = Holds(u) /\ Holds(u) \in Nat
    BY <1>1 DEF LockInv, LockTyped, Carries, Holds, L!GiveUpSpinning, L!Goto, L!historyVars
  <2>6. Carrier'
    <3>1. /\ lock_queue_' = lock_queue_ + 1
          /\ UNCHANGED <<recursion_, semaphore_>>
      BY DEF L!GiveUpSpinning
    <3>2. \A u \in Lockers : Carries(u)' => lock_queue_' = Cardinality(Waiting') + Holds(u)'
      BY <1>0, <2>2, <2>5, <3>1 DEF ZeroFree, LockInv, LockTyped, Carrier
    <3>3. (\A u \in Lockers : ~Carries(u)') =>
              lock_queue_' = Cardinality(Waiting') /\ recursion_' = 0
      BY <1>0, <2>2, <2>5, <3>1 DEF ZeroFree, LockInv, LockTyped, Carrier
    <3>4. QED
      BY <2>5, <3>1, <3>2, <3>3 DEF LockInv, Carrier
  <2>7. HandedOver'
    <3>1. \A u \in Lockers : lpc'[u] \in {"test", "signal"} => lpc[u] = lpc'[u]
      BY <1>1 DEF LockInv, LockTyped, L!GiveUpSpinning, L!Goto
    <3>2. QED
      BY <1>1, <2>1, <2>2, <2>5, <3>1, <1>0 DEF ZeroFree, LockInv, HandedOver, L!GiveUpSpinning, L!historyVars
  <2>8. OwnerAgrees'
    BY <1>1 DEF LockInv, LockTyped, OwnerAgrees, Carries, L!GiveUpSpinning, L!Goto, L!lockVars, L!historyVars
  <2>9. QED
    BY <2>3, <2>4, <2>6, <2>7, <2>8 DEF LockInv
<1>2. CASE lock_queue_ = 0
  <2>1. Waiting' = Waiting
    BY <1>2 DEF LockInv, LockTyped, Waiting, L!GiveUpSpinning, L!Goto
  <2>2. LockTyped'
    BY <1>2 DEF LockInv, LockTyped, L!GiveUpSpinning, L!Goto, L!lockVars, L!historyVars
  <2>3. Sleepers'
    BY <1>2 DEF LockInv, LockTyped, Sleepers, L!GiveUpSpinning, L!Goto, L!lockVars, L!historyVars
  <2>4. Carrier'
    BY <1>2, <2>1, <1>0
    DEF ZeroFree, LockInv, LockTyped, Carrier, OwnerAgrees, Carries, Holds, L!GiveUpSpinning, L!Goto, L!lockVars, L!historyVars
  <2>5. HandedOver'
    BY <1>2, <2>1, <1>0
    DEF ZeroFree, LockInv, LockTyped, HandedOver, Carries, L!GiveUpSpinning, L!Goto, L!lockVars, L!historyVars
  <2>6. OwnerAgrees'
    BY <1>2, <1>0
    DEF ZeroFree, LockInv, LockTyped, OwnerAgrees, Carrier, Carries, L!GiveUpSpinning, L!Goto, L!lockVars, L!historyVars
  <2>7. QED
    BY <2>2, <2>3, <2>4, <2>5, <2>6 DEF LockInv
<1>3. QED
  BY <1>1, <1>2 DEF LockInv, LockTyped

LEMMA SleepKeeps ==
  ASSUME Free \notin Lockers, LockInv, NEW t \in Lockers, L!Sleep(t)
  PROVE  LockInv'
<1>0. ZeroFree
  BY ZeroIsFree
<1>1. CASE semaphore_ > 0
  <2>1. semaphore_ = 1 /\ semaphore_' = 0 /\ sleepers = << >>
    BY <1>1 DEF LockInv, LockTyped, Sleepers, L!Sleep
  <2>2. Waiting' = Waiting \ {t} /\ t \in Waiting
    BY <1>1 DEF LockInv, LockTyped, Waiting, L!Sleep, L!Goto
  <2>3. IsFiniteSet(Waiting') /\ Cardinality(Waiting) = Cardinality(Waiting') + 1
    <3>1. IsFiniteSet(Waiting) /\ Cardinality(Waiting) \in Nat
      BY <1>0 DEF ZeroFree, LockInv, HandedOver
    <3>2. IsFiniteSet(Waiting \ {t}) /\ Cardinality(Waiting \ {t}) = Cardinality(Waiting) - 1
      BY <2>2, <3>1, FS_RemoveElement
    <3>3. QED
      BY <2>2, <3>1, <3>2
  <2>4. LockTyped'
    BY <1>1, <2>1 DEF LockInv, LockTyped, L!Sleep, L!Goto, L!lockVars, L!historyVars
  <2>5. Sleepers'
    BY <1>1, <2>1 DEF LockInv, LockTyped, Sleepers, L!Sleep, L!Goto, L!lockVars, L!historyVars
  <2>6. /\ \A u \in Lockers : Carries(u)' <=> u = t
        /\ \A u \in Lockers : ~Carries(u)
        /\ depth[t] = 0 /\ Holds(t)' = 1
    BY <1>1, <2>1 DEF LockInv, LockTyped, OwnerAgrees, Carrier, Carries, Holds, L!Sleep, L!Goto, L!historyVars
  <2>7. Carrier'
    BY <1>1, <2>1, <2>3, <2>6, <1>0 DEF ZeroFree, LockInv, LockTyped, Carrier, L!Sleep, L!lockVars
  <2>8. HandedOver'
    BY <2>1, <2>3, <2>6 DEF HandedOver, Carries, LockInv, LockTyped, L!Sleep, L!Goto
  <2>9. OwnerAgrees'
    BY <1>1, <2>1, <2>6 DEF LockInv, LockTyped, OwnerAgrees, Carrier, Carries, L!Sleep, L!Goto, L!lockVars, L!historyVars
  <2>10. QED
    BY <2>4, <2>5, <2>7, <2>8, <2>9 DEF LockInv
<1>2. CASE semaphore_ = 0
  <2>1. Waiting' = Waiting
    BY <1>2 DEF LockInv, LockTyped, Waiting, L!Sleep, L!Goto
  <2>2. LockTyped'
    <3>1. sleepers' = Append(sleepers, t) /\ sleepers \in Seq(Lockers)
      BY <1>2 DEF LockInv, LockTyped, L!Sleep
    <3>2. lpc' = [lpc EXCEPT ![t] = "asleep"] /\ semaphore_' = semaphore_
      BY <1>2 DEF L!Sleep, L!Goto
    <3>3. QED
      BY <3>1, <3>2 DEF LockInv, LockTyped, L!Sleep, L!lockVars, L!historyVars
  <2>3. Sleepers'
    <3>1. /\ sleepers \in Seq(Lockers) /\ sleepers' = Append(sleepers, t)
          /\ lpc[t] = "sleep" /\ lpc' = [lpc EXCEPT ![t] = "asleep"] /\ semaphore_' = 0
      BY <1>2 DEF LockInv, LockTyped, L!Sleep, L!Goto
    <3>2. /\ Len(sleepers) \in Nat /\ Len(sleepers') = Len(sleepers) + 1
          /\ sleepers'[Len(sleepers')] = t
          /\ \A i \in 1 .. Len(sleepers) : sleepers'[i] = sleepers[i]
      BY <3>1
    <3>3. \A i \in 1 .. Len(sleepers) : sleepers[i] # t
      BY <3>1 DEF LockInv, Sleepers
    <3>4. \A i, j \in 1 .. Len(sleepers') : sleepers'[i] = sleepers'[j] => i = j
      BY <3>2, <3>3 DEF LockInv, Sleepers
    <3>5. ASSUME NEW u \in Lockers
          PROVE  lpc'[u] = "asleep" <=> \E i \in 1 .. Len(sleepers') : sleepers'[i] = u
      <4>1. CASE u = t
        BY <3>1, <3>2, <4>1 DEF LockInv, LockTyped
      <4>2. CASE u # t
        <5>1. lpc'[u] = "asleep" <=> \E i \in 1 .. Len(sleepers) : sleepers[i] = u
          BY <3>1, <4>2 DEF LockInv, LockTyped, Sleepers
        <5>2. QED
          BY <3>2, <4>2, <5>1
      <4>3. QED
        BY <4>1, <4>2
    <3>6. QED
      BY <3>1, <3>4, <3>5 DEF Sleepers
  <2>4. Carrier'
    <3>1. \A u \in Lockers : (Carries(u)' <=> Carries(u)) /\ Holds(u)' = Holds(u)
      BY <1>2 DEF LockInv, LockTyped, Carries, Holds, L!Sleep, L!Goto, L!historyVars
    <3>2. QED
      BY <1>2, <2>1, <3>1 DEF LockInv, Carrier, L!Sleep, L!lockVars
  <2>5. HandedOver'
    BY <1>2, <2>1 DEF LockInv, LockTyped, HandedOver, Carries, L!Sleep, L!Goto, L!lockVars, L!historyVars
  <2>6. OwnerAgrees'
    BY <1>2 DEF LockInv, LockTyped, OwnerAgrees, Carries, L!Sleep, L!Goto, L!lockVars, L!historyVars
  <2>7. QED
    BY <2>2, <2>3, <2>4, <2>5, <2>6 DEF LockInv
<1>3. QED
  BY <1>1, <1>2 DEF LockInv, LockTyped

LEMMA SignalKeeps ==
  ASSUME Free \notin Lockers, LockInv, NEW t \in Lockers, L!Signal(t)
  PROVE  LockInv'
<1>0. ZeroFree
  BY ZeroIsFree
<1>1. /\ Carries(t) /\ depth[t] = 0 /\ semaphore_ = 0 /\ recursion_ = 0
      /\ \A u \in Lockers : Carries(u) => u = t
      /\ lock_queue_ = Cardinality(Waiting) /\ Waiting # {}
  BY <1>0 DEF ZeroFree, LockInv, LockTyped, OwnerAgrees, Carrier, HandedOver, Carries, Holds, L!Signal
<1>2. CASE sleepers = << >>
  <2>1. Waiting' = Waiting
    BY <1>2 DEF LockInv, LockTyped, Waiting, L!Signal, L!Goto
  <2>2. LockTyped'
    BY <1>1, <1>2 DEF LockInv, LockTyped, L!Signal, L!Goto, L!lockVars, L!historyVars
  <2>3. Sleepers'
    BY <1>2 DEF LockInv, LockTyped, Sleepers, L!Signal, L!Goto, L!lockVars, L!historyVars
  <2>4. \A u \in Lockers : ~Carries(u)'
    BY <1>1, <1>2 DEF LockInv, LockTyped, Carries, L!Signal, L!Goto, L!historyVars
  <2>5. Carrier'
    BY <1>1, <1>2, <2>1, <2>4 DEF Carrier, L!Signal, L!lockVars
  <2>6. HandedOver'
    BY <1>1, <1>2, <2>1, <2>4 DEF LockInv, LockTyped, HandedOver, Carries, L!Signal
  <2>7. OwnerAgrees'
    BY <1>1, <1>2, <2>4 DEF LockInv, LockTyped, OwnerAgrees, Carries, L!Signal, L!Goto, L!lockVars, L!historyVars
  <2>8. QED
    BY <2>2, <2>3, <2>5, <2>6, <2>7 DEF LockInv
<1>3. CASE sleepers # << >>
  <2>1. PICK h \in Lockers : /\ h = Head(sleepers) /\ h = sleepers[1] /\ Len(sleepers) > 0
                             /\ lpc[h] = "asleep" /\ h # t /\ depth[h] = 0
    BY <1>3 DEF LockInv, LockTyped, Sleepers, OwnerAgrees, L!Signal
  <2>2. /\ lpc' = [lpc EXCEPT ![t] = "out", ![h] = "own"] /\ sleepers' = Tail(sleepers)
        /\ UNCHANGED <<lock_queue_, owning_thread_, recursion_, semaphore_, depth, enters>>
    BY <1>3, <2>1 DEF L!Signal, L!lockVars, L!historyVars
  <2>3. lpc'[t] = "out" /\ lpc'[h] = "own" /\ \A u \in Lockers : u # t /\ u # h => lpc'[u] = lpc[u]
    BY <2>1, <2>2 DEF LockInv, LockTyped
  <2>4. Waiting' = Waiting \ {h} /\ h \in Waiting
    BY <2>1, <2>3 DEF LockInv, LockTyped, Waiting, L!Signal
  <2>5. IsFiniteSet(Waiting') /\ Cardinality(Waiting) = Cardinality(Waiting') + 1
    <3>1. IsFiniteSet(Waiting) /\ Cardinality(Waiting) \in Nat
      BY <1>0 DEF ZeroFree, LockInv, HandedOver
    <3>2. IsFiniteSet(Waiting \ {h}) /\ Cardinality(Waiting \ {h}) = Cardinality(Waiting) - 1
      BY <2>4, <3>1, FS_RemoveElement
    <3>3. QED
      BY <2>4, <3>1, <3>2
  <2>6. LockTyped'
    <3>1. sleepers' \in Seq(Lockers)
      BY <1>3, <2>2 DEF LockInv, LockTyped
    <3>2. QED
      BY <2>1, <2>2, <3>1 DEF LockInv, LockTyped
  <2>7. Sleepers'
    <3>1. /\ Len(sleepers') = Len(sleepers) - 1 /\ Len(sleepers) \in Nat
          /\ \A i \in 1 .. Len(sleepers') : sleepers'[i] = sleepers[i + 1]
      BY <1>3, <2>2 DEF LockInv, LockTyped
    <3>2. \A i, j \in 1 .. Len(sleepers') : sleepers'[i] = sleepers'[j] => i = j
      BY <3>1 DEF LockInv, Sleepers
    <3>3. ASSUME NEW u \in Lockers
          PROVE  lpc'[u] = "asleep" <=> \E i \in 1 .. Len(sleepers') : sleepers'[i] = u
      <4>1. ASSUME NEW i \in 1 .. Len(sleepers'), sleepers'[i] = u PROVE lpc'[u] = "asleep"
        BY <2>1, <2>3, <3>1, <4>1 DEF LockInv, Sleepers, L!Signal
      <4>2. ASSUME lpc'[u] = "asleep" PROVE \E i \in 1 .. Len(sleepers') : sleepers'[i] = u
        <5>1. PICK k \in 1 .. Len(sleepers) : sleepers[k] = u
          BY <2>3, <4>2 DEF LockInv, Sleepers
        <5>2. k # 1
          BY <2>1, <2>3, <4>2, <5>1
        <5>3. k - 1 \in 1 .. Len(sleepers') /\ sleepers'[k - 1] = u
          BY <3>1, <5>1, <5>2
        <5>4. QED
          BY <5>3
      <4>3. QED
        BY <4>1, <4>2
    <3>4. QED
      <4>1. semaphore_' # 1
        BY <1>1, <2>2
      <4>2. QED
        BY <3>2, <3>3, <4>1 DEF Sleepers
  <2>8. /\ \A u \in Lockers : Carries(u)' <=> u = h
        /\ Holds(h)' = 1
    <3>1. Holds(h)' = 1
      BY <2>1, <2>2, <2>3 DEF Holds
    <3>2. ASSUME NEW u \in Lockers PROVE Carries(u)' <=> u = h
      BY <1>1, <2>1, <2>2, <2>3 DEF Carries
    <3>3. QED
      BY <3>1, <3>2
  <2>9. Carrier'
    <3>1. Cardinality(Waiting') \in Nat /\ lock_queue_' = Cardinality(Waiting') + Holds(h)'
      BY <1>1, <2>2, <2>5, <2>8, FS_CardinalityType
    <3>2. semaphore_' = 0
      BY <1>1, <2>2
    <3>3. QED
      BY <2>1, <2>8, <3>1, <3>2 DEF Carrier
  <2>10. HandedOver'
    <3>1. \A u \in Lockers : ~(lpc'[u] \in {"test", "signal"} /\ depth'[u] = 0)
      BY <1>1, <2>1, <2>3, <2>8 DEF Carries
    <3>2. semaphore_' = 0
      BY <1>1, <2>2
    <3>3. QED
      BY <2>1, <2>5, <2>8, <3>1, <3>2 DEF HandedOver
  <2>11. OwnerAgrees'
    <3>1. \A u \in Lockers : Carries(u)' => recursion_' = depth'[u]
      BY <1>1, <2>1, <2>2, <2>8
    <3>2. QED
      BY <1>1, <2>1, <2>2, <2>3, <3>1 DEF LockInv, LockTyped, OwnerAgrees, L!Signal
  <2>12. QED
    BY <2>6, <2>7, <2>9, <2>10, <2>11 DEF LockInv
<1>4. QED
  BY <1>2, <1>3

-----------------------------------------------------------------------------

LEMMA LockStarts ==
  ASSUME Free \notin Lockers, L!Init
  PROVE  LockInv
<1>1. Waiting = {} /\ IsFiniteSet(Waiting) /\ Cardinality(Waiting) = 0
  BY FS_EmptySet DEF L!Init, Waiting
<1>2. LockTyped /\ Sleepers
  BY DEF L!Init, LockTyped, Sleepers
<1>3. Carrier /\ HandedOver
  BY <1>1 DEF L!Init, Carrier, HandedOver, Carries
<1>4. OwnerAgrees
  BY DEF L!Init, OwnerAgrees, Carries
<1>5. QED
  BY <1>2, <1>3, <1>4 DEF LockInv

LEMMA LockKeeps ==
  ASSUME Free \notin Lockers, LockInv, [L!Next]_L!vars
  PROVE  LockInv'
<1>1. ASSUME NEW t \in Lockers,
             \/ L!Enter(t) \/ L!TryEnter(t) \/ L!Spin(t) \/ L!Again(t) \/ L!CompareAndSwap(t) \/ L!GiveUpSpinning(t)
             \/ L!Sleep(t) \/ L!Own(t) \/ L!Count(t) \/ L!TrySwap(t)
             \/ L!Leave(t) \/ L!Disown(t) \/ L!Release(t) \/ L!Test(t) \/ L!Signal(t)
      PROVE  LockInv'
  BY <1>1, EnterKeeps, TryEnterKeeps, SpinKeeps, AgainKeeps, CompareAndSwapKeeps,
     GiveUpSpinningKeeps, SleepKeeps, OwnKeeps, CountKeeps, TrySwapKeeps, LeaveKeeps,
     DisownKeeps, ReleaseKeeps, TestKeeps, SignalKeeps
<1>2. CASE UNCHANGED L!vars
  BY <1>2 DEF L!vars, L!lockVars, L!historyVars, LockInv, LockTyped, Sleepers, Carrier, HandedOver, OwnerAgrees,
     Waiting, Carries, Holds
<1>3. QED
  BY <1>1, <1>2 DEF L!Next

(* The lock of recursive_critical_section.cc has one owner at a time, its  *)
(* count is right, and a thread that waits is always waited on by one that *)
(* will let it in, for any number of threads and holds.                    *)
THEOREM LockExcludes ==
  ASSUME Free \notin Lockers
  PROVE  L!Spec => []L!LockIsExclusive
<1>1. L!Init => LockInv
  BY LockStarts
<1>2. LockInv /\ [L!Next]_L!vars => LockInv'
  BY LockKeeps
<1>3. LockInv => L!LockIsExclusive
  <2>1. ASSUME LockInv PROVE L!Exclusive
    BY <2>1 DEF LockInv, LockTyped, Carrier, OwnerAgrees, Carries, L!Exclusive, L!Inside
  <2>2. ASSUME LockInv PROVE L!NobodyForgotten
    <3>1. ASSUME NEW t \in Lockers, lpc[t] = "asleep" \/ (lpc[t] = "sleep" /\ semaphore_ = 0)
          PROVE  \E u \in Lockers : L!Inside(u) \/ L!Leaving(u)
      <4>1. t \in Waiting /\ semaphore_ = 0
        BY <2>1, <2>2, <3>1 DEF LockInv, LockTyped, Sleepers, Waiting
      <4>2. PICK u \in Lockers : Carries(u)
        BY <2>2, <4>1 DEF LockInv, HandedOver
      <4>3. QED
        BY <4>2 DEF Carries, L!Inside, L!Leaving
    <3>2. QED
      BY <3>1 DEF L!NobodyForgotten
  <2>3. QED
    BY <2>1, <2>2 DEF L!LockIsExclusive
<1>4. QED
  BY <1>1, <1>2, <1>3, PTL DEF L!Spec

-----------------------------------------------------------------------------
(* The places of SequenceChecker.                                          *)
(*                                                                         *)
(* Every place that was accepted since the checker was attached, and the   *)
(* one it is attached to, exclude each other.                              *)

CheckerInv ==
  /\ attached_ \in BOOLEAN
  /\ valid \in Q!Places /\ accepted \subseteq Q!Places
  /\ Q!OneSequence
  /\ \A a \in accepted : Q!Exclude(a, valid)
  /\ SystemQueues = {} => \A a \in accepted :
       IF valid.queue # Q!NoQueue THEN a.queue = valid.queue ELSE a.thread = valid.thread
(* A sequence checker accepts only places that cannot run at once, or with *)
(* dispatch queues only places that exclude the one it is attached to,     *)
(* however many threads and queues there are                               *)
(* (sequence_checker_internal.cc).                                         *)
THEOREM OneSequenceIsAccepted == Q!Spec => []Q!OneSequence
<1>1. Q!Init => CheckerInv
  BY DEF Q!Init, CheckerInv, Q!OneSequence, Q!Exclude, Q!Places
<1>2. CheckerInv /\ [Q!Next]_Q!vars => CheckerInv'
  <2>1. ASSUME CheckerInv, Q!Detach PROVE CheckerInv'
    BY <2>1 DEF Q!Detach, CheckerInv, Q!OneSequence, Q!Exclude
  <2>2. ASSUME CheckerInv, NEW place \in Q!Places, Q!IsCurrent(place) PROVE CheckerInv'
    BY <2>2 DEF Q!IsCurrent, CheckerInv, Q!OneSequence, Q!Exclude, Q!Places, Q!NoQueue, Q!Matches
  <2>3. ASSUME CheckerInv, UNCHANGED Q!vars PROVE CheckerInv'
    BY <2>3 DEF Q!vars, CheckerInv, Q!OneSequence, Q!Exclude
  <2> QED BY <2>1, <2>2, <2>3 DEF Q!Next
<1>3. CheckerInv => Q!OneSequence
  BY DEF CheckerInv
<1> QED BY <1>1, <1>2, <1>3, PTL DEF Q!Spec

-----------------------------------------------------------------------------
(* The scopes of TraceScopes.                                              *)

Scopes == [number : Nat, site : Sites, p_data_ : BOOLEAN]
ScopesTyped ==
  /\ tracer \in {"internal", "embedder"} /\ isSet \in BOOLEAN /\ active \in BOOLEAN
  /\ catstatic \in [Sites -> {"uninitialized", "category", "zero"}]
  /\ nested \in Seq(Scopes) /\ entered \in Nat

(* A site that was let through may be, and stays so; every open scope that *)
(* was recorded was let through, and one let through was recorded unless   *)
(* nobody listened.                                                        *)
ScopesInv ==
  /\ ScopesTyped
  /\ \A s \in Sites : catstatic[s] = "category" /\ tracer = "internal" => s \notin Quiet
  /\ began \subseteq 1 .. entered
  /\ \A k \in 1 .. Len(nested) :
       /\ nested[k].number \in began => nested[k].p_data_
       /\ nested[k].number <= entered
       /\ nested[k].p_data_ => /\ nested[k].number \in began \cup unheard
                               /\ catstatic[nested[k].site] = "category"
  /\ began = owes
  /\ ended \subseteq began \cup unheard
  /\ \A b \in began : b \in ended \/ b \in unended \/ \E k \in 1 .. Len(nested) : nested[k].number = b

LEMMA AddScopedKeeps ==
  ASSUME ScopesInv, NEW site \in Sites, N!AddScoped(site)
  PROVE  ScopesInv'
<1> DEFINE category == N!CategoryEnabled(site)
           scope == [number |-> entered + 1, site |-> site, p_data_ |-> N!IsEnabled(category)]
<1>1. /\ entered' = entered + 1
      /\ catstatic' = [catstatic EXCEPT ![site] = category]
      /\ nested' = Append(nested, scope)
      /\ began' = IF N!IsEnabled(category) /\ N!IsHeard THEN began \cup {entered + 1} ELSE began
      /\ owes' = IF N!IsTraced(site) THEN owes \cup {entered + 1} ELSE owes
      /\ unheard' = IF N!IsHeard THEN unheard ELSE unheard \cup {entered + 1}
      /\ UNCHANGED <<tracer, isSet, active, ended, unended>>
  BY DEF N!AddScoped
<1>2. /\ category \in {"category", "zero"}
      /\ catstatic[site] # "uninitialized" => category = catstatic[site]
      /\ category = "category" /\ tracer = "internal" => site \notin Quiet
      /\ (N!IsEnabled(category) /\ N!IsHeard) <=> N!IsTraced(site)
      /\ N!IsEnabled(category) \in BOOLEAN /\ (N!IsEnabled(category) => category = "category")
  BY DEF ScopesInv, ScopesTyped, N!CategoryEnabled, N!GetCategoryEnabled, N!IsEnabled, N!IsHeard,
         N!IsTraced
<1> HIDE DEF category
<1>3. scope \in Scopes /\ nested \in Seq(Scopes)
  BY <1>2 DEF ScopesInv, ScopesTyped, Scopes
<1> HIDE DEF scope
<1>4. /\ nested' \in Seq(Scopes) /\ Len(nested) \in Nat /\ Len(nested') = Len(nested) + 1
      /\ nested'[Len(nested) + 1] = scope
      /\ \A k \in 1 .. Len(nested) : nested'[k] = nested[k] /\ nested[k] \in Scopes
  BY <1>1, <1>3, AppendProperties, ElementOfSeq
<1>5. ScopesTyped'
  BY <1>1, <1>2, <1>4 DEF ScopesInv, ScopesTyped
<1>6. \A s \in Sites : catstatic'[s] = "category" /\ tracer' = "internal" => s \notin Quiet
  BY <1>1, <1>2 DEF ScopesInv, ScopesTyped
<1>7. began' \subseteq 1 .. entered' /\ began' = owes' /\ ended' \subseteq began' \cup unheard'
  BY <1>1, <1>2 DEF ScopesInv, ScopesTyped
<1>8. ASSUME NEW k \in 1 .. Len(nested')
      PROVE  /\ nested'[k].number \in began' => nested'[k].p_data_
             /\ nested'[k].number <= entered'
             /\ nested'[k].p_data_ => /\ nested'[k].number \in began' \cup unheard'
                                      /\ catstatic'[nested'[k].site] = "category"
  <2>1. CASE k = Len(nested) + 1
    <3>1. /\ nested'[k].number = entered + 1 /\ nested'[k].site = site
          /\ nested'[k].p_data_ <=> N!IsEnabled(category)
      BY <1>4, <2>1 DEF scope
    <3>2. entered + 1 \notin began
      BY DEF ScopesInv, ScopesTyped
    <3>3. QED
      BY <1>1, <1>2, <3>1, <3>2 DEF ScopesInv, ScopesTyped
  <2>2. CASE k \in 1 .. Len(nested)
    <3>1. nested'[k] = nested[k] /\ nested[k].number \in Nat /\ nested[k].site \in Sites
      BY <1>4, <2>2 DEF Scopes
    <3>2. nested[k].number # entered + 1
      BY <2>2, <3>1 DEF ScopesInv, ScopesTyped
    <3>3. catstatic[nested[k].site] = "category" => catstatic'[nested[k].site] = "category"
      BY <1>1, <1>2, <3>1 DEF ScopesInv, ScopesTyped
    <3>4. QED
      BY <1>1, <2>2, <3>1, <3>2, <3>3 DEF ScopesInv, ScopesTyped
  <2>3. QED
    BY <1>4, <2>1, <2>2
<1>9. ASSUME NEW b \in began'
      PROVE  b \in ended' \/ b \in unended' \/ \E k \in 1 .. Len(nested') : nested'[k].number = b
  <2>1. CASE b \in began
    BY <1>1, <1>4, <2>1 DEF ScopesInv
  <2>2. CASE b = entered + 1
    BY <1>4, <2>2 DEF scope
  <2>3. QED
    BY <1>1, <2>1, <2>2
<1>10. QED
  BY <1>5, <1>6, <1>7, <1>8, <1>9 DEF ScopesInv

LEMMA CloseKeeps ==
  ASSUME ScopesInv, N!Close
  PROVE  ScopesInv'
<1> DEFINE scope == nested[Len(nested)]
<1>1. /\ nested # << >> /\ nested' = SubSeq(nested, 1, Len(nested) - 1)
      /\ ended' = IF N!AddsEnd(scope) THEN ended \cup {scope.number} ELSE ended
      /\ unended' = IF active /\ isSet THEN unended ELSE unended \cup {scope.number}
      /\ UNCHANGED <<tracer, isSet, active, catstatic, began, owes, unheard, entered>>
  BY DEF N!Close, N!Front, N!Last
<1>2. /\ nested \in Seq(Scopes) /\ Len(nested) \in Nat /\ Len(nested) > 0
      /\ scope \in Scopes
  BY <1>1, EmptySeq, ElementOfSeq DEF ScopesInv, ScopesTyped
<1>3. /\ nested' \in Seq(Scopes) /\ Len(nested') = Len(nested) - 1
      /\ \A k \in 1 .. Len(nested') : nested'[k] = nested[k]
  <2>1. PICK n \in Nat : n = Len(nested) - 1
    BY <1>2
  <2>2. \A k \in 1 .. n : nested[k] \in Scopes
    BY <1>2, <2>1, ElementOfSeq
  <2>3. /\ SubSeq(nested, 1, n) \in Seq(Scopes)
        /\ Len(SubSeq(nested, 1, n)) = IF 1 <= n THEN n - 1 + 1 ELSE 0
        /\ \A k \in 1 .. n - 1 + 1 : SubSeq(nested, 1, n)[k] = nested[1 + k - 1]
    BY <2>2, SubSeqProperties
  <2>4. nested' = SubSeq(nested, 1, n)
    BY <1>1, <2>1
  <2>5. Len(nested') = n
    BY <2>3, <2>4
  <2>6. QED
    BY <2>1, <2>3, <2>4, <2>5
<1>4. scope.number \in began /\ active /\ isSet => N!AddsEnd(scope)
  BY <1>2 DEF ScopesInv, ScopesTyped, N!AddsEnd, N!IsEnabled, N!IsHeard
<1>5. N!AddsEnd(scope) => scope.number \in began \cup unheard
  BY <1>2 DEF ScopesInv, N!AddsEnd
<1>6. ASSUME NEW b \in began'
      PROVE  b \in ended' \/ b \in unended' \/ \E k \in 1 .. Len(nested') : nested'[k].number = b
  <2>1. CASE b = scope.number
    BY <1>1, <1>4, <2>1
  <2>2. CASE b # scope.number
    <3>1. b \in ended \/ b \in unended \/ \E k \in 1 .. Len(nested) : nested[k].number = b
      BY <1>1, <1>6 DEF ScopesInv
    <3>2. QED
      BY <1>1, <1>2, <1>3, <2>2, <3>1
  <2>3. QED
    BY <2>1, <2>2
<1>7. ScopesTyped'
  BY <1>1, <1>3 DEF ScopesInv, ScopesTyped
<1>8. \A k \in 1 .. Len(nested') :
        /\ nested'[k].number \in began' => nested'[k].p_data_
        /\ nested'[k].number <= entered'
        /\ nested'[k].p_data_ => /\ nested'[k].number \in began' \cup unheard'
                                 /\ catstatic'[nested'[k].site] = "category"
  <2>1. \A k \in 1 .. Len(nested') : k \in 1 .. Len(nested) /\ nested'[k] = nested[k]
    BY <1>2, <1>3
  <2>2. QED
    BY <1>1, <2>1 DEF ScopesInv
<1>9. ended' \subseteq began' \cup unheard'
  BY <1>1, <1>5 DEF ScopesInv
<1>10. /\ \A s \in Sites : catstatic'[s] = "category" /\ tracer' = "internal" => s \notin Quiet
       /\ began' \subseteq 1 .. entered' /\ began' = owes'
  BY <1>1 DEF ScopesInv
<1>11. QED
  BY <1>6, <1>7, <1>8, <1>9, <1>10 DEF ScopesInv

LEMMA ScopesKeep ==
  ASSUME ScopesInv, [N!Next]_N!vars
  PROVE  ScopesInv'
<1>1. ASSUME NEW site \in Sites, N!AddScoped(site) PROVE ScopesInv'
  BY <1>1, AddScopedKeeps
<1>2. CASE N!Close
  BY <1>2, CloseKeeps
<1>3. CASE N!Setup \/ N!Turn \/ UNCHANGED N!vars
  <2>1. /\ UNCHANGED <<tracer, catstatic, nested, began, ended, owes, unheard, unended, entered>>
        /\ isSet' \in BOOLEAN /\ active' \in BOOLEAN
    BY <1>3 DEF ScopesInv, ScopesTyped, N!Setup, N!Turn, N!vars, N!histories
  <2>2. QED
    BY <2>1 DEF ScopesInv, ScopesTyped
<1>4. QED
  BY <1>1, <1>2, <1>3 DEF N!Next

(* Every scope entered in a capture is recorded, its end only if its begin *)
(* was or nobody recorded yet, with scopes in scopes to any depth and      *)
(* whatever is switched on and off in between (trace_event.h).             *)
THEOREM EndsAreOfBegins == N!Spec => []N!EndsHaveBegins
<1>1. N!Init => ScopesInv
  <2>1. N!Init => nested \in Seq(Scopes) /\ Len(nested) = 0
    BY EmptySeq DEF N!Init
  <2>2. N!Init => catstatic \in [Sites -> {"uninitialized", "category", "zero"}]
    BY DEF N!Init
  <2>3. N!Init => ScopesTyped
    <3>1. N!Init => entered \in Nat
      BY DEF N!Init
    <3>2. QED
      BY <2>1, <2>2, <3>1 DEF N!Init, ScopesTyped
  <2>4. QED
    BY <2>1, <2>2, <2>3 DEF N!Init, ScopesInv
<1>2. ScopesInv => N!EndsHaveBegins
  BY DEF ScopesInv, ScopesTyped, N!EndsHaveBegins
<1> QED BY <1>1, <1>2, ScopesKeep, PTL DEF N!Spec

-----------------------------------------------------------------------------
(* The captures of EventTracer.                                            *)

CaptureTyped ==
  /\ trace_events_ \in Seq(Events) /\ batch \in Seq(Events)
  /\ written \in Seq([event : Events, session : Nat])
  /\ session \in Nat /\ output_file_ \in Nat
  /\ tpc \in [Tracers -> {"idle", "push"}]
  /\ adding \in [Tracers -> Events \cup {T!NoEvent}]
  /\ \A t \in Tracers : tpc[t] = "push" => adding[t] \in Events
  /\ checkedIn \in [Events -> Nat] /\ pushedIn \in [Events -> Nat]

(* The places an event passes through, each of which holds it once.        *)
InHand(e) == \E t \in Tracers : tpc[t] = "push" /\ adding[t] = e
InVector(e) == \E i \in 1 .. Len(trace_events_) : trace_events_[i] = e
InBatch(e) == \E i \in 1 .. Len(batch) : batch[i] = e
InFile(e) == \E i \in 1 .. Len(written) : written[i].event = e

EachOnce ==
  /\ \A t, u \in Tracers : tpc[t] = "push" /\ tpc[u] = "push" /\ adding[t] = adding[u] => t = u
  /\ \A i, j \in 1 .. Len(trace_events_) : trace_events_[i] = trace_events_[j] => i = j
  /\ \A i, j \in 1 .. Len(batch) : batch[i] = batch[j] => i = j
  /\ \A i, j \in 1 .. Len(written) : written[i].event = written[j].event => i = j
  /\ \A e \in Events :
       /\ InHand(e) \/ InVector(e) \/ InBatch(e) \/ InFile(e) => checkedIn[e] # 0
       /\ InHand(e) => ~InVector(e) /\ ~InBatch(e) /\ ~InFile(e)
       /\ InVector(e) => ~InBatch(e) /\ ~InFile(e)
       /\ InBatch(e) => ~InFile(e)

(* While the logging thread runs, or is about to be started on a cleared   *)
(* vector, the file is that of the last session, and what is on its way to *)
(* the file was pushed in that session, and found it active or was in the  *)
(* hand of a thread when the vector was cleared.                           *)
Running == tracer_lpc \in {"wait", "swap", "write", "close"}
Starting == opc \in {"clear", "activate", "spawn"}
Fits(e, s) == pushedIn[e] = s /\ (checkedIn[e] = s \/ e \in heldOver)
OfTheSession ==
  /\ g_event_logging_active = 1 \/ Starting \/ Running => session # 0
  /\ Starting => ~Running
  /\ Starting \/ Running => output_file_ = session
  /\ opc \in {"activate", "spawn"} \/ tracer_lpc \in {"wait", "swap", "write"} =>
       \A e \in Events : InVector(e) => Fits(e, session)
  /\ opc # "clear" => \A e \in Events : InHand(e) => checkedIn[e] = session \/ e \in heldOver
  /\ \A e \in Events : InBatch(e) => tracer_lpc = "write" /\ Fits(e, session)
  /\ \A i \in 1 .. Len(written) : Fits(written[i].event, written[i].session)

CaptureInv == CaptureTyped /\ EachOnce /\ OfTheSession

LEMMA AddTraceEventKeeps ==
  ASSUME CaptureInv, NEW t \in Tracers, NEW e \in Events, T!AddTraceEvent(t, e)
  PROVE  CaptureInv'
<1>1. /\ g_event_logging_active = 1 /\ tpc[t] = "idle" /\ checkedIn[e] = 0
      /\ tpc' = [tpc EXCEPT ![t] = "push"]
      /\ adding' = [adding EXCEPT ![t] = e]
      /\ checkedIn' = [checkedIn EXCEPT ![e] = session]
      /\ UNCHANGED <<trace_events_, batch, written, session, output_file_, pushedIn, heldOver,
                     tracer_lpc, opc, g_event_logging_active>>
  BY DEF T!AddTraceEvent, T!loggerVars, T!threadVars, T!ownerVars
<1>2. \A f \in Events : /\ InVector(f)' <=> InVector(f)
                        /\ InBatch(f)' <=> InBatch(f)
                        /\ InFile(f)' <=> InFile(f)
  BY <1>1 DEF InVector, InBatch, InFile
<1>3. \A f \in Events : InHand(f)' <=> InHand(f) \/ f = e
  BY <1>1 DEF InHand, CaptureInv, CaptureTyped
<1>4. session # 0
  BY <1>1 DEF CaptureInv, OfTheSession
<1>5. CaptureTyped'
  BY <1>1 DEF CaptureInv, CaptureTyped
<1>6. ~InHand(e) /\ ~InVector(e) /\ ~InBatch(e) /\ ~InFile(e)
  BY <1>1 DEF CaptureInv, EachOnce
<1>7. \A u, v \in Tracers : tpc'[u] = "push" /\ tpc'[v] = "push" /\ adding'[u] = adding'[v] => u = v
  BY <1>1, <1>6 DEF CaptureInv, CaptureTyped, EachOnce, InHand
<1>8. ASSUME NEW f \in Events
      PROVE  /\ InHand(f)' \/ InVector(f)' \/ InBatch(f)' \/ InFile(f)' => checkedIn'[f] # 0
             /\ InHand(f)' => ~InVector(f)' /\ ~InBatch(f)' /\ ~InFile(f)'
             /\ InVector(f)' => ~InBatch(f)' /\ ~InFile(f)'
             /\ InBatch(f)' => ~InFile(f)'
  <2>1. checkedIn'[f] = IF f = e THEN session ELSE checkedIn[f]
    BY <1>1 DEF CaptureInv, CaptureTyped
  <2>2. QED
    BY <1>2, <1>3, <1>4, <1>6, <2>1 DEF CaptureInv, EachOnce
<1>9. EachOnce'
  BY <1>1, <1>7, <1>8 DEF CaptureInv, EachOnce
<1>10. OfTheSession'
  <2>1. \A f \in Events : checkedIn'[f] = IF f = e THEN session ELSE checkedIn[f]
    BY <1>1 DEF CaptureInv, CaptureTyped
  <2>2. \A f \in Events : \A s : f # e /\ Fits(f, s) => Fits(f, s)'
    BY <1>1, <2>1 DEF Fits
  <2>3. \A i \in 1 .. Len(written) : written[i].event \in Events /\ written[i].event # e
    <3>1. written \in Seq([event : Events, session : Nat])
      BY DEF CaptureInv, CaptureTyped
    <3>2. \A i \in 1 .. Len(written) : written[i] \in [event : Events, session : Nat]
      BY <3>1, ElementOfSeq
    <3>3. QED
      BY <1>6, <3>2 DEF InFile
  <2>4. /\ g_event_logging_active = 1 \/ Starting \/ Running => session # 0
        /\ Starting => ~Running
        /\ Starting \/ Running => output_file_ = session
    BY DEF CaptureInv, OfTheSession
  <2>5. \A f \in Events : InHand(f)' /\ opc # "clear" => checkedIn'[f] = session \/ f \in heldOver
    BY <1>3, <2>1 DEF CaptureInv, OfTheSession
  <2>6. \A i \in 1 .. Len(written) : Fits(written[i].event, written[i].session)'
    BY <1>1, <2>2, <2>3 DEF CaptureInv, OfTheSession
  <2>7. \A f \in Events : /\ InVector(f)' /\ Fits(f, session) => Fits(f, session)'
                          /\ InBatch(f)' /\ Fits(f, session) => Fits(f, session)'
    BY <1>1, <1>2, <1>6, <2>2
  <2>8. QED
    BY <1>1, <1>2, <2>4, <2>5, <2>6, <2>7 DEF CaptureInv, OfTheSession, Running, Starting
<1>11. QED
  BY <1>5, <1>9, <1>10 DEF CaptureInv

LEMMA PushEventKeeps ==
  ASSUME CaptureInv, NEW t \in Tracers, T!PushEvent(t)
  PROVE  CaptureInv'
<1>1. PICK e \in Events : e = adding[t] /\ tpc[t] = "push"
  BY DEF T!PushEvent, CaptureInv, CaptureTyped
<1>2. /\ trace_events_' = Append(trace_events_, e)
      /\ pushedIn' = [pushedIn EXCEPT ![e] = session]
      /\ tpc' = [tpc EXCEPT ![t] = "idle"]
      /\ adding' = [adding EXCEPT ![t] = T!NoEvent]
      /\ UNCHANGED <<batch, written, session, output_file_, checkedIn, heldOver, tracer_lpc, opc,
                     g_event_logging_active>>
  BY <1>1 DEF T!PushEvent, T!threadVars, T!ownerVars
<1>3. trace_events_ \in Seq(Events)
  BY DEF CaptureInv, CaptureTyped
<1>4. /\ trace_events_' \in Seq(Events) /\ Len(trace_events_) \in Nat
      /\ Len(trace_events_') = Len(trace_events_) + 1
      /\ trace_events_'[Len(trace_events_) + 1] = e
      /\ \A i \in 1 .. Len(trace_events_) : trace_events_'[i] = trace_events_[i]
  BY <1>2, <1>3, AppendProperties
<1>5. \A f \in Events : /\ InVector(f)' <=> InVector(f) \/ f = e
                        /\ InBatch(f)' <=> InBatch(f)
                        /\ InFile(f)' <=> InFile(f)
  BY <1>2, <1>4 DEF InVector, InBatch, InFile
<1>6. \A f \in Events : InHand(f)' <=> InHand(f) /\ f # e
  BY <1>1, <1>2 DEF InHand, CaptureInv, CaptureTyped, EachOnce
<1>7. InHand(e) /\ ~InVector(e) /\ ~InBatch(e) /\ ~InFile(e)
  BY <1>1 DEF CaptureInv, EachOnce, InHand
<1>8. CaptureTyped'
  <2>1. pushedIn' \in [Events -> Nat]
    BY <1>2 DEF CaptureInv, CaptureTyped
  <2>2. QED
    BY <1>2, <1>4, <2>1 DEF CaptureInv, CaptureTyped
<1>9. EachOnce'
  <2>1. \A u, v \in Tracers : tpc'[u] = "push" /\ tpc'[v] = "push" /\ adding'[u] = adding'[v] => u = v
    BY <1>2 DEF CaptureInv, CaptureTyped, EachOnce
  <2>2. \A i, j \in 1 .. Len(trace_events_') : trace_events_'[i] = trace_events_'[j] => i = j
    BY <1>4, <1>7 DEF InVector, CaptureInv, EachOnce
  <2>3. QED
    BY <1>2, <1>5, <1>6, <1>7, <2>1, <2>2 DEF CaptureInv, EachOnce
<1>10. OfTheSession'
  <2>1. \A f \in Events : pushedIn'[f] = IF f = e THEN session ELSE pushedIn[f]
    BY <1>2 DEF CaptureInv, CaptureTyped
  <2>2. \A i \in 1 .. Len(written) : written[i].event \in Events /\ written[i].event # e
    <3>1. written \in Seq([event : Events, session : Nat])
      BY DEF CaptureInv, CaptureTyped
    <3>2. \A i \in 1 .. Len(written) : written[i] \in [event : Events, session : Nat]
      BY <3>1, ElementOfSeq
    <3>3. QED
      BY <1>7, <3>2 DEF InFile
  <2>3. \A f \in Events : \A s : f # e /\ Fits(f, s) => Fits(f, s)'
    BY <1>2, <2>1 DEF Fits
  <2>4. /\ g_event_logging_active = 1 \/ Starting \/ Running => session # 0
        /\ Starting => ~Running
        /\ Starting \/ Running => output_file_ = session
    BY DEF CaptureInv, OfTheSession
  <2>5. opc # "clear" => Fits(e, session)'
    BY <1>2, <1>7, <2>1 DEF CaptureInv, OfTheSession, Fits
  <2>6. \A i \in 1 .. Len(written) : Fits(written[i].event, written[i].session)'
    BY <1>2, <2>2, <2>3 DEF CaptureInv, OfTheSession
  <2>7. \A f \in Events : InBatch(f)' => tracer_lpc = "write" /\ Fits(f, session)'
    BY <1>2, <1>5, <1>7, <2>3 DEF CaptureInv, OfTheSession
  <2>8. \A f \in Events : InHand(f)' /\ opc # "clear" => checkedIn[f] = session \/ f \in heldOver
    BY <1>6 DEF CaptureInv, OfTheSession
  <2>9. opc \in {"activate", "spawn"} \/ tracer_lpc \in {"wait", "swap", "write"} =>
          \A f \in Events : InVector(f)' => Fits(f, session)'
    <3>1. opc \in {"activate", "spawn"} \/ tracer_lpc \in {"wait", "swap", "write"} => opc # "clear"
      BY <2>4 DEF Starting, Running
    <3>2. QED
      BY <1>2, <1>5, <2>3, <2>5, <3>1 DEF CaptureInv, OfTheSession
  <2>10. QED
    BY <1>2, <2>4, <2>6, <2>7, <2>8, <2>9 DEF OfTheSession, Running, Starting
<1>11. QED
  BY <1>8, <1>9, <1>10 DEF CaptureInv

LEMMA SwapEventsKeeps ==
  ASSUME CaptureInv, T!SwapEvents
  PROVE  CaptureInv'
<1>1. /\ tracer_lpc = "swap" /\ tracer_lpc' = "write" /\ batch' = trace_events_ /\ trace_events_' = << >>
      /\ UNCHANGED <<written, session, output_file_, tpc, adding, checkedIn, pushedIn, heldOver, opc,
                     g_event_logging_active>>
  BY DEF T!SwapEvents, T!ownerVars, T!tracerVars
<1>2. \A f \in Events : /\ InHand(f)' <=> InHand(f)
                        /\ InBatch(f)' <=> InVector(f)
                        /\ ~InVector(f)'
                        /\ InFile(f)' <=> InFile(f)
  BY <1>1 DEF InHand, InVector, InBatch, InFile
<1>3. CaptureTyped'
  BY <1>1, EmptySeq DEF CaptureInv, CaptureTyped
<1>4. EachOnce'
  BY <1>1, <1>2 DEF CaptureInv, EachOnce
<1>5. OfTheSession'
  BY <1>1, <1>2 DEF CaptureInv, OfTheSession, Running, Starting, Fits
<1>6. QED
  BY <1>3, <1>4, <1>5 DEF CaptureInv

LEMMA WriteEventsKeeps ==
  ASSUME CaptureInv, T!WriteEvents
  PROVE  CaptureInv'
<1> DEFINE Records == [event : Events, session : Nat]
           records == [i \in DOMAIN batch |-> [event |-> batch[i], session |-> output_file_]]
<1>1. /\ tracer_lpc = "write" /\ tracer_lpc' \in {"close", "wait"} /\ batch' = << >> /\ written' = written \o records
      /\ UNCHANGED <<trace_events_, session, output_file_, tpc, adding, checkedIn, pushedIn, heldOver,
                     opc, g_event_logging_active>>
  BY DEF T!WriteEvents, T!ownerVars, T!tracerVars, T!loggerVars
<1>2. batch \in Seq(Events) /\ written \in Seq(Records) /\ output_file_ \in Nat
  BY DEF CaptureInv, CaptureTyped
<1>3. DOMAIN batch = 1 .. Len(batch) /\ Len(batch) \in Nat /\ \A i \in 1 .. Len(batch) : batch[i] \in Events
  BY <1>2, ElementOfSeq, LenProperties
<1>4. records \in Seq(Records)
  <2>1. \A i \in 1 .. Len(batch) : [event |-> batch[i], session |-> output_file_] \in Records
    BY <1>2, <1>3
  <2>2. records = [i \in 1 .. Len(batch) |-> [event |-> batch[i], session |-> output_file_]]
    BY <1>3
  <2>3. records \in [1 .. Len(batch) -> Records]
    BY <2>1, <2>2
  <2>4. QED
    BY <1>3, <2>3, SeqDef
<1>5. /\ Len(records) = Len(batch)
      /\ \A i \in 1 .. Len(batch) : records[i].event = batch[i] /\ records[i].session = output_file_
  <2>1. \A i \in 1 .. Len(batch) : records[i].event = batch[i] /\ records[i].session = output_file_
    BY <1>3
  <2>2. DOMAIN records = 1 .. Len(batch)
    BY <1>3
  <2> HIDE DEF records
  <2>3. Len(records) = Len(batch)
    BY <1>3, <1>4, <2>2, LenProperties
  <2>4. QED
    BY <2>1, <2>3
<1> HIDE DEF records
<1>6. /\ written' \in Seq(Records) /\ Len(written) \in Nat /\ Len(written') = Len(written) + Len(batch)
      /\ \A i \in 1 .. Len(written) : written'[i] = written[i]
      /\ \A i \in 1 .. Len(batch) : written'[Len(written) + i] = records[i]
  <2>1. written' \in Seq(Records) /\ Len(written') = Len(written) + Len(records)
    BY <1>1, <1>2, <1>4, ConcatProperties
  <2>2. Len(written) \in Nat
    BY <1>2, LenProperties
  <2>3. \A i \in 1 .. Len(written) + Len(records) :
          written'[i] = IF i <= Len(written) THEN written[i] ELSE records[i - Len(written)]
    BY <1>1, <1>2, <1>4, ConcatProperties
  <2>4. \A i \in 1 .. Len(written) : written'[i] = written[i]
    BY <1>3, <1>5, <2>2, <2>3
  <2>5. ASSUME NEW i \in 1 .. Len(batch) PROVE written'[Len(written) + i] = records[i]
    <3>1. /\ Len(written) + i \in 1 .. Len(written) + Len(records) /\ ~(Len(written) + i <= Len(written))
          /\ Len(written) + i - Len(written) = i
      BY <1>3, <1>5, <2>2
    <3>2. QED
      BY <2>3, <3>1
  <2>6. QED
    BY <1>5, <2>1, <2>2, <2>4, <2>5
<1>7. ASSUME NEW i \in 1 .. Len(written')
      PROVE  \/ i \in 1 .. Len(written) /\ written'[i] = written[i]
             \/ \E k \in 1 .. Len(batch) : i = Len(written) + k /\ written'[i] = records[k]
  <2>1. CASE i \in 1 .. Len(written)
    BY <1>6, <2>1
  <2>2. CASE i \notin 1 .. Len(written)
    <3>1. i - Len(written) \in 1 .. Len(batch) /\ i = Len(written) + (i - Len(written))
      BY <1>3, <1>6, <2>2
    <3>2. QED
      BY <1>6, <3>1
  <2>3. QED
    BY <2>1, <2>2
<1>8. \A f \in Events : InFile(f)' <=> InFile(f) \/ InBatch(f)
  <2>1. ASSUME NEW f \in Events, InFile(f)' PROVE InFile(f) \/ InBatch(f)
    <3>1. PICK i \in 1 .. Len(written') : written'[i].event = f
      BY <2>1 DEF InFile
    <3>2. CASE i \in 1 .. Len(written) /\ written'[i] = written[i]
      BY <3>1, <3>2 DEF InFile
    <3>3. CASE \E k \in 1 .. Len(batch) : i = Len(written) + k /\ written'[i] = records[k]
      BY <1>5, <3>1, <3>3 DEF InBatch
    <3>4. QED
      BY <1>7, <3>2, <3>3
  <2>2. ASSUME NEW f \in Events, InFile(f) PROVE InFile(f)'
    BY <1>3, <1>6, <2>2 DEF InFile
  <2>3. ASSUME NEW f \in Events, InBatch(f) PROVE InFile(f)'
    <3>1. PICK k \in 1 .. Len(batch) : batch[k] = f
      BY <2>3 DEF InBatch
    <3>2. Len(written) + k \in 1 .. Len(written') /\ written'[Len(written) + k].event = f
      BY SMTT(30), <1>3, <1>5, <1>6, <3>1
    <3>3. QED
      BY <3>2 DEF InFile
  <2>4. QED
    BY <2>1, <2>2, <2>3
<1>9. \A f \in Events : /\ InHand(f)' <=> InHand(f)
                        /\ InVector(f)' <=> InVector(f)
                        /\ ~InBatch(f)'
  BY <1>1 DEF InHand, InVector, InBatch
<1>10. CaptureTyped'
  BY <1>1, <1>6, EmptySeq DEF CaptureInv, CaptureTyped
<1>11. \A i, j \in 1 .. Len(written') : written'[i].event = written'[j].event => i = j
  <2>1. SUFFICES ASSUME NEW i \in 1 .. Len(written'), NEW j \in 1 .. Len(written'),
                        written'[i].event = written'[j].event
                 PROVE  i = j
    OBVIOUS
  <2>2. \A k \in 1 .. Len(written) : written[k].event \in Events
    <3>1. \A k \in 1 .. Len(written) : written[k] \in Records
      BY <1>2, ElementOfSeq
    <3>2. QED
      BY <3>1
  <2>3. \A k \in 1 .. Len(written), m \in 1 .. Len(batch) : written[k].event # batch[m]
    BY <1>3, <2>2 DEF InFile, InBatch, CaptureInv, EachOnce
  <2>4. /\ \A k, m \in 1 .. Len(written) : written[k].event = written[m].event => k = m
        /\ \A k, m \in 1 .. Len(batch) : batch[k] = batch[m] => k = m
    BY DEF CaptureInv, EachOnce
  <2>5. CASE i \in 1 .. Len(written) /\ written'[i] = written[i]
    <3>1. ASSUME NEW m \in 1 .. Len(batch), written'[j] = records[m] PROVE FALSE
      BY <1>5, <2>1, <2>3, <2>5, <3>1
    <3>2. QED
      BY <1>7, <2>1, <2>4, <2>5, <3>1
  <2>6. CASE \E k \in 1 .. Len(batch) : i = Len(written) + k /\ written'[i] = records[k]
    <3>1. PICK k \in 1 .. Len(batch) : i = Len(written) + k /\ written'[i] = records[k]
      BY <2>6
    <3>2. CASE j \in 1 .. Len(written) /\ written'[j] = written[j]
      BY <1>5, <2>1, <2>3, <3>1, <3>2
    <3>3. CASE \E m \in 1 .. Len(batch) : j = Len(written) + m /\ written'[j] = records[m]
      <4>1. PICK m \in 1 .. Len(batch) : j = Len(written) + m /\ written'[j] = records[m]
        BY <3>3
      <4>2. batch[k] = batch[m]
        BY <1>5, <2>1, <3>1, <4>1
      <4>3. QED
        BY <2>4, <3>1, <4>1, <4>2
    <3>4. QED
      BY <1>7, <3>2, <3>3
  <2>7. QED
    BY <1>7, <2>5, <2>6
<1>12. EachOnce'
  BY <1>1, <1>8, <1>9, <1>11 DEF CaptureInv, EachOnce
<1>13. OfTheSession'
  <2>1. \A e, s : Fits(e, s)' <=> Fits(e, s)
    BY <1>1 DEF Fits
  <2>2. \A i \in 1 .. Len(written') : Fits(written'[i].event, written'[i].session)
    <3>1. \A k \in 1 .. Len(batch) : Fits(records[k].event, records[k].session)
      <4>1. output_file_ = session
        BY <1>1 DEF CaptureInv, OfTheSession, Running
      <4>2. \A k \in 1 .. Len(batch) : Fits(batch[k], session)
        BY <1>3 DEF InBatch, CaptureInv, OfTheSession
      <4>3. QED
        BY <1>5, <4>1, <4>2
    <3>2. QED
      BY <1>7, <3>1 DEF CaptureInv, OfTheSession
  <2>3. QED
    BY <1>1, <1>9, <2>1, <2>2 DEF CaptureInv, OfTheSession, Running, Starting
<1>14. QED
  BY <1>10, <1>12, <1>13 DEF CaptureInv

(* What drops the vector, by ClearEvents or with the logger.               *)
LEMMA DroppingKeeps ==
  ASSUME CaptureInv, T!ClearEvents \/ T!Delete
  PROVE  CaptureInv'
<1>1. /\ trace_events_' = << >>
      /\ UNCHANGED <<batch, written, session, tpc, adding, checkedIn, pushedIn,
                     g_event_logging_active>>
      /\ \/ /\ opc = "clear" /\ opc' = "activate" /\ UNCHANGED <<tracer_lpc, output_file_>>
            /\ heldOver' = heldOver \cup {adding[t] : t \in {u \in Tracers : tpc[u] = "push"}}
         \/ opc = "delete" /\ opc' = "idle" /\ UNCHANGED heldOver /\ tracer_lpc \in {"none", "exited"} /\ tracer_lpc' = "none" /\ output_file_' = 0
  BY DEF T!ClearEvents, T!Delete, T!threadVars, T!tracerVars, T!Joined, T!NoFile
<1>2. \A f \in Events : /\ InHand(f)' <=> InHand(f)
                        /\ InBatch(f)' <=> InBatch(f)
                        /\ ~InVector(f)'
                        /\ InFile(f)' <=> InFile(f)
  BY <1>1 DEF InHand, InVector, InBatch, InFile
<1>3. CaptureTyped'
  BY <1>1, EmptySeq DEF CaptureInv, CaptureTyped
<1>4. EachOnce'
  BY <1>1, <1>2 DEF CaptureInv, EachOnce
<1>5. OfTheSession'
  <2>1. heldOver \subseteq heldOver'
    BY <1>1
  <2>2. ASSUME NEW e \in Events, InHand(e)
        PROVE  checkedIn[e] = session \/ e \in heldOver'
    BY <1>1, <2>2 DEF InHand, CaptureInv, OfTheSession
  <2>3. \A e, s : Fits(e, s) => pushedIn'[e] = s /\ (checkedIn'[e] = s \/ e \in heldOver')
    BY <1>1, <2>1 DEF Fits
  <2>4. ASSUME NEW e \in Events, InBatch(e)
        PROVE  tracer_lpc' = "write" /\ pushedIn'[e] = session'
               /\ (checkedIn'[e] = session' \/ e \in heldOver')
    <3>1. tracer_lpc = "write" /\ Fits(e, session)
      BY <2>4 DEF CaptureInv, OfTheSession
    <3>2. tracer_lpc' = tracer_lpc /\ session' = session
      BY <1>1, <3>1
    <3>3. QED
      BY <2>3, <3>1, <3>2
  <2>5. ASSUME NEW i \in 1 .. Len(written)
        PROVE  /\ pushedIn'[written[i].event] = written[i].session
               /\ checkedIn'[written[i].event] = written[i].session \/ written[i].event \in heldOver'
    BY <2>3, <2>5 DEF CaptureInv, OfTheSession
  <2>6. QED
    BY <1>1, <1>2, <2>2, <2>4, <2>5 DEF CaptureInv, OfTheSession, Running, Starting, Fits
<1>6. QED
  BY <1>3, <1>4, <1>5 DEF CaptureInv

(* The steps that move no event.                                           *)
LEMMA OthersKeep ==
  ASSUME CaptureInv,
         UNCHANGED <<trace_events_, batch, written, tpc, adding, checkedIn, pushedIn, heldOver>>,
         session' \in Nat, output_file_' \in Nat,
         OfTheSession'
  PROVE  CaptureInv'
<1>1. \A f \in Events : /\ InHand(f)' <=> InHand(f)
                        /\ InBatch(f)' <=> InBatch(f)
                        /\ InVector(f)' <=> InVector(f)
                        /\ InFile(f)' <=> InFile(f)
  BY DEF InHand, InVector, InBatch, InFile
<1>2. CaptureTyped'
  BY DEF CaptureInv, CaptureTyped
<1>3. EachOnce'
  BY <1>1 DEF CaptureInv, EachOnce
<1>4. QED
  BY <1>2, <1>3 DEF CaptureInv

LEMMA LoggingKeeps ==
  ASSUME CaptureInv, T!WaitShutdown \/ T!CloseFile
  PROVE  CaptureInv'
<1>1. /\ UNCHANGED <<trace_events_, batch, written, tpc, adding, checkedIn, pushedIn, heldOver,
                     session, opc, g_event_logging_active>>
      /\ \/ tracer_lpc = "wait" /\ tracer_lpc' = "swap" /\ UNCHANGED output_file_
         \/ tracer_lpc = "close" /\ tracer_lpc' = "exited" /\ output_file_' = 0
  BY DEF T!WaitShutdown, T!CloseFile, T!ownerVars, T!tracerVars, T!NoFile
<1>2. \A f \in Events : (InBatch(f)' <=> InBatch(f)) /\ (InVector(f)' <=> InVector(f)) /\ (InHand(f)' <=> InHand(f))
  BY <1>1 DEF InVector, InBatch, InHand
<1>3. OfTheSession'
  BY <1>1, <1>2 DEF CaptureInv, OfTheSession, Running, Starting, Fits
<1>4. session' \in Nat /\ output_file_' \in Nat
  BY <1>1 DEF CaptureInv, CaptureTyped
<1>5. QED
  BY <1>1, <1>3, <1>4, OthersKeep

LEMMA OwnerKeeps ==
  ASSUME CaptureInv,
         \/ T!SetupInternalTracer \/ T!Start \/ T!Activate \/ T!Spawn \/ T!SetShutdown \/ T!Join
         \/ \E s \in BOOLEAN : T!Stop(s)
         \/ UNCHANGED T!vars
  PROVE  CaptureInv'
<1> DEFINE Still == UNCHANGED <<trace_events_, batch, written, tpc, adding, checkedIn, pushedIn, heldOver>>
<1>1. ASSUME Still, session' \in Nat, output_file_' \in Nat,
             UNCHANGED <<opc, tracer_lpc, session, output_file_, g_event_logging_active>> \/ OfTheSession'
      PROVE  CaptureInv'
  <2>1. \A f \in Events : (InBatch(f)' <=> InBatch(f)) /\ (InVector(f)' <=> InVector(f)) /\ (InHand(f)' <=> InHand(f))
    BY <1>1 DEF InVector, InBatch, InHand
  <2>2. OfTheSession'
    BY <1>1, <2>1 DEF CaptureInv, OfTheSession, Running, Starting, Fits
  <2>3. QED
    BY <1>1, <2>2, OthersKeep
<1>2. ASSUME Still PROVE \A f \in Events : (InBatch(f)' <=> InBatch(f)) /\ (InVector(f)' <=> InVector(f)) /\ (InHand(f)' <=> InHand(f))
  BY <1>2 DEF InVector, InBatch, InHand
<1>3. session \in Nat /\ output_file_ \in Nat /\ OfTheSession
  BY DEF CaptureInv, CaptureTyped
<1>4. CASE \/ T!SetupInternalTracer \/ UNCHANGED T!vars \/ T!Abort
  BY <1>1, <1>3, <1>4 DEF T!SetupInternalTracer, T!Abort, T!vars, T!loggerVars, T!threadVars, T!ownerVars,
     T!tracerVars
<1>5. CASE T!Start /\ ~T!Abort
  <2>1. /\ Still /\ opc = "idle" /\ opc' = "clear" /\ output_file_ = 0
        /\ session' = session + 1 /\ output_file_' = session' /\ UNCHANGED <<tracer_lpc, g_event_logging_active>>
    BY <1>5 DEF T!Start, T!threadVars, T!tracerVars, T!NoFile
  <2>2. OfTheSession'
    BY <1>2, <1>3, <2>1 DEF OfTheSession, Running, Starting, Fits
  <2>3. QED
    BY <1>1, <1>3, <2>1, <2>2
<1>6. CASE T!Activate /\ ~T!Abort
  <2>1. /\ Still /\ opc = "activate" /\ opc' = "spawn" /\ g_event_logging_active' = 1
        /\ UNCHANGED <<tracer_lpc, session, output_file_>>
    BY <1>6 DEF T!Activate, T!threadVars, T!tracerVars
  <2>2. OfTheSession'
    BY <1>2, <1>3, <2>1 DEF OfTheSession, Running, Starting, Fits
  <2>3. QED
    BY <1>1, <1>3, <2>1, <2>2
<1>7. CASE T!Spawn
  <2>1. /\ Still /\ opc = "spawn" /\ opc' = "idle" /\ tracer_lpc' = "wait"
        /\ UNCHANGED <<session, output_file_, g_event_logging_active>>
    BY <1>7 DEF T!Spawn, T!loggerVars, T!tracerVars
  <2>2. OfTheSession'
    BY <1>2, <1>3, <2>1 DEF OfTheSession, Running, Starting, Fits
  <2>3. QED
    BY <1>1, <1>3, <2>1, <2>2
<1>8. CASE T!SetShutdown \/ T!Join
  <2>1. /\ Still /\ opc \in {"set", "join"} /\ opc' \in {"join", "delete", "idle"}
        /\ tracer_lpc' = tracer_lpc \/ (tracer_lpc \in {"none", "exited"} /\ tracer_lpc' = "none")
        /\ UNCHANGED <<session, output_file_, g_event_logging_active>>
    BY <1>8 DEF T!SetShutdown, T!Join, T!Joined, T!Returned, T!loggerVars, T!threadVars, T!tracerVars
  <2>2. OfTheSession'
    BY <1>2, <1>3, <2>1 DEF OfTheSession, Running, Starting, Fits
  <2>3. QED
    BY <1>1, <1>3, <2>1, <2>2
<1>9. ASSUME NEW s \in BOOLEAN, T!Stop(s) PROVE CaptureInv'
  <2>1. /\ Still /\ opc = "idle" /\ opc' \in {"set", "delete", "idle"}
        /\ g_event_logging_active' \in {0, g_event_logging_active}
        /\ UNCHANGED <<tracer_lpc, session, output_file_>>
    BY <1>9 DEF T!Stop, T!Returned, T!threadVars, T!tracerVars
  <2>2. OfTheSession'
    BY <1>2, <1>3, <2>1 DEF OfTheSession, Running, Starting, Fits
  <2>3. QED
    BY <1>1, <1>3, <2>1, <2>2
<1>10. QED
  BY <1>4, <1>5, <1>6, <1>7, <1>8, <1>9

LEMMA CaptureKeeps ==
  ASSUME CaptureInv, [T!Next]_T!vars
  PROVE  CaptureInv'
BY AddTraceEventKeeps, PushEventKeeps, SwapEventsKeeps, WriteEventsKeeps, DroppingKeeps,
   LoggingKeeps, OwnerKeeps
DEF T!Next, T!LogStep, T!Log, T!OwnerStep, T!OwnerGoesOn, T!OwnerCalls, T!Trace, T!TracerStep, T!Tracer

(* Each event is in one place at a time, in the files no more than once,   *)
(* and there in the capture it was pushed in, which is the one that was    *)
(* active when it was added unless a thread had it in hand while the       *)
(* vector was cleared (event_tracer.cc).                                   *)
THEOREM CapturesAreClean == T!Spec => []T!CaptureIsClean
<1>1. T!Init => CaptureInv
  <2>1. T!Init => /\ trace_events_ = << >> /\ batch = << >> /\ written = << >>
                  /\ \A f \in Events : ~InHand(f) /\ ~InVector(f) /\ ~InBatch(f) /\ ~InFile(f)
    BY DEF T!Init, InHand, InVector, InBatch, InFile
  <2>2. T!Init => CaptureTyped
    BY <2>1, EmptySeq DEF T!Init, CaptureTyped, T!NoFile
  <2>3. T!Init => EachOnce
    BY <2>1 DEF T!Init, EachOnce
  <2>4. T!Init => OfTheSession
    BY <2>1 DEF T!Init, OfTheSession, Running, Starting
  <2>5. QED
    BY <2>2, <2>3, <2>4 DEF CaptureInv
<1>2. CaptureInv => T!CaptureIsClean
  <2>1. CaptureInv => DOMAIN written = 1 .. Len(written)
    BY LenProperties DEF CaptureInv, CaptureTyped
  <2>2. QED
    BY <2>1 DEF CaptureInv, EachOnce, OfTheSession, Fits, T!CaptureIsClean
<1> QED BY <1>1, <1>2, CaptureKeeps, PTL DEF T!Spec

-----------------------------------------------------------------------------
(* The references of RefCounting.                                          *)

Named == Null \notin Objects /\ Null \notin Pointers /\ OwnerOf \in [Pointers -> Users]

CountTyped ==
  /\ ref_count_ \in [Objects -> Int]
  /\ heap \in [Objects -> {"unborn", "alive", "deleted"}]
  /\ ptr_ \in [Pointers -> Objects \cup {Null}]
  /\ raw \in [Users -> Objects \cup {Null}]
  /\ op \in [Users -> [what : {"none", "release", "assign", "delete"}, to : Objects \cup {Null},
                       p : Pointers \cup {Null}, old : Objects \cup {Null}]]

(* A thread works on pointers of its own.                                  *)
Operations ==
  \A t \in Users :
    /\ op[t].p # Null => OwnerOf[op[t].p] = t
    /\ op[t].p = Null => op[t].to = Null /\ op[t].what \in {"none", "delete"}
    /\ op[t].what = "none" => op[t].p = Null
    /\ op[t].what = "delete" => op[t].old \in Objects

Counted(o) == IsFiniteSet(C!Holders(o)) /\ ref_count_[o] = Cardinality(C!Holders(o))
Deletes(t, o) == op[t].what = "delete" /\ op[t].old = o

(* An object without a holder is not yet made, deleted, or deleted by one. *)
Lives(o) ==
  /\ C!Holders(o) # {} => heap[o] = "alive"
  /\ C!Holders(o) = {} /\ heap[o] = "alive" => \E t \in Users : Deletes(t, o)
  /\ \A t \in Users : Deletes(t, o) => C!Holders(o) = {} /\ heap[o] = "alive"
  /\ \A t, u \in Users : Deletes(t, o) /\ Deletes(u, o) => t = u

CountInv ==
  /\ CountTyped /\ Operations
  /\ \A o \in Objects : Counted(o) /\ Lives(o)

PointerHolds(p, o) == ptr_[p] = o /\ ~C!Hidden(p)
OperationHolds(t, o) == op[t].to = o /\ op[t].what # "none"

LEMMA WhoHolds ==
  ASSUME NEW o
  PROVE  /\ \A p \in Pointers : <<"pointer", p>> \in C!Holders(o) <=> PointerHolds(p, o)
         /\ \A t \in Users : <<"operation", t>> \in C!Holders(o) <=> OperationHolds(t, o)
         /\ \A t \in Users : <<"caller", t>> \in C!Holders(o) <=> raw[t] = o
         /\ \A h \in C!Holders(o) : \/ \E p \in Pointers : h = <<"pointer", p>>
                                    \/ \E t \in Users : h = <<"operation", t>> \/ h = <<"caller", t>>
BY DEF C!Holders, PointerHolds, OperationHolds

(* How a step changes the holders.                                         *)
Changed(o, gone, come) ==
  /\ \A p \in Pointers : PointerHolds(p, o)' <=>
       (PointerHolds(p, o) /\ <<"pointer", p>> \notin gone) \/ <<"pointer", p>> \in come
  /\ \A t \in Users : OperationHolds(t, o)' <=>
       (OperationHolds(t, o) /\ <<"operation", t>> \notin gone) \/ <<"operation", t>> \in come
  /\ \A t \in Users : raw'[t] = o <=>
       (raw[t] = o /\ <<"caller", t>> \notin gone) \/ <<"caller", t>> \in come
  /\ \A h \in come : \/ \E p \in Pointers : h = <<"pointer", p>>
                     \/ \E t \in Users : h = <<"operation", t>> \/ h = <<"caller", t>>

LEMMA HoldersChange ==
  ASSUME NEW o, NEW gone, NEW come, Changed(o, gone, come)
  PROVE  C!Holders(o)' = (C!Holders(o) \ gone) \cup come
<1>1. /\ \A p \in Pointers : <<"pointer", p>> \in C!Holders(o)' <=> PointerHolds(p, o)'
      /\ \A t \in Users : <<"operation", t>> \in C!Holders(o)' <=> OperationHolds(t, o)'
      /\ \A t \in Users : <<"caller", t>> \in C!Holders(o)' <=> raw'[t] = o
      /\ \A h \in C!Holders(o)' : \/ \E p \in Pointers : h = <<"pointer", p>>
                                  \/ \E t \in Users : h = <<"operation", t>> \/ h = <<"caller", t>>
  BY DEF C!Holders, PointerHolds, OperationHolds
<1>2. QED
  BY <1>1, WhoHolds DEF Changed

(* One holder comes, one goes, or one takes the place of another.          *)
LEMMA OneMore ==
  ASSUME NEW o \in Objects, Counted(o), NEW h, h \notin C!Holders(o),
         C!Holders(o)' = C!Holders(o) \cup {h}, ref_count_'[o] = ref_count_[o] + 1
  PROVE  Counted(o)'
BY FS_AddElement DEF Counted

LEMMA OneLess ==
  ASSUME NEW o \in Objects, Counted(o), NEW h, h \in C!Holders(o),
         C!Holders(o)' = C!Holders(o) \ {h}, ref_count_'[o] = ref_count_[o] - 1
  PROVE  Counted(o)' /\ (ref_count_[o] = 1 <=> C!Holders(o)' = {})
<1>1. IsFiniteSet(C!Holders(o) \ {h}) /\ Cardinality(C!Holders(o) \ {h}) = Cardinality(C!Holders(o)) - 1
  BY FS_RemoveElement DEF Counted
<1>2. Counted(o)'
  BY <1>1 DEF Counted
<1>3. Cardinality(C!Holders(o)') = 0 <=> C!Holders(o)' = {}
  BY <1>1, FS_EmptySet
<1>4. Cardinality(C!Holders(o)) \in Nat
  BY FS_CardinalityType DEF Counted
<1>5. QED
  BY <1>1, <1>2, <1>3, <1>4 DEF Counted

LEMMA OneForAnother ==
  ASSUME NEW o \in Objects, Counted(o), NEW h, NEW k, h \in C!Holders(o), k \notin C!Holders(o),
         C!Holders(o)' = (C!Holders(o) \ {h}) \cup {k}, ref_count_'[o] = ref_count_[o]
  PROVE  Counted(o)'
<1>1. IsFiniteSet(C!Holders(o) \ {h}) /\ Cardinality(C!Holders(o) \ {h}) = Cardinality(C!Holders(o)) - 1
  BY FS_RemoveElement DEF Counted
<1>2. /\ IsFiniteSet(C!Holders(o)')
      /\ Cardinality(C!Holders(o)') = Cardinality(C!Holders(o) \ {h}) + 1
  BY <1>1, FS_AddElement
<1>3. Cardinality(C!Holders(o)) \in Nat
  BY FS_CardinalityType DEF Counted
<1>4. QED
  BY <1>1, <1>2, <1>3 DEF Counted

(* The steps of DecRef: h was the holder, and t deletes if it was the last.*)
LEMMA DecRefKeeps ==
  ASSUME CountInv, NEW o \in Objects, NEW t \in Users, NEW h, h \in C!Holders(o),
         C!Holders(o)' = C!Holders(o) \ {h}, ref_count_'[o] = ref_count_[o] - 1, heap'[o] = heap[o],
         Deletes(t, o)' <=> ref_count_[o] = 1,
         \A u \in Users : u # t => (Deletes(u, o)' <=> Deletes(u, o))
  PROVE  Counted(o)' /\ Lives(o)'
<1>1. Counted(o) /\ Lives(o)
  BY DEF CountInv
<1>2. Counted(o)' /\ (ref_count_[o] = 1 <=> C!Holders(o)' = {})
  BY <1>1, OneLess
<1>3. heap[o] = "alive" /\ \A u \in Users : ~Deletes(u, o)
  BY <1>1 DEF Lives
<1>4. QED
  BY <1>2, <1>3 DEF Lives

(* The other objects, and all objects of a step that drops nothing.        *)
LEMMA LivesOn ==
  ASSUME NEW o \in Objects, Lives(o), heap'[o] = heap[o],
         \A u \in Users : Deletes(u, o)' <=> Deletes(u, o),
         C!Holders(o) = {} <=> C!Holders(o)' = {}
  PROVE  Lives(o)'
BY DEF Lives

LEMMA SameHolders ==
  ASSUME NEW o \in Objects, Counted(o), Lives(o), heap'[o] = heap[o], ref_count_'[o] = ref_count_[o],
         \A u \in Users : Deletes(u, o)' <=> Deletes(u, o),
         Changed(o, {}, {})
  PROVE  Counted(o)' /\ Lives(o)'
<1>1. C!Holders(o)' = (C!Holders(o) \ {}) \cup {}
  BY HoldersChange
<1>2. C!Holders(o)' = C!Holders(o)
  BY <1>1
<1>3. QED
  BY <1>2, LivesOn DEF Counted
-----------------------------------------------------------------------------
(* A pointer holds nothing while its own thread is about to overwrite it.  *)
Overwrites(t, p) == op[t].p = p /\ op[t].what \in {"assign", "delete"}

LEMMA OwnerHides ==
  ASSUME Named, Operations
  PROVE  \A p \in Pointers : OwnerOf[p] \in Users /\ (C!Hidden(p) <=> Overwrites(OwnerOf[p], p))
BY DEF Named, Operations, C!Hidden, Overwrites

LEMMA OwnerHidesNext ==
  ASSUME Named, Operations'
  PROVE  \A p \in Pointers : C!Hidden(p)' <=> Overwrites(OwnerOf[p], p)'
BY DEF Named, Operations, C!Hidden, Overwrites

(* What an idle thread can get at has a holder.                            *)
LEMMA SourcesLive ==
  ASSUME Named, CountInv, NEW t \in Users, C!Idle(t), NEW o \in Objects, o \in C!Source(t)
  PROVE  C!Holders(o) # {} /\ heap[o] = "alive"
<1>1. PICK p \in Pointers : ptr_[p] = o /\ C!Idle(OwnerOf[p])
  BY DEF C!Source, C!Mine, Named
<1>2. PointerHolds(p, o)
  BY <1>1, OwnerHides DEF PointerHolds, Overwrites, C!Idle, CountInv
<1>3. <<"pointer", p>> \in C!Holders(o)
  BY <1>2, WhoHolds
<1>4. QED
  BY <1>3 DEF CountInv, Lives

LEMMA NewKeeps ==
  ASSUME Named, CountInv, NEW t \in Users, NEW p \in C!Mine(t), NEW n \in Objects, C!New(t, n, p)
  PROVE  CountInv'
<1>1. /\ C!Idle(t) /\ heap[n] = "unborn" /\ ptr_[p] = Null /\ p \in Pointers /\ OwnerOf[p] = t
      /\ heap' = [heap EXCEPT ![n] = "alive"]
      /\ ref_count_' = [ref_count_ EXCEPT ![n] = @ + 1]
      /\ ptr_' = [ptr_ EXCEPT ![p] = n]
      /\ UNCHANGED <<raw, op>>
  BY DEF C!New, C!IncRef, C!Mine
<1>2. CountTyped' /\ Operations'
  BY <1>1 DEF CountInv, CountTyped, Operations
<1>3. /\ \A q \in Pointers : C!Hidden(q)' <=> C!Hidden(q)
      /\ ~C!Hidden(p)
      /\ \A q \in Pointers : ptr_'[q] = IF q = p THEN n ELSE ptr_[q]
      /\ \A u \in Users, o \in Objects : Deletes(u, o)' <=> Deletes(u, o)
  BY <1>1, OwnerHides DEF CountInv, CountTyped, C!Hidden, Deletes, Overwrites, C!Idle
<1>4. C!Holders(n) = {} /\ \A u \in Users : ~Deletes(u, n)
  BY <1>1 DEF CountInv, Lives
<1>5. Counted(n)' /\ Lives(n)'
  <2>1. Changed(n, {}, {<<"pointer", p>>})
    BY <1>1, <1>3 DEF Changed, PointerHolds, OperationHolds
  <2>2. C!Holders(n)' = C!Holders(n) \cup {<<"pointer", p>>}
    BY <2>1, HoldersChange
  <2>3. Counted(n)'
    BY <1>1, <1>4, <2>2, OneMore DEF CountInv, CountTyped
  <2>4. heap'[n] = "alive" /\ C!Holders(n)' # {}
    BY <1>1, <2>2 DEF CountInv, CountTyped
  <2>5. QED
    BY <1>3, <1>4, <2>3, <2>4 DEF Lives
<1>6. ASSUME NEW o \in Objects, o # n PROVE Counted(o)' /\ Lives(o)'
  <2>1. Changed(o, {}, {})
    BY <1>1, <1>3, <1>6 DEF Named, Changed, PointerHolds, OperationHolds
  <2>2. heap'[o] = heap[o] /\ ref_count_'[o] = ref_count_[o]
    BY <1>1, <1>6 DEF CountInv, CountTyped
  <2>3. QED
    BY <1>3, <2>1, <2>2, SameHolders DEF CountInv
<1>7. QED
  BY <1>2, <1>5, <1>6 DEF CountInv

LEMMA AddRefKeeps ==
  ASSUME Named, CountInv, NEW t \in Users, NEW p \in C!Mine(t), NEW o \in Objects \cup {Null},
         C!AddRef(t, p, o)
  PROVE  CountInv'
<1>1. /\ C!Idle(t) /\ p \in Pointers /\ OwnerOf[p] = t
      /\ op' = [op EXCEPT ![t] = [what |-> "release", to |-> o, p |-> p, old |-> Null]]
      /\ UNCHANGED <<heap, ptr_, raw>>
      /\ IF o = Null THEN UNCHANGED ref_count_ ELSE ref_count_' = [ref_count_ EXCEPT ![o] = @ + 1]
  BY DEF C!AddRef, C!Begin, C!IncRef, C!Mine
<1>2. CountTyped'
  <2>1. ref_count_' \in [Objects -> Int]
    BY <1>1 DEF CountInv, CountTyped
  <2>2. QED
    BY <1>1, <2>1 DEF CountInv, CountTyped
<1>3. /\ \A u \in Users : u # t => op'[u] = op[u]
      /\ op'[t] = [what |-> "release", to |-> o, p |-> p, old |-> Null]
  BY <1>1 DEF CountInv, CountTyped
<1>4. Operations'
  BY <1>1, <1>3 DEF CountInv, Operations, Named
<1>5. /\ \A q \in Pointers : C!Hidden(q)' <=> C!Hidden(q)
      /\ \A u \in Users, b \in Objects : Deletes(u, b)' <=> Deletes(u, b)
  BY <1>1, <1>3 DEF C!Hidden, Deletes, C!Idle
<1>6. ASSUME NEW b \in Objects, b = o PROVE Counted(b)' /\ Lives(b)'
  <2>1. Changed(b, {}, {<<"operation", t>>})
    BY <1>1, <1>3, <1>5, <1>6 DEF Changed, PointerHolds, OperationHolds
  <2>2. C!Holders(b)' = C!Holders(b) \cup {<<"operation", t>>}
    BY <2>1, HoldersChange
  <2>3. <<"operation", t>> \notin C!Holders(b)
    BY <1>1, WhoHolds DEF OperationHolds, C!Idle
  <2>4. ref_count_'[b] = ref_count_[b] + 1 /\ heap'[b] = heap[b]
    BY <1>1, <1>6 DEF CountInv, CountTyped, Named
  <2>5. C!Holders(b) # {}
    BY <1>1, <1>6, SourcesLive DEF C!AddRef
  <2>6. Counted(b)'
    BY <2>2, <2>3, <2>4, OneMore DEF CountInv
  <2>7. Lives(b)'
    BY <1>5, <2>2, <2>4, <2>5, LivesOn DEF CountInv
  <2>8. QED
    BY <2>6, <2>7
<1>7. ASSUME NEW b \in Objects, b # o PROVE Counted(b)' /\ Lives(b)'
  <2>1. Changed(b, {}, {})
    BY <1>1, <1>3, <1>5, <1>7 DEF Changed, PointerHolds, OperationHolds, C!Idle
  <2>2. heap'[b] = heap[b] /\ ref_count_'[b] = ref_count_[b]
    BY <1>1, <1>7 DEF CountInv, CountTyped
  <2>3. QED
    BY <1>5, <2>1, <2>2, SameHolders DEF CountInv
<1>8. QED
  BY <1>2, <1>4, <1>6, <1>7 DEF CountInv

LEMMA RefReleaseKeeps ==
  ASSUME Named, CountInv, NEW t \in Users, C!Release(t)
  PROVE  CountInv'
<1>1. PICK p \in Pointers : /\ p = op[t].p /\ OwnerOf[p] = t /\ op[t].what = "release"
                            /\ UNCHANGED <<heap, ptr_, raw>>
  BY DEF C!Release, CountInv, CountTyped, Operations
<1>2. CASE ptr_[p] = Null
  <2>1. op' = [op EXCEPT ![t].what = "assign"] /\ UNCHANGED ref_count_
    BY <1>1, <1>2 DEF C!Release
  <2>2. /\ \A u \in Users : u # t => op'[u] = op[u]
        /\ op'[t].what = "assign" /\ op'[t].to = op[t].to /\ op'[t].p = p /\ op'[t].old = op[t].old
    BY <1>1, <2>1 DEF CountInv, CountTyped
  <2>3. CountTyped'
    BY <1>1, <2>1 DEF CountInv, CountTyped
  <2>4. Operations'
    BY <1>1, <2>2 DEF CountInv, Operations, Named
  <2>5. \A q \in Pointers : q # p => (C!Hidden(q)' <=> C!Hidden(q))
    BY <1>1, <2>2 DEF C!Hidden
  <2>6. \A u \in Users, b \in Objects : Deletes(u, b)' <=> Deletes(u, b)
    BY <1>1, <2>2 DEF Deletes
  <2>7. ASSUME NEW o \in Objects PROVE Counted(o)' /\ Lives(o)'
    <3>1. Changed(o, {}, {})
      BY <1>1, <1>2, <2>2, <2>5 DEF Changed, PointerHolds, OperationHolds, Named
    <3>2. QED
      BY <1>1, <2>1, <2>6, <3>1, SameHolders DEF CountInv
  <2>8. QED
    BY <2>3, <2>4, <2>7 DEF CountInv
<1>3. CASE ptr_[p] # Null
  <2>1. PICK old \in Objects : old = ptr_[p]
    BY <1>3 DEF CountInv, CountTyped
  <2>2. /\ ref_count_' = [ref_count_ EXCEPT ![old] = @ - 1]
        /\ op' = [op EXCEPT ![t].what = IF ref_count_[old] = 1 THEN "delete" ELSE "assign",
                            ![t].old = old]
    BY <1>1, <1>3, <2>1 DEF C!Release, C!DecRef
  <2>3. /\ \A u \in Users : u # t => op'[u] = op[u]
        /\ op'[t].what = IF ref_count_[old] = 1 THEN "delete" ELSE "assign"
        /\ op'[t].to = op[t].to /\ op'[t].p = p /\ op'[t].old = old
    BY <1>1, <2>2 DEF CountInv, CountTyped
  <2>4. CountTyped'
    <3>1. ref_count_' \in [Objects -> Int]
      BY <2>2 DEF CountInv, CountTyped
    <3>2. op[t] \in [what : {"none", "release", "assign", "delete"}, to : Objects \cup {Null},
                     p : Pointers \cup {Null}, old : Objects \cup {Null}]
      BY DEF CountInv, CountTyped
    <3>3. [op[t] EXCEPT !.what = IF ref_count_[old] = 1 THEN "delete" ELSE "assign", !.old = old]
            \in [what : {"none", "release", "assign", "delete"}, to : Objects \cup {Null},
                 p : Pointers \cup {Null}, old : Objects \cup {Null}]
      BY <3>2
    <3>4. op' = [op EXCEPT ![t] = [op[t] EXCEPT !.what = IF ref_count_[old] = 1 THEN "delete" ELSE "assign",
                                               !.old = old]]
      BY <2>2 DEF CountInv, CountTyped
    <3>5. QED
      BY <1>1, <3>1, <3>3, <3>4 DEF CountInv, CountTyped
  <2>5. Operations'
    BY <1>1, <2>3 DEF CountInv, Operations, Named
  <2>6. \A q \in Pointers : C!Hidden(q)' <=> C!Hidden(q) \/ q = p
    BY <1>1, <2>3 DEF C!Hidden
  <2>7. ~C!Hidden(p)
    BY <1>1, OwnerHides DEF CountInv, Overwrites
  <2>8. /\ \A u \in Users, b \in Objects : u # t => (Deletes(u, b)' <=> Deletes(u, b))
        /\ \A b \in Objects : ~Deletes(t, b)
        /\ \A b \in Objects : Deletes(t, b)' <=> b = old /\ ref_count_[old] = 1
    BY <1>1, <2>3 DEF Deletes
  <2>9. Counted(old)' /\ Lives(old)'
    <3>1. Changed(old, {<<"pointer", p>>}, {})
      BY <1>1, <2>1, <2>3, <2>6, <2>7 DEF Changed, PointerHolds, OperationHolds
    <3>2. C!Holders(old)' = C!Holders(old) \ {<<"pointer", p>>}
      <4>1. C!Holders(old)' = (C!Holders(old) \ {<<"pointer", p>>}) \cup {}
        BY <3>1, HoldersChange
      <4>2. QED
        BY <4>1
    <3>3. <<"pointer", p>> \in C!Holders(old)
      BY <2>1, <2>7, WhoHolds DEF PointerHolds
    <3>4. ref_count_'[old] = ref_count_[old] - 1 /\ heap'[old] = heap[old]
      BY <1>1, <2>2 DEF CountInv, CountTyped
    <3>5. QED
      BY <2>8, <3>2, <3>3, <3>4, DecRefKeeps
  <2>10. ASSUME NEW o \in Objects, o # old PROVE Counted(o)' /\ Lives(o)'
    <3>1. Changed(o, {}, {})
      BY <1>1, <2>1, <2>3, <2>6, <2>10 DEF Changed, PointerHolds, OperationHolds
    <3>2. heap'[o] = heap[o] /\ ref_count_'[o] = ref_count_[o]
      BY <1>1, <2>2, <2>10 DEF CountInv, CountTyped
    <3>3. \A u \in Users : Deletes(u, o)' <=> Deletes(u, o)
      BY <2>8, <2>10
    <3>4. QED
      BY <3>1, <3>2, <3>3, SameHolders DEF CountInv
  <2>11. QED
    BY <2>4, <2>5, <2>9, <2>10 DEF CountInv
<1>4. QED
  BY <1>2, <1>3

LEMMA DeleteKeeps ==
  ASSUME Named, CountInv, NEW t \in Users, C!Delete(t)
  PROVE  CountInv'
<1>1. PICK old \in Objects : /\ old = op[t].old /\ op[t].what = "delete"
                             /\ heap' = [heap EXCEPT ![old] = "deleted"]
                             /\ UNCHANGED <<ref_count_, ptr_, raw>>
  BY DEF C!Delete, CountInv, Operations
<1>2. Deletes(t, old) /\ C!Holders(old) = {} /\ \A u \in Users : Deletes(u, old) => u = t
  BY <1>1 DEF CountInv, Lives, Deletes
<1>3. /\ \A u \in Users : u # t => op'[u] = op[u]
      /\ op[t].p = Null => op'[t] = C!Nothing
      /\ op[t].p # Null => /\ op'[t].what = "assign" /\ op'[t].to = op[t].to
                           /\ op'[t].p = op[t].p /\ op'[t].old = op[t].old
      /\ op' \in [Users -> [what : {"none", "release", "assign", "delete"}, to : Objects \cup {Null},
                            p : Pointers \cup {Null}, old : Objects \cup {Null}]]
  BY DEF C!Delete, C!Nothing, CountInv, CountTyped
<1>4. CountTyped'
  BY <1>1, <1>3 DEF CountInv, CountTyped
<1>5. Operations'
  BY <1>1, <1>3 DEF CountInv, Operations, Named, C!Nothing
<1>6. \A q \in Pointers : C!Hidden(q)' <=> C!Hidden(q)
  BY <1>1, <1>3 DEF C!Hidden, C!Nothing, Named
<1>7. \A o \in Objects : Changed(o, {}, {})
  BY <1>1, <1>3, <1>6 DEF Changed, PointerHolds, OperationHolds, C!Nothing, Named, CountInv, Operations
<1>8. \A u \in Users, o \in Objects : Deletes(u, o)' <=> Deletes(u, o) /\ u # t
  BY <1>1, <1>3 DEF Deletes, C!Nothing
<1>9. Counted(old)' /\ Lives(old)'
  <2>1. C!Holders(old)' = (C!Holders(old) \ {}) \cup {}
    BY <1>7, HoldersChange
  <2>2. heap'[old] = "deleted" /\ ref_count_'[old] = ref_count_[old]
    BY <1>1 DEF CountInv, CountTyped
  <2>3. QED
    BY <1>2, <1>8, <2>1, <2>2 DEF CountInv, Counted, Lives
<1>10. ASSUME NEW o \in Objects, o # old PROVE Counted(o)' /\ Lives(o)'
  <2>1. heap'[o] = heap[o] /\ ref_count_'[o] = ref_count_[o]
    BY <1>1, <1>10 DEF CountInv, CountTyped
  <2>2. \A u \in Users : Deletes(u, o)' <=> Deletes(u, o)
    BY <1>1, <1>8, <1>10 DEF Deletes
  <2>3. QED
    BY <1>7, <2>1, <2>2, SameHolders DEF CountInv
<1>11. QED
  BY <1>4, <1>5, <1>9, <1>10 DEF CountInv

(* A step by which one holder takes the place of another, or none does.    *)
LEMMA PassedOn ==
  ASSUME CountInv, NEW o \in Objects, NEW h, NEW k, h \in C!Holders(o), k \notin C!Holders(o),
         Changed(o, {h}, {k}), UNCHANGED <<heap, ref_count_>>,
         \A u \in Users : Deletes(u, o)' <=> Deletes(u, o)
  PROVE  Counted(o)' /\ Lives(o)'
<1>1. C!Holders(o)' = (C!Holders(o) \ {h}) \cup {k}
  BY HoldersChange
<1>2. Counted(o)'
  BY <1>1, OneForAnother DEF CountInv
<1>3. C!Holders(o) # {} /\ C!Holders(o)' # {}
  BY <1>1
<1>4. QED
  BY <1>2, <1>3, LivesOn DEF CountInv

LEMMA AssignKeeps ==
  ASSUME Named, CountInv, NEW t \in Users, C!Assign(t)
  PROVE  CountInv'
<1>1. PICK p \in Pointers : /\ p = op[t].p /\ op[t].what = "assign" /\ OwnerOf[p] = t
                            /\ ptr_' = [ptr_ EXCEPT ![p] = op[t].to]
                            /\ op' = [op EXCEPT ![t] = C!Nothing]
                            /\ UNCHANGED <<ref_count_, heap, raw>>
  BY DEF C!Assign, CountInv, CountTyped, Operations
<1>2. CountTyped'
  BY <1>1 DEF CountInv, CountTyped, C!Nothing
<1>3. /\ \A u \in Users : op'[u] = IF u = t THEN C!Nothing ELSE op[u]
      /\ \A q \in Pointers : ptr_'[q] = IF q = p THEN op[t].to ELSE ptr_[q]
  BY <1>1 DEF CountInv, CountTyped
<1>4. Operations'
  BY <1>3 DEF CountInv, Operations, Named, C!Nothing
<1>5. /\ \A q \in Pointers : q # p => (C!Hidden(q)' <=> C!Hidden(q))
      /\ C!Hidden(p) /\ ~C!Hidden(p)'
  <2>1. \A q \in Pointers : q # p => (C!Hidden(q)' <=> C!Hidden(q))
    BY <1>1, <1>3 DEF C!Hidden, C!Nothing, Named
  <2>2. C!Hidden(p)
    BY <1>1 DEF C!Hidden
  <2>3. ~C!Hidden(p)'
    BY <1>1, <1>3, <1>4, OwnerHidesNext DEF Overwrites, C!Nothing
  <2>4. QED
    BY <2>1, <2>2, <2>3
<1>6. \A u \in Users, o \in Objects : Deletes(u, o)' <=> Deletes(u, o)
  BY <1>1, <1>3 DEF Deletes, C!Nothing
<1>7. ASSUME NEW o \in Objects, o = op[t].to PROVE Counted(o)' /\ Lives(o)'
  <2>1. Changed(o, {<<"operation", t>>}, {<<"pointer", p>>})
    BY <1>1, <1>3, <1>5, <1>7 DEF Changed, PointerHolds, OperationHolds, C!Nothing
  <2>2. <<"operation", t>> \in C!Holders(o) /\ <<"pointer", p>> \notin C!Holders(o)
    BY <1>1, <1>5, <1>7, WhoHolds DEF PointerHolds, OperationHolds
  <2>3. QED
    BY <1>1, <1>6, <2>1, <2>2, PassedOn
<1>8. ASSUME NEW o \in Objects, o # op[t].to PROVE Counted(o)' /\ Lives(o)'
  <2>1. Changed(o, {}, {})
    BY <1>1, <1>3, <1>5, <1>8 DEF Changed, PointerHolds, OperationHolds, C!Nothing
  <2>2. QED
    BY <1>1, <1>6, <2>1, SameHolders DEF CountInv
<1>9. QED
  BY <1>2, <1>4, <1>7, <1>8 DEF CountInv

LEMMA TakeOutKeeps ==
  ASSUME Named, CountInv, NEW t \in Users, NEW p \in C!Mine(t), C!TakeOut(t, p)
  PROVE  CountInv'
<1>1. /\ C!Idle(t) /\ raw[t] = Null /\ p \in Pointers /\ OwnerOf[p] = t
      /\ raw' = [raw EXCEPT ![t] = ptr_[p]]
      /\ ptr_' = [ptr_ EXCEPT ![p] = Null]
      /\ UNCHANGED <<ref_count_, heap, op>>
  BY DEF C!TakeOut, C!Mine
<1>2. CountTyped' /\ Operations'
  BY <1>1 DEF CountInv, CountTyped, Operations
<1>3. /\ \A u \in Users : raw'[u] = IF u = t THEN ptr_[p] ELSE raw[u]
      /\ \A q \in Pointers : ptr_'[q] = IF q = p THEN Null ELSE ptr_[q]
      /\ \A q \in Pointers : C!Hidden(q)' <=> C!Hidden(q)
      /\ ~C!Hidden(p)
      /\ \A u \in Users, o \in Objects : Deletes(u, o)' <=> Deletes(u, o)
  BY <1>1, OwnerHides DEF CountInv, CountTyped, C!Hidden, Deletes, Overwrites, C!Idle
<1>4. ASSUME NEW o \in Objects, o = ptr_[p] PROVE Counted(o)' /\ Lives(o)'
  <2>1. Changed(o, {<<"pointer", p>>}, {<<"caller", t>>})
    BY <1>1, <1>3, <1>4 DEF Changed, PointerHolds, OperationHolds, Named
  <2>2. <<"pointer", p>> \in C!Holders(o) /\ <<"caller", t>> \notin C!Holders(o)
    BY <1>1, <1>3, <1>4, WhoHolds DEF PointerHolds, Named
  <2>3. QED
    BY <1>1, <1>3, <2>1, <2>2, PassedOn
<1>5. ASSUME NEW o \in Objects, o # ptr_[p] PROVE Counted(o)' /\ Lives(o)'
  <2>1. Changed(o, {}, {})
    BY <1>1, <1>3, <1>5 DEF Changed, PointerHolds, OperationHolds, Named
  <2>2. QED
    BY <1>1, <1>3, <2>1, SameHolders DEF CountInv
<1>6. QED
  BY <1>2, <1>4, <1>5 DEF CountInv

LEMMA DropRawKeeps ==
  ASSUME Named, CountInv, NEW t \in Users, C!DropRaw(t)
  PROVE  CountInv'
<1>1. PICK old \in Objects :
        /\ C!Idle(t) /\ raw[t] = old
        /\ raw' = [raw EXCEPT ![t] = Null]
        /\ ref_count_' = [ref_count_ EXCEPT ![old] = @ - 1]
        /\ op' = [op EXCEPT ![t] = [what |-> IF ref_count_[old] = 1 THEN "delete" ELSE "none",
                                    to |-> Null, p |-> Null, old |-> old]]
        /\ UNCHANGED <<heap, ptr_>>
  BY DEF C!DropRaw, CountInv, CountTyped
<1>2. /\ \A u \in Users : u # t => op'[u] = op[u] /\ raw'[u] = raw[u]
      /\ op'[t].what = IF ref_count_[old] = 1 THEN "delete" ELSE "none"
      /\ op'[t].to = Null /\ op'[t].p = Null /\ op'[t].old = old /\ raw'[t] = Null
  BY <1>1 DEF CountInv, CountTyped
<1>3. CountTyped'
  <2>1. ref_count_' \in [Objects -> Int]
    BY <1>1 DEF CountInv, CountTyped
  <2>2. QED
    BY <1>1, <2>1 DEF CountInv, CountTyped
<1>4. Operations'
  BY <1>2 DEF CountInv, Operations
<1>5. \A q \in Pointers : C!Hidden(q)' <=> C!Hidden(q)
  BY <1>1, <1>2 DEF C!Hidden, C!Idle, Named
<1>6. /\ \A u \in Users, b \in Objects : u # t => (Deletes(u, b)' <=> Deletes(u, b))
      /\ \A b \in Objects : ~Deletes(t, b)
      /\ \A b \in Objects : Deletes(t, b)' <=> b = old /\ ref_count_[old] = 1
  BY <1>1, <1>2 DEF Deletes, C!Idle
<1>7. Counted(old)' /\ Lives(old)'
  <2>1. Changed(old, {<<"caller", t>>}, {})
    BY <1>1, <1>2, <1>5 DEF Changed, PointerHolds, OperationHolds, Named, C!Idle
  <2>2. C!Holders(old)' = C!Holders(old) \ {<<"caller", t>>}
    <3>1. C!Holders(old)' = (C!Holders(old) \ {<<"caller", t>>}) \cup {}
      BY <2>1, HoldersChange
    <3>2. QED
      BY <3>1
  <2>3. <<"caller", t>> \in C!Holders(old)
    BY <1>1, WhoHolds
  <2>4. ref_count_'[old] = ref_count_[old] - 1 /\ heap'[old] = heap[old]
    BY <1>1 DEF CountInv, CountTyped
  <2>5. QED
    BY <1>6, <2>2, <2>3, <2>4, DecRefKeeps
<1>8. ASSUME NEW o \in Objects, o # old PROVE Counted(o)' /\ Lives(o)'
  <2>1. Changed(o, {}, {})
    BY <1>1, <1>2, <1>5, <1>8 DEF Changed, PointerHolds, OperationHolds, Named, C!Idle
  <2>2. heap'[o] = heap[o] /\ ref_count_'[o] = ref_count_[o]
    BY <1>1, <1>8 DEF CountInv, CountTyped
  <2>3. \A u \in Users : Deletes(u, o)' <=> Deletes(u, o)
    BY <1>6, <1>8
  <2>4. QED
    BY <2>1, <2>2, <2>3, SameHolders DEF CountInv
<1>9. QED
  BY <1>3, <1>4, <1>7, <1>8 DEF CountInv

(* A move is three: onto the pointer itself, onto an empty one, and onto   *)
(* one whose object is released.                                           *)
LEMMA MoveKeeps ==
  ASSUME Named, CountInv, NEW t \in Users, NEW p \in C!Mine(t), NEW r \in C!Mine(t), C!Move(t, p, r)
  PROVE  CountInv'
<1>1. /\ C!Idle(t) /\ p \in Pointers /\ OwnerOf[p] = t /\ r \in Pointers /\ OwnerOf[r] = t
      /\ ptr_' = [[ptr_ EXCEPT ![r] = Null] EXCEPT ![p] = ptr_[r]]
      /\ UNCHANGED <<heap, raw>>
  BY DEF C!Move, C!Mine
<1>2. /\ ptr_' \in [Pointers -> Objects \cup {Null}]
      /\ \A q \in Pointers : ptr_'[q] = IF q = p THEN ptr_[r] ELSE IF q = r THEN Null ELSE ptr_[q]
  BY <1>1 DEF CountInv, CountTyped
<1>3. ~C!Hidden(p) /\ ~C!Hidden(r)
  BY <1>1, OwnerHides DEF CountInv, Overwrites, C!Idle
<1>4. CASE p = r \/ ptr_[p] = Null
  <2>1. UNCHANGED <<ref_count_, op>>
    BY <1>1, <1>4 DEF C!Move, CountInv, CountTyped
  <2>2. CountTyped' /\ Operations'
    BY <1>1, <1>2, <2>1 DEF CountInv, CountTyped, Operations
  <2>3. /\ \A q \in Pointers : C!Hidden(q)' <=> C!Hidden(q)
        /\ \A u \in Users, o \in Objects : Deletes(u, o)' <=> Deletes(u, o)
    BY <2>1 DEF C!Hidden, Deletes
  <2>4. ASSUME NEW o \in Objects, o = ptr_[r], p # r PROVE Counted(o)' /\ Lives(o)'
    <3>1. Changed(o, {<<"pointer", r>>}, {<<"pointer", p>>})
      BY <1>1, <1>2, <1>3, <1>4, <2>1, <2>3, <2>4 DEF Changed, PointerHolds, OperationHolds, Named
    <3>2. <<"pointer", r>> \in C!Holders(o) /\ <<"pointer", p>> \notin C!Holders(o)
      BY <1>1, <1>3, <1>4, <2>4, WhoHolds DEF PointerHolds, Named
    <3>3. QED
      BY <1>1, <2>1, <2>3, <3>1, <3>2, PassedOn
  <2>5. ASSUME NEW o \in Objects, o # ptr_[r] \/ p = r PROVE Counted(o)' /\ Lives(o)'
    <3>1. Changed(o, {}, {})
      BY <1>1, <1>2, <1>4, <2>1, <2>3, <2>5 DEF Changed, PointerHolds, OperationHolds, Named
    <3>2. QED
      BY <1>1, <2>1, <2>3, <3>1, SameHolders DEF CountInv
  <2>6. QED
    BY <2>2, <2>4, <2>5 DEF CountInv
<1>5. CASE p # r /\ ptr_[p] # Null
  <2>1. PICK old \in Objects :
          /\ old = ptr_[p]
          /\ ref_count_' = [ref_count_ EXCEPT ![old] = @ - 1]
          /\ op' = [op EXCEPT ![t] = [what |-> IF ref_count_[old] = 1 THEN "delete" ELSE "none",
                                      to |-> Null, p |-> Null, old |-> old]]
    <3>1. PICK old \in Objects : old = ptr_[p] /\ old = [ptr_ EXCEPT ![r] = Null][p]
      BY <1>1, <1>5 DEF CountInv, CountTyped
    <3>2. QED
      BY <1>5, <3>1 DEF C!Move, Named
  <2>2. /\ \A u \in Users : u # t => op'[u] = op[u]
        /\ op'[t].what = IF ref_count_[old] = 1 THEN "delete" ELSE "none"
        /\ op'[t].to = Null /\ op'[t].p = Null /\ op'[t].old = old
    BY <2>1 DEF CountInv, CountTyped
  <2>3. CountTyped'
    <3>1. ref_count_' \in [Objects -> Int]
      BY <2>1 DEF CountInv, CountTyped
    <3>2. op' \in [Users -> [what : {"none", "release", "assign", "delete"}, to : Objects \cup {Null},
                             p : Pointers \cup {Null}, old : Objects \cup {Null}]]
      BY <2>1 DEF CountInv, CountTyped
    <3>3. QED
      BY <1>1, <1>2, <3>1, <3>2 DEF CountInv, CountTyped
  <2>4. Operations'
    BY <2>2 DEF CountInv, Operations
  <2>5. \A q \in Pointers : C!Hidden(q)' <=> C!Hidden(q)
    BY <1>1, <2>2 DEF C!Hidden, C!Idle, Named
  <2>6. /\ \A u \in Users, b \in Objects : u # t => (Deletes(u, b)' <=> Deletes(u, b))
        /\ \A b \in Objects : ~Deletes(t, b)
        /\ \A b \in Objects : Deletes(t, b)' <=> b = old /\ ref_count_[old] = 1
    BY <1>1, <2>2 DEF Deletes, C!Idle
  <2>7. PICK h : /\ h = IF old = ptr_[r] THEN <<"pointer", r>> ELSE <<"pointer", p>>
    OBVIOUS
  <2>8. Counted(old)' /\ Lives(old)'
    <3>1. Changed(old, {h}, {})
      <4>1. CASE old = ptr_[r]
        BY <1>1, <1>2, <1>3, <1>5, <2>1, <2>2, <2>5, <2>7, <4>1
        DEF Changed, PointerHolds, OperationHolds, Named, C!Idle
      <4>2. CASE old # ptr_[r]
        BY <1>1, <1>2, <1>3, <1>5, <2>1, <2>2, <2>5, <2>7, <4>2
        DEF Changed, PointerHolds, OperationHolds, Named, C!Idle
      <4>3. QED
        BY <4>1, <4>2
    <3>2. C!Holders(old)' = C!Holders(old) \ {h}
      <4>1. C!Holders(old)' = (C!Holders(old) \ {h}) \cup {}
        BY <3>1, HoldersChange
      <4>2. QED
        BY <4>1
    <3>3. h \in C!Holders(old)
      BY <1>1, <1>3, <2>1, <2>7, WhoHolds DEF PointerHolds
    <3>4. ref_count_'[old] = ref_count_[old] - 1 /\ heap'[old] = heap[old]
      BY <1>1, <2>1 DEF CountInv, CountTyped
    <3>5. QED
      BY <2>6, <3>2, <3>3, <3>4, DecRefKeeps
  <2>9. ASSUME NEW o \in Objects, o # old PROVE Counted(o)' /\ Lives(o)'
    <3>1. ref_count_'[o] = ref_count_[o] /\ heap'[o] = heap[o]
      BY <1>1, <2>1, <2>9 DEF CountInv, CountTyped
    <3>2. \A u \in Users : Deletes(u, o)' <=> Deletes(u, o)
      BY <2>6, <2>9
    <3>3. CASE o = ptr_[r]
      <4>1. Changed(o, {<<"pointer", r>>}, {<<"pointer", p>>})
        BY <1>1, <1>2, <1>3, <1>5, <2>1, <2>2, <2>5, <2>9, <3>3
        DEF Changed, PointerHolds, OperationHolds, Named, C!Idle
      <4>2. <<"pointer", r>> \in C!Holders(o) /\ <<"pointer", p>> \notin C!Holders(o)
        BY <1>1, <1>3, <2>1, <2>9, <3>3, WhoHolds DEF PointerHolds
      <4>3. C!Holders(o)' = (C!Holders(o) \ {<<"pointer", r>>}) \cup {<<"pointer", p>>}
        BY <4>1, HoldersChange
      <4>4. Counted(o)'
        BY <3>1, <4>2, <4>3, OneForAnother DEF CountInv
      <4>5. C!Holders(o) # {} /\ C!Holders(o)' # {}
        BY <4>2, <4>3
      <4>6. Lives(o)'
        BY <3>1, <3>2, <4>5, LivesOn DEF CountInv
      <4>7. QED
        BY <4>4, <4>6
    <3>4. CASE o # ptr_[r]
      <4>1. Changed(o, {}, {})
        BY <1>1, <1>2, <1>3, <1>5, <2>1, <2>2, <2>5, <2>9, <3>4
        DEF Changed, PointerHolds, OperationHolds, Named, C!Idle
      <4>2. QED
        BY <3>1, <3>2, <4>1, SameHolders DEF CountInv
    <3>5. QED
      BY <3>3, <3>4
  <2>10. QED
    BY <2>3, <2>4, <2>8, <2>9 DEF CountInv
<1>6. QED
  BY <1>4, <1>5

(* The operator of FiniteSets, which the instance has a copy of.           *)
LEMMA SameCardinality ==
  ASSUME NEW S
  PROVE  C!Cardinality(S) = Cardinality(S)
BY DEF C!Cardinality, Cardinality

LEMMA CountsKeep ==
  ASSUME Named, CountInv, [C!Next]_C!vars
  PROVE  CountInv'
<1>1. CASE UNCHANGED C!vars
  <2>1. \A o \in Objects : /\ Changed(o, {}, {})
                           /\ \A u \in Users : Deletes(u, o)' <=> Deletes(u, o)
    BY <1>1 DEF C!vars, Changed, PointerHolds, OperationHolds, C!Hidden, Deletes
  <2>2. CountTyped' /\ Operations'
    BY <1>1 DEF C!vars, CountInv, CountTyped, Operations
  <2>3. \A o \in Objects : Counted(o)' /\ Lives(o)'
    BY <1>1, <2>1, SameHolders DEF C!vars, CountInv
  <2>4. QED
    BY <2>2, <2>3 DEF CountInv
<1>2. QED
  BY <1>1, NewKeeps, AddRefKeeps, TakeOutKeeps, MoveKeeps, RefReleaseKeeps, DeleteKeeps, AssignKeeps,
     DropRawKeeps
  DEF C!Next

(* The count of an object is that of the references to it, and an object   *)
(* dies with the last of them and no sooner, whoever assigns, moves and    *)
(* drops at once, as each thread works on pointers of its own              *)
(* (ref_counter.h, scoped_refptr.h).                                       *)
THEOREM CountsAreOfReferences ==
  ASSUME Named
  PROVE  C!Spec => []C!ReferencesAreCounted
<1>1. C!Init => CountInv
  <2>1. ASSUME C!Init, NEW o \in Objects PROVE C!Holders(o) = {}
    BY <2>1 DEF Named, C!Init, C!Holders, C!Nothing
  <2>2. C!Init => CountTyped /\ Operations
    BY DEF C!Init, C!Nothing, CountTyped, Operations
  <2>3. ASSUME C!Init, NEW o \in Objects PROVE Counted(o) /\ Lives(o)
    BY <2>1, <2>3, FS_EmptySet DEF C!Init, C!Nothing, Counted, Lives, Deletes
  <2>4. QED
    BY <2>2, <2>3 DEF CountInv
<1>2. CountInv => C!ReferencesAreCounted
  <2>1. SUFFICES ASSUME CountInv, NEW o \in Objects
                 PROVE  /\ ref_count_[o] = Cardinality(C!Holders(o))
                        /\ C!Holders(o) # {} => heap[o] = "alive"
                        /\ C!Holders(o) = {} /\ heap[o] = "alive" =>
                             Cardinality({t \in Users : op[t].what = "delete" /\ op[t].old = o}) = 1
    BY SameCardinality DEF C!ReferencesAreCounted
  <2>2. Counted(o) /\ Lives(o)
    BY <2>1 DEF CountInv
  <2>3. ASSUME C!Holders(o) = {}, heap[o] = "alive"
        PROVE  Cardinality({t \in Users : op[t].what = "delete" /\ op[t].old = o}) = 1
    <3>1. PICK t \in Users : Deletes(t, o)
      BY <2>2, <2>3 DEF Lives
    <3>2. {u \in Users : op[u].what = "delete" /\ op[u].old = o} = {t}
      BY <2>2, <3>1 DEF Lives, Deletes
    <3>3. QED
      BY <3>2, FS_Singleton
  <2>4. QED
    BY <2>2, <2>3 DEF Counted, Lives
<1>3. QED
  BY <1>1, <1>2, CountsKeep, PTL DEF C!Spec

LEMMA LowestIs ==
  ASSUME NEW S \in SUBSET Nat, S # {}
  PROVE  /\ G!LowestOf(S) \in S
         /\ \A n \in S : G!LowestOf(S) <= n
<1> DEFINE W == OpToRel(<, Nat)
<1>1. \A x, y \in Nat : y < x => <<y, x>> \in W
  BY Zenon DEF OpToRel
<1>2. IsWellFoundedOn(W, Nat)
  BY NatLessThanWellFounded
<1> HIDE DEF W
<1>3. PICK x \in S : \A y \in S : ~(<<y, x>> \in W)
  BY <1>2, WFMin
<1>4. ASSUME NEW y \in S PROVE x <= y
  <2>1. x \in Nat /\ y \in Nat /\ ~(y < x)
    BY <1>1, <1>3
  <2>2. QED
    BY <2>1
<1>5. QED
  BY <1>4 DEF G!LowestOf

LEMMA LowestOfTwo ==
  ASSUME NEW S \in SUBSET Nat, NEW d \in Nat, NEW n \in Nat, d <= n, \A x \in S : x <= n
  PROVE  G!LowestOf({d} \cup S) = G!LowestOf({d, G!LowestOf({n} \cup S)})
<1> DEFINE c == G!LowestOf({d} \cup S)
           b == G!LowestOf({n} \cup S)
           e == G!LowestOf({d, b})
<1>1. c \in {d} \cup S /\ \A x \in {d} \cup S : c <= x
  <2>1. {d} \cup S \in SUBSET Nat /\ {d} \cup S # {}
    OBVIOUS
  <2>2. QED
    BY <2>1, LowestIs
<1>2. b \in {n} \cup S /\ \A x \in {n} \cup S : b <= x
  <2>1. {n} \cup S \in SUBSET Nat /\ {n} \cup S # {}
    OBVIOUS
  <2>2. QED
    BY <2>1, LowestIs
<1> HIDE DEF c, b
<1>3. b \in Nat /\ c \in Nat
  BY <1>1, <1>2
<1>4. e \in {d, b} /\ e <= d /\ e <= b
  <2>1. {d, b} \in SUBSET Nat /\ {d, b} # {} /\ d \in {d, b} /\ b \in {d, b}
    BY <1>3
  <2>2. QED
    BY <2>1, LowestIs
<1> HIDE DEF e
<1>5. c <= d /\ (b \in S => c <= b) /\ (c \in S => b <= c) /\ b <= n /\ (b = n \/ b \in S) /\ (c = d \/ c \in S)
  BY <1>1, <1>2
<1>6. c <= b
  BY <1>3, <1>5
<1>7. c = d \/ c = b
  BY <1>3, <1>5, <1>6
<1>8. c = e
  BY <1>3, <1>4, <1>5, <1>6, <1>7
<1>9. QED
  BY <1>8 DEF c, b, e

(* Who may write, what it writes, and what the statements still have to    *)
(* reach.                                                                  *)
EachSinkOnce(s) == \A i, j \in 1 .. Len(s) : s[i] = s[j] => i = j
Severed == None \in Nat /\ DefaultSeverity \in 0 .. None /\ Free \notin Loggers

LoggingTyped ==
  /\ streams_ \in Seq(Sinks)
  /\ min_severity_ \in [Sinks -> G!Severities]
  /\ stores = [v \in G!Shared |-> stores[v]]
  /\ stores["streams_empty_"] \in Seq(BOOLEAN)
  /\ stores["g_dbg_sev"] \in Seq(G!Severities) /\ stores["g_min_sev"] \in Seq(G!Severities)
  /\ known \in [Loggers -> [G!Shared -> Nat]] /\ mutexKnown \in [G!Shared -> Nat]
  /\ \A v \in G!Shared : /\ mutexKnown[v] \in 1 .. Len(stores[v])
                         /\ \A t \in Loggers : known[t][v] \in 1 .. Len(stores[v])
  /\ logMutex \in Loggers \cup {Free}
  /\ logPc \in [Loggers -> {"idle", "lock", "calling", "store", "update"}]
  /\ severity \in [Loggers -> G!Severities]
  /\ left \in [Loggers -> Seq(Sinks)]
  /\ sees \in [Loggers -> SUBSET Sinks] /\ owed \in [Loggers -> SUBSET Sinks]

(* The mutex tells of the last values of the two variables that only its   *)
(* holder writes, and who knows of a sink reads nothing but FALSE.         *)
Emptiness ==
  /\ mutexKnown["g_min_sev"] = Len(stores["g_min_sev"]) /\ mutexKnown["streams_empty_"] = Len(stores["streams_empty_"])
  /\ stores["streams_empty_"][Len(stores["streams_empty_"])] <=> streams_ = << >>
  /\ \A t \in Loggers : sees[t] # {} =>
       \A i \in known[t]["streams_empty_"] .. Len(stores["streams_empty_"]) : ~stores["streams_empty_"][i]

(* The last level for debug is known to the mutex, or to a thread that is  *)
(* about to update.                                                        *)
Minimal ==
  /\ \/ mutexKnown["g_dbg_sev"] = Len(stores["g_dbg_sev"])
     \/ \E t \in Loggers : logPc[t] = "update" /\ known[t]["g_dbg_sev"] = Len(stores["g_dbg_sev"])
  /\ (\A t \in Loggers : logPc[t] # "update") =>
       stores["g_min_sev"][Len(stores["g_min_sev"])]
         = G!Lowest(streams_, min_severity_, stores["g_dbg_sev"][Len(stores["g_dbg_sev"])])

(* A statement on its way owes nothing but sinks that it comes to.         *)
Statements ==
  /\ EachSinkOnce(streams_)
  /\ \A t \in Loggers :
       /\ sees[t] \subseteq G!ToSet(streams_) /\ owed[t] \subseteq G!ToSet(streams_)
       /\ logPc[t] \in {"lock", "calling"} => \A s \in owed[t] : severity[t] >= min_severity_[s]
       /\ logPc[t] = "calling" =>
            /\ logMutex = t /\ EachSinkOnce(left[t])
            /\ owed[t] \subseteq G!ToSet(left[t]) /\ G!ToSet(left[t]) \subseteq G!ToSet(streams_)

LoggingInv == LoggingTyped /\ Emptiness /\ Minimal /\ Statements /\ missed = FALSE

(* What is appended to a sequence, and what the sequence was before.       *)
LEMMA Appended ==
  ASSUME NEW S, NEW s \in Seq(S), NEW x \in S
  PROVE  /\ Append(s, x) \in Seq(S) /\ Len(s) \in Nat /\ Len(Append(s, x)) = Len(s) + 1
         /\ Append(s, x)[Len(s) + 1] = x
         /\ \A i \in 1 .. Len(s) : Append(s, x)[i] = s[i]
BY AppendProperties

LEMMA ToSetIs ==
  ASSUME NEW S, NEW s \in Seq(S)
  PROVE  /\ G!ToSet(s) \subseteq S
         /\ \A x : x \in G!ToSet(s) <=> \E i \in 1 .. Len(s) : s[i] = x
         /\ s = << >> <=> G!ToSet(s) = {}
<1>1. DOMAIN s = 1 .. Len(s) /\ Len(s) \in Nat /\ \A i \in 1 .. Len(s) : s[i] \in S
  BY ElementOfSeq, LenProperties
<1>2. \A x : x \in G!ToSet(s) <=> \E i \in 1 .. Len(s) : s[i] = x
  BY <1>1 DEF G!ToSet
<1>3. s = << >> <=> Len(s) = 0
  BY EmptySeq
<1>4. s # << >> => 1 \in 1 .. Len(s)
  BY <1>1, <1>3
<1>5. s = << >> => 1 .. Len(s) = {}
  BY <1>3
<1>6. QED
  BY <1>1, <1>2, <1>4, <1>5

LEMMA LowestTyped ==
  ASSUME Severed, NEW s \in Seq(Sinks), NEW f \in [Sinks -> G!Severities], NEW d \in G!Severities
  PROVE  /\ G!Lowest(s, f, d) \in G!Severities
         /\ G!Lowest(s, f, d)
              = G!LowestOf({d, G!LowestOf({None} \cup {f[x] : x \in G!ToSet(s)})})
<1> DEFINE S == {f[x] : x \in G!ToSet(s)}
<1>1. /\ S \in SUBSET Nat /\ \A x \in S : x <= None
      /\ d \in Nat /\ None \in Nat /\ d <= None
      /\ S \subseteq G!Severities
  BY ToSetIs DEF Severed, G!Severities
<1> HIDE DEF S
<1>2. {d} \cup S \in SUBSET Nat /\ {d} \cup S # {} /\ {d} \cup S \subseteq G!Severities
  BY <1>1
<1>3. G!LowestOf({d} \cup S) \in {d} \cup S
  BY <1>2, LowestIs
<1>4. G!LowestOf({d} \cup S) = G!LowestOf({d, G!LowestOf({None} \cup S)})
  BY <1>1, LowestOfTwo
<1>5. G!Lowest(s, f, d) = G!LowestOf({d} \cup S)
  BY DEF G!Lowest, S
<1>6. QED
  BY <1>2, <1>3, <1>4, <1>5 DEF S

LEMMA UpdateKeeps ==
  ASSUME Severed, LoggingInv, NEW t \in Loggers, NEW e, G!UpdateMinLogSeverity(t, e),
         streams_' \in Seq(Sinks), min_severity_' \in [Sinks -> G!Severities],
         \/ e = << >> /\ (streams_' = << >> <=> streams_ = << >>)
         \/ \E b \in BOOLEAN : e = <<b>> /\ (b <=> streams_' = << >>),
         logPc'[t] # "update", \A u \in Loggers : u # t => logPc'[u] = logPc[u]
  PROVE  /\ stores' = [v \in G!Shared |-> stores'[v]]
         /\ stores'["streams_empty_"] \in Seq(BOOLEAN)
         /\ stores'["g_dbg_sev"] \in Seq(G!Severities) /\ stores'["g_min_sev"] \in Seq(G!Severities)
         /\ known' \in [Loggers -> [G!Shared -> Nat]] /\ mutexKnown' \in [G!Shared -> Nat]
         /\ \A v \in G!Shared : /\ mutexKnown'[v] \in 1 .. Len(stores'[v])
                                /\ \A u \in Loggers : known'[u][v] \in 1 .. Len(stores'[v])
         /\ sees' \in [Loggers -> SUBSET Sinks] /\ owed' \in [Loggers -> SUBSET Sinks]
         /\ \A u \in Loggers : /\ sees'[u] \subseteq G!ToSet(streams_')
                               /\ owed'[u] = owed[u] \cap G!ToSet(streams_')
         /\ Emptiness' /\ Minimal'
<1> DEFINE k == G!Later(known[t], mutexKnown)
           E == "streams_empty_"
           D == "g_dbg_sev"
           W == "g_min_sev"
<1>1. /\ G!Shared = {D, W, E}
      /\ stores = [v \in G!Shared |-> stores[v]]
      /\ stores[E] \in Seq(BOOLEAN) /\ stores[D] \in Seq(G!Severities) /\ stores[W] \in Seq(G!Severities)
      /\ known \in [Loggers -> [G!Shared -> Nat]] /\ mutexKnown \in [G!Shared -> Nat]
      /\ \A v \in G!Shared : /\ mutexKnown[v] \in 1 .. Len(stores[v])
                             /\ \A u \in Loggers : known[u][v] \in 1 .. Len(stores[v])
      /\ \A v \in G!Shared : Len(stores[v]) \in Nat
  BY LenProperties DEF LoggingInv, LoggingTyped, G!Shared
<1>2. /\ k \in [G!Shared -> Nat]
      /\ \A v \in G!Shared : k[v] \in 1 .. Len(stores[v]) /\ k[v] >= known[t][v] /\ k[v] >= mutexKnown[v]
  BY <1>1 DEF G!Later
<1> HIDE DEF k
<1>3. PICK d \in {stores[D][i] : i \in k[D] .. Len(stores[D])} :
        /\ stores' = [stores EXCEPT ![E] = @ \o e, ![W] = Append(@, G!Lowest(streams_', min_severity_', d))]
        /\ mutexKnown' = [v \in G!Shared |-> IF v = D THEN k[v] ELSE Len(stores'[v])]
        /\ known' = [known EXCEPT ![t] = mutexKnown']
        /\ sees' = [u \in Loggers |-> IF u = t THEN G!ToSet(streams_') ELSE sees[u] \cap G!ToSet(streams_')]
        /\ owed' = [u \in Loggers |-> owed[u] \cap G!ToSet(streams_')]
  BY DEF G!UpdateMinLogSeverity, k
<1>4. PICK i \in k[D] .. Len(stores[D]) : d = stores[D][i]
  BY <1>3
<1>5. i \in 1 .. Len(stores[D]) /\ d \in G!Severities
  <2>1. i \in 1 .. Len(stores[D])
    BY <1>1, <1>2, <1>4
  <2>2. QED
    BY <1>1, <1>4, <2>1, ElementOfSeq
<1> DEFINE l == G!Lowest(streams_', min_severity_', d)
<1>6. l \in G!Severities
  BY <1>5, LowestTyped
<1> HIDE DEF l
<1>7. /\ stores' = [v \in G!Shared |-> stores'[v]]
      /\ stores'[D] = stores[D] /\ stores'[W] = Append(stores[W], l) /\ stores'[E] = stores[E] \o e
  BY <1>1, <1>3 DEF l
<1>8. /\ stores'[W] \in Seq(G!Severities) /\ Len(stores'[W]) = Len(stores[W]) + 1
      /\ stores'[W][Len(stores'[W])] = l
  BY <1>1, <1>6, <1>7, Appended
<1>9. /\ stores'[E] \in Seq(BOOLEAN) /\ Len(stores'[E]) \in Nat /\ Len(stores'[E]) >= Len(stores[E])
      /\ \A j \in 1 .. Len(stores[E]) : stores'[E][j] = stores[E][j]
      /\ \A j \in 1 .. Len(stores'[E]) : j > Len(stores[E]) => (stores'[E][j] <=> streams_' = << >>)
      /\ stores'[E][Len(stores'[E])] <=> streams_' = << >>
  <2>1. CASE e = << >> /\ (streams_' = << >> <=> streams_ = << >>)
    <3>1. stores'[E] = stores[E]
      BY <1>1, <1>7, <2>1, ConcatEmptySeq
    <3>2. stores[E][Len(stores[E])] <=> streams_ = << >>
      BY DEF LoggingInv, Emptiness
    <3>3. QED
      BY <1>1, <2>1, <3>1, <3>2
  <2>2. ASSUME NEW b \in BOOLEAN, e = <<b>>, b <=> streams_' = << >>
        PROVE  <1>9
    <3>1. stores'[E] = Append(stores[E], b)
      BY <1>1, <1>7, <2>2, AppendIsConcat
    <3>2. /\ Append(stores[E], b) \in Seq(BOOLEAN) /\ Len(stores[E]) \in Nat
          /\ Len(Append(stores[E], b)) = Len(stores[E]) + 1
          /\ Append(stores[E], b)[Len(stores[E]) + 1] = b
          /\ \A j \in 1 .. Len(stores[E]) : Append(stores[E], b)[j] = stores[E][j]
      BY <1>1, Appended
    <3>3. \A j \in 1 .. Len(stores'[E]) : j > Len(stores[E]) => j = Len(stores[E]) + 1
      BY <3>1, <3>2
    <3>4. QED
      BY <2>2, <3>1, <3>2, <3>3
  <2>3. QED
    BY <2>1, <2>2
<1>10. /\ mutexKnown' \in [G!Shared -> Nat] /\ known' \in [Loggers -> [G!Shared -> Nat]]
       /\ mutexKnown'[D] = k[D] /\ mutexKnown'[W] = Len(stores'[W]) /\ mutexKnown'[E] = Len(stores'[E])
       /\ known'[t] = mutexKnown' /\ \A u \in Loggers : u # t => known'[u] = known[u]
  BY SMTT(30), <1>1, <1>2, <1>3, <1>8, <1>9
<1>11. \A v \in G!Shared : Len(stores[v]) <= Len(stores'[v]) /\ Len(stores'[v]) \in Nat
  <2>1. /\ Len(stores[D]) <= Len(stores'[D]) /\ Len(stores'[D]) \in Nat
        /\ Len(stores[W]) <= Len(stores'[W]) /\ Len(stores'[W]) \in Nat
        /\ Len(stores[E]) <= Len(stores'[E]) /\ Len(stores'[E]) \in Nat
    <3>1. Len(stores[D]) \in Nat /\ Len(stores[W]) \in Nat /\ Len(stores[E]) \in Nat
      BY <1>1
    <3>2. Len(stores'[W]) = Len(stores[W]) + 1 /\ Len(stores'[D]) = Len(stores[D])
      BY <1>7, <1>8
    <3>3. QED
      BY <1>9, <3>1, <3>2
  <2>2. QED
    BY <1>1, <2>1
<1>12. ASSUME NEW v \in G!Shared
       PROVE  /\ mutexKnown'[v] \in 1 .. Len(stores'[v])
              /\ \A u \in Loggers : known'[u][v] \in 1 .. Len(stores'[v])
  <2>1. mutexKnown'[v] \in 1 .. Len(stores'[v])
    <3>1. Len(stores[v]) \in Nat /\ Len(stores[v]) >= 1 /\ Len(stores'[v]) \in Nat /\ Len(stores'[v]) >= 1
      BY SMTT(30), <1>1, <1>11
    <3>2. CASE v = D
      BY <1>2, <1>7, <1>10, <3>2
    <3>3. CASE v # D
      BY SMTT(30), <1>1, <1>10, <3>1, <3>3
    <3>4. QED
      BY <3>2, <3>3
  <2>2. ASSUME NEW u \in Loggers, u # t
        PROVE  known'[u][v] \in 1 .. Len(stores'[v])
    <3>1. known'[u][v] = known[u][v] /\ known[u][v] \in 1 .. Len(stores[v])
          /\ Len(stores[v]) <= Len(stores'[v]) /\ Len(stores'[v]) \in Nat
      BY <1>1, <1>10, <1>11, <2>2
    <3>2. QED
      BY <3>1
  <2>3. QED
    BY <1>10, <2>1, <2>2
<1>13. /\ sees' \in [Loggers -> SUBSET Sinks] /\ owed' \in [Loggers -> SUBSET Sinks]
       /\ \A u \in Loggers : /\ sees'[u] \subseteq G!ToSet(streams_')
                             /\ u # t => sees'[u] \subseteq sees[u]
                             /\ owed'[u] = owed[u] \cap G!ToSet(streams_')
  BY <1>3, ToSetIs DEF LoggingInv, LoggingTyped
<1>14. Emptiness'
  <2>1. ASSUME NEW u \in Loggers, sees'[u] # {}, NEW j \in known'[u][E] .. Len(stores'[E])
        PROVE  ~stores'[E][j]
    <3>1. streams_' # << >>
      BY <1>13, <2>1, ToSetIs
    <3>2. j \in 1 .. Len(stores'[E])
      <4>1. E \in G!Shared
        BY <1>1
      <4>2. known'[u][E] \in 1 .. Len(stores'[E])
        BY <1>12, <4>1
      <4>3. QED
        BY <1>9, <2>1, <4>2
    <3>3. CASE u = t
      <4>1. j = Len(stores'[E])
        BY <1>9, <1>10, <2>1, <3>3
      <4>2. QED
        BY <1>9, <3>1, <4>1
    <3>4. CASE u # t /\ j > Len(stores[E])
      BY <1>9, <3>1, <3>2, <3>4
    <3>5. CASE u # t /\ j <= Len(stores[E])
      <4>1. sees[u] # {} /\ j \in known[u][E] .. Len(stores[E]) /\ j \in 1 .. Len(stores[E])
        <5>1. sees[u] # {} /\ known'[u] = known[u]
          BY <1>10, <1>13, <2>1, <3>5
        <5>2. known[u][E] \in 1 .. Len(stores[E]) /\ Len(stores[E]) \in Nat
          BY <1>1
        <5>3. QED
          BY <1>9, <2>1, <3>2, <3>5, <5>1, <5>2
      <4>2. ~stores[E][j]
        BY <4>1 DEF LoggingInv, Emptiness
      <4>3. QED
        BY <1>9, <4>1, <4>2
    <3>6. QED
      BY <1>1, <3>2, <3>3, <3>4, <3>5
  <2>2. QED
    BY <1>9, <1>10, <2>1 DEF Emptiness
<1>15. Minimal'
  <2>1. \/ k[D] = Len(stores[D])
        \/ \E u \in Loggers : u # t /\ logPc[u] = "update" /\ known[u][D] = Len(stores[D])
    BY SMTT(30), <1>1, <1>2 DEF LoggingInv, Minimal
  <2>2. \/ mutexKnown'[D] = Len(stores'[D])
        \/ \E u \in Loggers : logPc'[u] = "update" /\ known'[u][D] = Len(stores'[D])
    BY <1>7, <1>10, <2>1
  <2>3. ASSUME \A u \in Loggers : logPc'[u] # "update"
        PROVE  stores'[W][Len(stores'[W])] = G!Lowest(streams_', min_severity_', stores'[D][Len(stores'[D])])
    <3>1. k[D] = Len(stores[D])
      BY <2>1, <2>3
    <3>2. d = stores'[D][Len(stores'[D])]
      BY <1>1, <1>4, <1>7, <3>1
    <3>3. QED
      BY <1>8, <3>2 DEF l
  <2>4. QED
    BY <2>2, <2>3 DEF Minimal
<1>16. QED
  BY <1>1, <1>7, <1>8, <1>9, <1>10, <1>12, <1>13, <1>14, <1>15

LEMMA LogKeeps ==
  ASSUME Severed, LoggingInv, NEW t \in Loggers, NEW sev \in G!Severities \ {None}, G!Log(t, sev)
  PROVE  LoggingInv'
<1>1. /\ logPc[t] = "idle" /\ severity' = [severity EXCEPT ![t] = sev]
      /\ owed' = [owed EXCEPT ![t] = {s \in sees[t] : sev >= min_severity_[s]}]
      /\ UNCHANGED <<streams_, min_severity_, stores, known, mutexKnown, logMutex, left, sees>>
  BY DEF G!Log
<1>2. PICK dbg \in G!CanRead(t, "g_dbg_sev"), min \in G!CanRead(t, "g_min_sev"),
           empty \in G!CanRead(t, "streams_empty_") :
        IF G!IsNoop(t, sev, dbg, min, empty)
          THEN missed' = (missed \/ owed'[t] # {}) /\ UNCHANGED logPc
          ELSE logPc' = [logPc EXCEPT ![t] = "lock"] /\ UNCHANGED missed
  BY DEF G!Log
<1>3. sees[t] # {} => ~empty
  BY DEF LoggingInv, Emptiness, G!CanRead
<1>4. owed'[t] = {s \in sees[t] : sev >= min_severity_[s]}
  BY <1>1 DEF LoggingInv, LoggingTyped
<1>5. missed' = FALSE
  <2>1. CASE G!IsNoop(t, sev, dbg, min, empty)
    <3>1. sees[t] = {}
      BY <1>3, <2>1 DEF G!IsNoop
    <3>2. owed'[t] = {}
      BY <1>4, <3>1
    <3>3. QED
      BY <1>2, <2>1, <3>2 DEF LoggingInv
  <2>2. CASE ~G!IsNoop(t, sev, dbg, min, empty)
    BY <1>2, <2>2 DEF LoggingInv
  <2>3. QED
    BY <2>1, <2>2
<1>6. logPc' = logPc \/ logPc' = [logPc EXCEPT ![t] = "lock"]
  BY <1>2
<1>7. /\ logPc' \in [Loggers -> {"idle", "lock", "calling", "store", "update"}]
      /\ \A u \in Loggers : u # t => logPc'[u] = logPc[u]
      /\ logPc'[t] \in {"idle", "lock"}
  BY <1>1, <1>6 DEF LoggingInv, LoggingTyped
<1>8. LoggingTyped'
  BY <1>1, <1>7 DEF LoggingInv, LoggingTyped, G!Severities
<1>9. Emptiness'
  BY <1>1 DEF LoggingInv, Emptiness
<1>10. Minimal'
  <2>1. \A u \in Loggers : logPc'[u] = "update" <=> logPc[u] = "update"
    BY <1>1, <1>7
  <2>2. QED
    BY <1>1, <2>1 DEF LoggingInv, Minimal
<1>11. Statements'
  <2>1. ASSUME NEW u \in Loggers, u # t
        PROVE  owed'[u] = owed[u] /\ severity'[u] = severity[u] /\ logPc'[u] = logPc[u]
    BY <1>1, <1>7, <2>1 DEF LoggingInv, LoggingTyped
  <2>2. severity'[t] = sev /\ owed'[t] \subseteq sees[t] /\ \A s \in owed'[t] : sev >= min_severity_[s]
    BY <1>1, <1>4 DEF LoggingInv, LoggingTyped
  <2>3. QED
    BY <1>1, <1>7, <2>1, <2>2 DEF LoggingInv, Statements
<1>12. QED
  BY <1>5, <1>8, <1>9, <1>10, <1>11 DEF LoggingInv

LEMMA LockStreamsKeeps ==
  ASSUME Severed, LoggingInv, NEW t \in Loggers, G!LockStreams(t)
  PROVE  LoggingInv'
<1>1. /\ logPc[t] = "lock" /\ logMutex = Free /\ logMutex' = t
      /\ known' = [known EXCEPT ![t] = G!Later(@, mutexKnown)]
      /\ sees' = [sees EXCEPT ![t] = G!ToSet(streams_)]
      /\ left' = [left EXCEPT ![t] = streams_]
      /\ logPc' = [logPc EXCEPT ![t] = "calling"]
      /\ UNCHANGED <<streams_, min_severity_, stores, mutexKnown, severity, owed, missed>>
  BY DEF G!LockStreams
<1>2. /\ \A v \in G!Shared : /\ mutexKnown[v] \in 1 .. Len(stores[v])
                             /\ \A u \in Loggers : known[u][v] \in 1 .. Len(stores[v])
      /\ "streams_empty_" \in G!Shared /\ \A v \in G!Shared : Len(stores[v]) \in Nat
  BY LenProperties DEF LoggingInv, LoggingTyped, G!Shared
<1>3. /\ known'[t] = G!Later(known[t], mutexKnown) /\ \A u \in Loggers : u # t => known'[u] = known[u]
      /\ \A v \in G!Shared : known'[t][v] \in 1 .. Len(stores[v]) /\ known'[t][v] >= mutexKnown[v]
      /\ known' \in [Loggers -> [G!Shared -> Nat]]
  BY <1>1, <1>2 DEF LoggingInv, LoggingTyped, G!Later
<1>4. /\ \A u \in Loggers : u # t => sees'[u] = sees[u] /\ left'[u] = left[u] /\ logPc'[u] = logPc[u]
      /\ sees'[t] = G!ToSet(streams_) /\ left'[t] = streams_ /\ logPc'[t] = "calling"
  BY <1>1 DEF LoggingInv, LoggingTyped
<1>5. LoggingTyped'
  <2>1. sees' \in [Loggers -> SUBSET Sinks] /\ left' \in [Loggers -> Seq(Sinks)]
    BY <1>1, ToSetIs DEF LoggingInv, LoggingTyped
  <2>2. \A v \in G!Shared : \A u \in Loggers : known'[u][v] \in 1 .. Len(stores[v])
    BY <1>2, <1>3
  <2>3. QED
    BY <1>1, <1>3, <2>1, <2>2 DEF LoggingInv, LoggingTyped
<1>6. Emptiness'
  <2>1. ASSUME NEW u \in Loggers, sees'[u] # {},
               NEW i \in known'[u]["streams_empty_"] .. Len(stores["streams_empty_"])
        PROVE  ~stores["streams_empty_"][i]
    <3>1. CASE u = t
      <4>1. known'[t]["streams_empty_"] = Len(stores["streams_empty_"]) /\ i = Len(stores["streams_empty_"])
        BY <1>2, <1>3, <2>1, <3>1 DEF LoggingInv, Emptiness
      <4>2. streams_ # << >>
        BY <1>4, <2>1, <3>1, ToSetIs DEF LoggingInv, LoggingTyped
      <4>3. QED
        BY <4>1, <4>2 DEF LoggingInv, Emptiness
    <3>2. CASE u # t
      BY <1>3, <1>4, <2>1, <3>2 DEF LoggingInv, Emptiness
    <3>3. QED
      BY <3>1, <3>2
  <2>2. QED
    BY <1>1, <2>1 DEF LoggingInv, Emptiness
<1>7. Minimal'
  <2>1. \A u \in Loggers : logPc'[u] = "update" <=> logPc[u] = "update"
    BY <1>1, <1>4
  <2>2. \A u \in Loggers : logPc[u] = "update" => known'[u] = known[u]
    BY <1>1, <1>3
  <2>3. QED
    BY <1>1, <2>1, <2>2 DEF LoggingInv, Minimal
<1>8. Statements'
  <2>1. \A u \in Loggers : u # t => logPc[u] # "calling"
    BY <1>1 DEF Severed, LoggingInv, Statements
  <2>2. QED
    BY <1>1, <1>4, <2>1 DEF LoggingInv, Statements, EachSinkOnce
<1>9. QED
  BY <1>1, <1>5, <1>6, <1>7, <1>8 DEF LoggingInv

LEMMA OnLogMessageKeeps ==
  ASSUME Severed, LoggingInv, NEW t \in Loggers, G!OnLogMessage(t)
  PROVE  LoggingInv'
<1> DEFINE l == left[t]
<1>1. /\ logPc[t] = "calling" /\ l # << >> /\ left' = [left EXCEPT ![t] = Tail(l)]
      /\ owed' = IF severity[t] >= min_severity_[Head(l)]
                   THEN [owed EXCEPT ![t] = @ \ {Head(l)}] ELSE owed
      /\ UNCHANGED <<streams_, min_severity_, stores, known, mutexKnown, logMutex, logPc, severity,
                     sees, missed>>
  BY DEF G!OnLogMessage
<1>2. l \in Seq(Sinks) /\ EachSinkOnce(l) /\ owed[t] \subseteq G!ToSet(l)
      /\ G!ToSet(l) \subseteq G!ToSet(streams_) /\ logMutex = t
      /\ \A s \in owed[t] : severity[t] >= min_severity_[s]
  BY <1>1 DEF LoggingInv, LoggingTyped, Statements
<1> HIDE DEF l
<1>3. /\ Tail(l) \in Seq(Sinks) /\ Len(l) \in Nat /\ Len(l) >= 1 /\ Len(Tail(l)) = Len(l) - 1
      /\ \A i \in 1 .. Len(Tail(l)) : i + 1 \in 1 .. Len(l) /\ Tail(l)[i] = l[i + 1]
      /\ Head(l) = l[1]
  <2>1. Tail(l) \in Seq(Sinks) /\ Len(Tail(l)) = Len(l) - 1 /\ Len(l) \in Nat /\ Len(l) >= 1
        /\ Head(l) = l[1]
    BY <1>1, <1>2, HeadTailProperties, EmptySeq, LenProperties
  <2>2. \A i \in 1 .. Len(Tail(l)) : Tail(l)[i] = l[i + 1]
    BY <1>1, <1>2, HeadTailProperties
  <2>3. QED
    BY <2>1, <2>2
<1>4. EachSinkOnce(Tail(l))
  BY <1>2, <1>3 DEF EachSinkOnce
<1>5. \A x : x \in G!ToSet(l) => x = Head(l) \/ x \in G!ToSet(Tail(l))
  <2>1. ASSUME NEW x, x \in G!ToSet(l), x # Head(l)
        PROVE  x \in G!ToSet(Tail(l))
    <3>1. PICK i \in 1 .. Len(l) : l[i] = x
      BY <1>2, <2>1, ToSetIs
    <3>2. i - 1 \in 1 .. Len(Tail(l)) /\ (i - 1) + 1 = i
      BY <1>3, <2>1, <3>1
    <3>3. Tail(l)[i - 1] = x
      BY <1>3, <3>1, <3>2
    <3>4. QED
      BY ZenonT(30), <1>3, <3>2, <3>3, ToSetIs
  <2>2. QED
    BY <2>1
<1>6. G!ToSet(Tail(l)) \subseteq G!ToSet(l)
  <2>1. ASSUME NEW x \in G!ToSet(Tail(l))
        PROVE  x \in G!ToSet(l)
    <3>1. PICK i \in 1 .. Len(Tail(l)) : Tail(l)[i] = x
      BY <1>3, <2>1, ToSetIs
    <3>2. QED
      BY <1>2, <1>3, <3>1, ToSetIs
  <2>2. QED
    BY <2>1
<1>7. /\ owed' \in [Loggers -> SUBSET Sinks]
      /\ owed'[t] \subseteq owed[t] /\ owed'[t] \subseteq G!ToSet(Tail(l))
      /\ \A u \in Loggers : u # t => owed'[u] = owed[u]
  <2>1. CASE severity[t] >= min_severity_[Head(l)]
    BY <1>1, <1>2, <1>5, <2>1 DEF LoggingInv, LoggingTyped
  <2>2. CASE ~(severity[t] >= min_severity_[Head(l)])
    <3>1. Head(l) \notin owed[t] /\ owed' = owed
      BY <1>1, <1>2, <2>2
    <3>2. QED
      BY <1>2, <1>5, <3>1 DEF LoggingInv, LoggingTyped
  <2>3. QED
    BY <2>1, <2>2
<1>8. /\ left' \in [Loggers -> Seq(Sinks)] /\ left'[t] = Tail(l)
      /\ \A u \in Loggers : u # t => left'[u] = left[u]
  BY <1>1, <1>3 DEF LoggingInv, LoggingTyped
<1>9. LoggingTyped'
  BY <1>1, <1>7, <1>8 DEF LoggingInv, LoggingTyped
<1>10. Emptiness' /\ Minimal'
  BY <1>1 DEF LoggingInv, Emptiness, Minimal
<1>11. Statements'
  <2>1. ASSUME NEW u \in Loggers
        PROVE  /\ sees'[u] \subseteq G!ToSet(streams_)' /\ owed'[u] \subseteq G!ToSet(streams_)'
               /\ logPc'[u] \in {"lock", "calling"} => \A s \in owed'[u] : severity'[u] >= min_severity_'[s]
    BY <1>1, <1>7 DEF LoggingInv, Statements
  <2>2. ASSUME NEW u \in Loggers, logPc'[u] = "calling"
        PROVE  /\ logMutex' = u /\ EachSinkOnce(left[u])'
               /\ owed'[u] \subseteq G!ToSet(left[u])' /\ G!ToSet(left[u])' \subseteq G!ToSet(streams_)'
    <3>1. u = t
      BY <1>1, <1>2, <2>2 DEF LoggingInv, Statements
    <3>2. EachSinkOnce(left'[t]) /\ owed'[t] \subseteq G!ToSet(left'[t])
          /\ G!ToSet(left'[t]) \subseteq G!ToSet(streams_)
      BY <1>2, <1>4, <1>6, <1>7, <1>8
    <3>3. EachSinkOnce(left[u])'
      BY <3>1, <3>2 DEF EachSinkOnce
    <3>4. G!ToSet(left[u])' = G!ToSet(left'[t]) /\ G!ToSet(streams_)' = G!ToSet(streams_)
      BY <1>1, <3>1 DEF G!ToSet
    <3>5. QED
      BY <1>1, <1>2, <3>1, <3>2, <3>3, <3>4
  <2>3. EachSinkOnce(streams_)'
    BY <1>1 DEF LoggingInv, Statements, EachSinkOnce
  <2>4. QED
    BY <2>1, <2>2, <2>3 DEF Statements
<1>12. QED
  BY <1>1, <1>9, <1>10, <1>11 DEF LoggingInv

LEMMA LoggedKeeps ==
  ASSUME Severed, LoggingInv, NEW t \in Loggers, G!Logged(t)
  PROVE  LoggingInv'
<1>1. /\ logPc[t] = "calling" /\ left[t] = << >> /\ logMutex' = Free
      /\ mutexKnown' = G!Later(mutexKnown, known[t])
      /\ missed' = (missed \/ owed[t] # {})
      /\ logPc' = [logPc EXCEPT ![t] = "idle"]
      /\ UNCHANGED <<streams_, min_severity_, stores, known, severity, left, sees, owed>>
  BY DEF G!Logged
<1>2. missed' = FALSE
  <2>1. owed[t] = {}
    <3>1. owed[t] \subseteq G!ToSet(left[t]) /\ left[t] \in Seq(Sinks)
      BY <1>1 DEF LoggingInv, LoggingTyped, Statements
    <3>2. left[t] = << >> <=> G!ToSet(left[t]) = {}
      BY <3>1, ToSetIs, Zenon
    <3>3. QED
      BY <1>1, <3>1, <3>2
  <2>2. QED
    BY <1>1, <2>1 DEF LoggingInv
<1>3. /\ \A v \in G!Shared : /\ mutexKnown[v] \in 1 .. Len(stores[v])
                             /\ known[t][v] \in 1 .. Len(stores[v]) /\ Len(stores[v]) \in Nat
      /\ G!Shared = {"g_dbg_sev", "g_min_sev", "streams_empty_"}
  BY LenProperties DEF LoggingInv, LoggingTyped, G!Shared
<1>4. /\ mutexKnown' \in [G!Shared -> Nat]
      /\ \A v \in G!Shared : mutexKnown'[v] \in 1 .. Len(stores[v]) /\ mutexKnown'[v] >= mutexKnown[v]
  BY <1>1, <1>3 DEF G!Later
<1>5. /\ \A u \in Loggers : u # t => logPc'[u] = logPc[u] /\ logPc[u] # "calling"
      /\ logPc'[t] = "idle"
  BY <1>1 DEF LoggingInv, LoggingTyped, Statements
<1>6. LoggingTyped'
  BY <1>1, <1>4 DEF LoggingInv, LoggingTyped
<1>7. Emptiness'
  BY <1>1, <1>3, <1>4 DEF LoggingInv, Emptiness
<1>8. Minimal'
  <2>1. \A u \in Loggers : logPc'[u] = "update" <=> logPc[u] = "update"
    BY <1>1, <1>5
  <2>2. mutexKnown["g_dbg_sev"] = Len(stores["g_dbg_sev"]) => mutexKnown'["g_dbg_sev"] = Len(stores["g_dbg_sev"])
    BY <1>3, <1>4
  <2>3. QED
    BY <1>1, <2>1, <2>2 DEF LoggingInv, Minimal
<1>9. Statements'
  BY <1>1, <1>5 DEF LoggingInv, Statements, EachSinkOnce, G!ToSet
<1>10. QED
  BY <1>2, <1>6, <1>7, <1>8, <1>9 DEF LoggingInv

LEMMA SinkAdded ==
  ASSUME NEW s \in Seq(Sinks), EachSinkOnce(s), NEW x \in Sinks, x \notin G!ToSet(s)
  PROVE  /\ <<x>> \o s \in Seq(Sinks) /\ EachSinkOnce(<<x>> \o s) /\ <<x>> \o s # << >>
         /\ G!ToSet(s) \subseteq G!ToSet(<<x>> \o s)
<1> DEFINE r == <<x>> \o s
<1>1. /\ <<x>> \in Seq(Sinks) /\ Len(<<x>>) = 1 /\ <<x>>[1] = x /\ Len(s) \in Nat
  BY LenProperties
<1>2. /\ r \in Seq(Sinks) /\ Len(r) = 1 + Len(s)
      /\ \A i \in 1 .. 1 + Len(s) : r[i] = IF i <= 1 THEN <<x>>[i] ELSE s[i - 1]
  BY <1>1, ConcatProperties
<1> HIDE DEF r
<1>3. /\ r[1] = x /\ \A i \in 1 .. Len(r) : i = 1 \/ (i - 1 \in 1 .. Len(s) /\ r[i] = s[i - 1])
      /\ \A i \in 1 .. Len(s) : i + 1 \in 1 .. Len(r) /\ r[i + 1] = s[i]
  BY <1>1, <1>2
<1>4. \A i \in 1 .. Len(s) : s[i] # x
  BY ToSetIs
<1>5. EachSinkOnce(r)
  <2>1. ASSUME NEW i \in 1 .. Len(r), NEW j \in 1 .. Len(r), r[i] = r[j]
        PROVE  i = j
    <3>1. CASE i = 1 /\ j = 1
      BY <3>1
    <3>2. CASE i = 1 /\ j # 1
      BY <1>3, <1>4, <2>1, <3>2
    <3>3. CASE i # 1 /\ j = 1
      BY <1>3, <1>4, <2>1, <3>3
    <3>4. CASE i # 1 /\ j # 1
      <4>1. i - 1 \in 1 .. Len(s) /\ j - 1 \in 1 .. Len(s) /\ s[i - 1] = s[j - 1]
        BY <1>3, <2>1, <3>4
      <4>2. i - 1 = j - 1
        BY <4>1 DEF EachSinkOnce
      <4>3. QED
        BY <4>2, <2>1, <1>2, <1>1
    <3>5. QED
      BY <3>1, <3>2, <3>3, <3>4
  <2>2. QED
    BY <2>1 DEF EachSinkOnce
<1>6. r # << >>
  BY <1>1, <1>2, EmptySeq
<1>7. G!ToSet(s) \subseteq G!ToSet(r)
  <2>1. ASSUME NEW y \in G!ToSet(s)
        PROVE  y \in G!ToSet(r)
    <3>1. PICK i \in 1 .. Len(s) : s[i] = y
      BY <2>1, ToSetIs
    <3>2. i + 1 \in 1 .. Len(r) /\ r[i + 1] = y
      BY <1>3, <3>1
    <3>3. QED
      BY <1>2, <3>2, ToSetIs
  <2>2. QED
    BY <2>1
<1>8. QED
  BY <1>2, <1>5, <1>6, <1>7 DEF r

LEMMA SinkRemoved ==
  ASSUME NEW s \in Seq(Sinks), EachSinkOnce(s), NEW k \in 1 .. Len(s)
  PROVE  G!RemoveAt(s, k) \in Seq(Sinks) /\ EachSinkOnce(G!RemoveAt(s, k))
<1> DEFINE f == SubSeq(s, 1, k - 1)
           b == SubSeq(s, k + 1, Len(s))
           r == f \o b
<1>1. Len(s) \in Nat /\ k \in Int /\ \A i \in 1 .. Len(s) : s[i] \in Sinks
  BY LenProperties, ElementOfSeq
<1>2. f \in Seq(Sinks) /\ Len(f) = k - 1 /\ \A i \in 1 .. k - 1 : f[i] = s[i]
  <2>1. \A i \in 1 .. k - 1 : s[i] \in Sinks
    BY <1>1
  <2>2. /\ f \in Seq(Sinks) /\ Len(f) = IF 1 <= k - 1 THEN (k - 1) - 1 + 1 ELSE 0
        /\ \A i \in 1 .. (k - 1) - 1 + 1 : f[i] = s[1 + i - 1]
    BY <1>1, <2>1, SubSeqProperties
  <2> HIDE DEF f
  <2>3. (k - 1) - 1 + 1 = k - 1 /\ \A i \in 1 .. k - 1 : 1 + i - 1 = i
    BY <1>1
  <2>4. Len(f) = k - 1
    BY <1>1, <2>2
  <2>5. QED
    BY <2>2, <2>3, <2>4
<1>3. b \in Seq(Sinks) /\ Len(b) = Len(s) - k /\ \A i \in 1 .. Len(s) - k : b[i] = s[k + i]
  <2>1. \A i \in k + 1 .. Len(s) : s[i] \in Sinks
    BY <1>1
  <2>2. /\ b \in Seq(Sinks) /\ Len(b) = IF k + 1 <= Len(s) THEN Len(s) - (k + 1) + 1 ELSE 0
        /\ \A i \in 1 .. Len(s) - (k + 1) + 1 : b[i] = s[(k + 1) + i - 1]
    BY <1>1, <2>1, SubSeqProperties
  <2> HIDE DEF b
  <2>3. Len(s) - (k + 1) + 1 = Len(s) - k /\ \A i \in 1 .. Len(s) - k : (k + 1) + i - 1 = k + i
    BY <1>1
  <2>4. Len(b) = Len(s) - k
    BY <1>1, <2>2
  <2>5. QED
    BY <2>2, <2>3, <2>4
<1>4. G!RemoveAt(s, k) = r
  BY DEF G!RemoveAt
<1> HIDE DEF f, b
<1>5. /\ r \in Seq(Sinks) /\ Len(r) = Len(f) + Len(b)
      /\ \A i \in 1 .. Len(f) + Len(b) : r[i] = IF i <= Len(f) THEN f[i] ELSE b[i - Len(f)]
  BY <1>2, <1>3, ConcatProperties
<1> HIDE DEF r
<1>6. \A i \in 1 .. Len(r) :
        \/ i < k /\ r[i] = s[i] /\ i \in 1 .. Len(s)
        \/ i >= k /\ r[i] = s[i + 1] /\ i + 1 \in 1 .. Len(s)
  <2>1. ASSUME NEW i \in 1 .. Len(r), i < k PROVE r[i] = s[i] /\ i \in 1 .. Len(s)
    BY <1>1, <1>2, <1>3, <1>5, <2>1
  <2>2. ASSUME NEW i \in 1 .. Len(r), i >= k PROVE r[i] = s[i + 1] /\ i + 1 \in 1 .. Len(s)
    <3>1. /\ ~(i <= Len(f)) /\ i - Len(f) = i - k + 1 /\ i - k + 1 \in 1 .. Len(s) - k
          /\ k + (i - k + 1) = i + 1
      BY <1>1, <1>2, <1>3, <1>5, <2>2
    <3>2. r[i] = b[i - k + 1]
      BY <1>5, <3>1
    <3>3. QED
      BY <1>1, <1>3, <3>1, <3>2
  <2>3. \A i \in 1 .. Len(r) : i < k \/ i >= k
    BY <1>1
  <2>4. ASSUME NEW i \in 1 .. Len(r)
        PROVE  \/ i < k /\ r[i] = s[i] /\ i \in 1 .. Len(s)
               \/ i >= k /\ r[i] = s[i + 1] /\ i + 1 \in 1 .. Len(s)
    <3>1. CASE i < k
      BY <2>1, <3>1
    <3>2. CASE i >= k
      BY <2>2, <3>2
    <3>3. QED
      BY <2>3, <3>1, <3>2
  <2>5. QED
    BY <2>4
<1>7. EachSinkOnce(r)
  <2>1. ASSUME NEW i \in 1 .. Len(r), NEW j \in 1 .. Len(r), r[i] = r[j]
        PROVE  i = j
    BY <1>1, <1>6, <2>1 DEF EachSinkOnce
  <2>2. QED
    BY <2>1 DEF EachSinkOnce
<1>8. QED
  BY <1>4, <1>5, <1>7

(* The steps that change the list or the levels, all but the store of      *)
(* g_dbg_sev.                                                              *)
LEMMA ChangeKeeps ==
  ASSUME Severed, LoggingInv, NEW t \in Loggers, NEW e, G!UpdateMinLogSeverity(t, e),
         streams_' \in Seq(Sinks), EachSinkOnce(streams_'), min_severity_' \in [Sinks -> G!Severities],
         \A s \in G!ToSet(streams_) : min_severity_'[s] = min_severity_[s],
         \/ e = << >> /\ (streams_' = << >> <=> streams_ = << >>)
         \/ \E b \in BOOLEAN : e = <<b>> /\ (b <=> streams_' = << >>),
         logMutex = Free, UNCHANGED <<logMutex, severity, left, missed>>,
         logPc' = [logPc EXCEPT ![t] = "idle"]
  PROVE  LoggingInv'
<1>1. logPc'[t] = "idle" /\ \A u \in Loggers : u # t => logPc'[u] = logPc[u]
  BY DEF LoggingInv, LoggingTyped
<1>2. /\ stores' = [v \in G!Shared |-> stores'[v]]
      /\ stores'["streams_empty_"] \in Seq(BOOLEAN)
      /\ stores'["g_dbg_sev"] \in Seq(G!Severities) /\ stores'["g_min_sev"] \in Seq(G!Severities)
      /\ known' \in [Loggers -> [G!Shared -> Nat]] /\ mutexKnown' \in [G!Shared -> Nat]
      /\ \A v \in G!Shared : /\ mutexKnown'[v] \in 1 .. Len(stores'[v])
                             /\ \A u \in Loggers : known'[u][v] \in 1 .. Len(stores'[v])
      /\ sees' \in [Loggers -> SUBSET Sinks] /\ owed' \in [Loggers -> SUBSET Sinks]
      /\ \A u \in Loggers : /\ sees'[u] \subseteq G!ToSet(streams_')
                            /\ owed'[u] = owed[u] \cap G!ToSet(streams_')
      /\ Emptiness' /\ Minimal'
  BY <1>1, UpdateKeeps
<1>3. LoggingTyped'
  BY <1>1, <1>2 DEF LoggingInv, LoggingTyped, G!Severities
<1>4. Statements'
  <2>1. \A u \in Loggers : logPc'[u] # "calling"
    BY <1>1 DEF Severed, LoggingInv, Statements
  <2>2. ASSUME NEW u \in Loggers, logPc'[u] = "lock", NEW s \in owed'[u]
        PROVE  severity'[u] >= min_severity_'[s]
    <3>1. s \in owed[u] /\ logPc[u] = "lock" /\ s \in G!ToSet(streams_)
      BY <1>1, <1>2, <2>2 DEF LoggingInv, Statements
    <3>2. min_severity_'[s] = min_severity_[s] /\ severity[u] >= min_severity_[s]
      BY <3>1 DEF LoggingInv, Statements
    <3>3. QED
      BY <3>2
  <2>3. EachSinkOnce(streams_)' /\ G!ToSet(streams_)' = G!ToSet(streams_')
    BY DEF EachSinkOnce, G!ToSet
  <2>4. QED
    BY <1>2, <2>1, <2>2, <2>3 DEF Statements
<1>5. QED
  BY <1>2, <1>3, <1>4 DEF LoggingInv

LEMMA AddKeeps ==
  ASSUME Severed, LoggingInv, NEW t \in Loggers, NEW s \in Sinks, NEW sev \in G!Severities,
         G!AddLogToStream(t, s, sev)
  PROVE  LoggingInv'
<1>1. /\ logPc[t] = "idle" /\ logMutex = Free /\ s \notin G!ToSet(streams_)
      /\ streams_' = <<s>> \o streams_
      /\ min_severity_' = [min_severity_ EXCEPT ![s] = sev]
      /\ G!UpdateMinLogSeverity(t, <<FALSE>>)
      /\ UNCHANGED <<logMutex, logPc, severity, left, missed>>
  BY DEF G!AddLogToStream
<1>2. streams_' \in Seq(Sinks) /\ EachSinkOnce(streams_') /\ streams_' # << >>
  BY <1>1, SinkAdded DEF LoggingInv, LoggingTyped, Statements
<1>3. /\ min_severity_' \in [Sinks -> G!Severities]
      /\ \A x \in G!ToSet(streams_) : min_severity_'[x] = min_severity_[x]
  BY <1>1, ToSetIs DEF LoggingInv, LoggingTyped
<1>4. logPc' = [logPc EXCEPT ![t] = "idle"]
  BY <1>1 DEF LoggingInv, LoggingTyped
<1>5. \E b \in BOOLEAN : <<FALSE>> = <<b>> /\ (b <=> streams_' = << >>)
  BY <1>2
<1>6. QED
  BY <1>1, <1>2, <1>3, <1>4, <1>5, ChangeKeeps

LEMMA RemoveKeeps ==
  ASSUME Severed, LoggingInv, NEW t \in Loggers, NEW s \in Sinks, G!RemoveLogToStream(t, s)
  PROVE  LoggingInv'
<1>1. /\ logPc[t] = "idle" /\ logMutex = Free
      /\ \/ streams_' = streams_
         \/ \E i \in DOMAIN streams_ : streams_' = G!RemoveAt(streams_, i)
      /\ G!UpdateMinLogSeverity(t, <<streams_' = << >>>>)
      /\ UNCHANGED <<min_severity_, logMutex, logPc, severity, left, missed>>
  BY DEF G!RemoveLogToStream
<1>2. streams_' \in Seq(Sinks) /\ EachSinkOnce(streams_')
  <2>1. streams_ \in Seq(Sinks) /\ EachSinkOnce(streams_) /\ DOMAIN streams_ = 1 .. Len(streams_)
    BY LenProperties DEF LoggingInv, LoggingTyped, Statements
  <2>2. CASE streams_' = streams_
    BY <2>1, <2>2
  <2>3. ASSUME NEW i \in DOMAIN streams_, streams_' = G!RemoveAt(streams_, i)
        PROVE  <1>2
    BY <2>1, <2>3, SinkRemoved
  <2>4. QED
    BY <1>1, <2>2, <2>3
<1>3. min_severity_' \in [Sinks -> G!Severities]
  BY <1>1 DEF LoggingInv, LoggingTyped
<1>4. logPc' = [logPc EXCEPT ![t] = "idle"]
  BY <1>1 DEF LoggingInv, LoggingTyped
<1>5. \E b \in BOOLEAN : <<streams_' = << >>>> = <<b>> /\ (b <=> streams_' = << >>)
  <2>1. (streams_' = << >>) \in BOOLEAN
    OBVIOUS
  <2>2. QED
    BY <2>1
<1>6. QED
  BY <1>1, <1>2, <1>3, <1>4, <1>5, ChangeKeeps

LEMMA LogToDebugUpdatesKeeps ==
  ASSUME Severed, LoggingInv, NEW t \in Loggers, G!LogToDebugUpdates(t)
  PROVE  LoggingInv'
<1>1. /\ logMutex = Free /\ G!UpdateMinLogSeverity(t, << >>)
      /\ logPc' = [logPc EXCEPT ![t] = "idle"]
      /\ UNCHANGED <<streams_, min_severity_, logMutex, severity, left, missed>>
  BY DEF G!LogToDebugUpdates
<1>2. streams_' \in Seq(Sinks) /\ EachSinkOnce(streams_') /\ min_severity_' \in [Sinks -> G!Severities]
  BY <1>1 DEF LoggingInv, LoggingTyped, Statements
<1>3. QED
  BY <1>1, <1>2, ChangeKeeps

LEMMA DebugStoreKeeps ==
  ASSUME Severed, LoggingInv, NEW t \in Loggers, NEW x \in G!Severities,
         stores' = [stores EXCEPT !["g_dbg_sev"] = Append(@, x)],
         known' = [known EXCEPT ![t]["g_dbg_sev"] = Len(stores'["g_dbg_sev"])],
         logPc' = [logPc EXCEPT ![t] = "update"], logPc[t] \in {"idle", "store"},
         UNCHANGED <<streams_, min_severity_, mutexKnown, logMutex, severity, left, sees, owed, missed>>
  PROVE  LoggingInv'
<1>1. /\ G!Shared = {"g_dbg_sev", "g_min_sev", "streams_empty_"}
      /\ stores["g_dbg_sev"] \in Seq(G!Severities)
      /\ \A v \in G!Shared : /\ mutexKnown[v] \in 1 .. Len(stores[v]) /\ Len(stores[v]) \in Nat
                             /\ \A u \in Loggers : known[u][v] \in 1 .. Len(stores[v])
  BY LenProperties DEF LoggingInv, LoggingTyped, G!Shared
<1>2. /\ stores' = [v \in G!Shared |-> stores'[v]]
      /\ stores'["g_dbg_sev"] = Append(stores["g_dbg_sev"], x)
      /\ stores'["g_min_sev"] = stores["g_min_sev"] /\ stores'["streams_empty_"] = stores["streams_empty_"]
  BY <1>1 DEF LoggingInv, LoggingTyped
<1>3. /\ stores'["g_dbg_sev"] \in Seq(G!Severities)
      /\ Len(stores'["g_dbg_sev"]) = Len(stores["g_dbg_sev"]) + 1
  BY <1>1, <1>2, Appended
<1>4. /\ \A u \in Loggers : u # t => known'[u] = known[u]
      /\ \A v \in G!Shared : known'[t][v] = IF v = "g_dbg_sev" THEN Len(stores'["g_dbg_sev"]) ELSE known[t][v]
      /\ known' \in [Loggers -> [G!Shared -> Nat]]
  <2>1. /\ known \in [Loggers -> [G!Shared -> Nat]] /\ Len(stores'["g_dbg_sev"]) \in Nat
        /\ "g_dbg_sev" \in G!Shared
    <3>1. Len(stores'["g_dbg_sev"]) \in Nat
      BY <1>3, LenProperties
    <3>2. QED
      BY <1>1, <3>1 DEF LoggingInv, LoggingTyped
  <2>2. known' = [known EXCEPT ![t] = [known[t] EXCEPT !["g_dbg_sev"] = Len(stores'["g_dbg_sev"])]]
    BY <2>1
  <2>3. QED
    BY <2>1, <2>2
<1>5. ASSUME NEW v \in G!Shared
      PROVE  /\ mutexKnown'[v] \in 1 .. Len(stores'[v])
             /\ \A u \in Loggers : known'[u][v] \in 1 .. Len(stores'[v])
  <2>1. CASE v = "g_dbg_sev"
    BY <1>1, <1>3, <1>4, <2>1
  <2>2. CASE v # "g_dbg_sev"
    <3>1. stores'[v] = stores[v]
      BY <1>1, <1>2, <2>2
    <3>2. \A u \in Loggers : known'[u][v] = known[u][v]
      BY <1>4, <2>2
    <3>3. QED
      BY <1>1, <3>1, <3>2
  <2>3. QED
    BY <2>1, <2>2
<1>6. logPc'[t] = "update" /\ \A u \in Loggers : u # t => logPc'[u] = logPc[u]
  BY DEF LoggingInv, LoggingTyped
<1>7. LoggingTyped'
  <2>1. logPc' \in [Loggers -> {"idle", "lock", "calling", "store", "update"}]
    BY DEF LoggingInv, LoggingTyped
  <2>2. stores'["streams_empty_"] \in Seq(BOOLEAN) /\ stores'["g_min_sev"] \in Seq(G!Severities)
    BY <1>2 DEF LoggingInv, LoggingTyped
  <2>3. QED
    BY <1>2, <1>3, <1>4, <1>5, <2>1, <2>2 DEF LoggingInv, LoggingTyped, G!Severities
<1>8. Emptiness'
  <2>1. \A u \in Loggers : known'[u]["streams_empty_"] = known[u]["streams_empty_"]
    BY <1>1, <1>4
  <2>2. QED
    BY <1>2, <2>1 DEF LoggingInv, Emptiness
<1>9. Minimal'
  BY <1>1, <1>4, <1>6 DEF Minimal
<1>10. Statements'
  <2>1. /\ EachSinkOnce(streams_)' <=> EachSinkOnce(streams_)
        /\ G!ToSet(streams_)' = G!ToSet(streams_)
        /\ \A u \in Loggers : /\ EachSinkOnce(left[u])' <=> EachSinkOnce(left[u])
                              /\ G!ToSet(left[u])' = G!ToSet(left[u])
    BY <1>6 DEF EachSinkOnce, G!ToSet
  <2>2. QED
    BY <1>6, <2>1 DEF LoggingInv, Statements
<1>11. QED
  BY <1>7, <1>8, <1>9, <1>10 DEF LoggingInv

LEMMA ConfigureKeeps ==
  ASSUME Severed, LoggingInv, NEW t \in Loggers, G!ConfigureLogging(t)
  PROVE  LoggingInv'
<1>1. PICK dbg \in G!CanRead(t, "g_dbg_sev") : severity' = [severity EXCEPT ![t] = dbg]
  BY DEF G!ConfigureLogging
<1>2. /\ logPc[t] = "idle" /\ logPc' = [logPc EXCEPT ![t] = "store"]
      /\ UNCHANGED <<streams_, min_severity_, stores, known, mutexKnown, logMutex, left, sees, owed, missed>>
  BY DEF G!ConfigureLogging
<1>3. dbg \in G!Severities
  <2>1. PICK i \in known[t]["g_dbg_sev"] .. Len(stores["g_dbg_sev"]) : dbg = stores["g_dbg_sev"][i]
    BY DEF G!CanRead
  <2>2. /\ "g_dbg_sev" \in G!Shared /\ stores["g_dbg_sev"] \in Seq(G!Severities)
        /\ Len(stores["g_dbg_sev"]) \in Nat
    BY LenProperties DEF LoggingInv, LoggingTyped, G!Shared
  <2>3. known[t]["g_dbg_sev"] \in 1 .. Len(stores["g_dbg_sev"])
    BY <2>2 DEF LoggingInv, LoggingTyped
  <2>4. i \in 1 .. Len(stores["g_dbg_sev"])
    BY <2>1, <2>2, <2>3
  <2>5. QED
    BY <2>1, <2>2, <2>4, ElementOfSeq
<1>4. /\ \A u \in Loggers : u # t => logPc'[u] = logPc[u] /\ severity'[u] = severity[u]
      /\ logPc'[t] = "store"
  BY <1>1, <1>2 DEF LoggingInv, LoggingTyped
<1>5. LoggingTyped'
  <2>1. /\ severity' \in [Loggers -> G!Severities]
        /\ logPc' \in [Loggers -> {"idle", "lock", "calling", "store", "update"}]
    BY <1>1, <1>2, <1>3 DEF LoggingInv, LoggingTyped
  <2>2. QED
    BY <1>2, <2>1 DEF LoggingInv, LoggingTyped, G!Severities
<1>6. Emptiness'
  BY <1>2 DEF LoggingInv, Emptiness
<1>7. Minimal'
  <2>1. \A u \in Loggers : logPc'[u] = "update" <=> logPc[u] = "update"
    BY <1>2, <1>4
  <2>2. QED
    BY <1>2, <2>1 DEF LoggingInv, Minimal
<1>8. Statements'
  <2>1. /\ EachSinkOnce(streams_)' <=> EachSinkOnce(streams_)
        /\ G!ToSet(streams_)' = G!ToSet(streams_)
        /\ \A u \in Loggers : /\ EachSinkOnce(left[u])' <=> EachSinkOnce(left[u])
                              /\ G!ToSet(left[u])' = G!ToSet(left[u])
    BY <1>2 DEF EachSinkOnce, G!ToSet
  <2>2. QED
    BY <1>2, <1>4, <2>1 DEF LoggingInv, Statements
<1>9. QED
  BY <1>2, <1>5, <1>6, <1>7, <1>8 DEF LoggingInv

LEMMA LoggersKeep ==
  ASSUME Severed, LoggingInv, [G!Next]_G!vars
  PROVE  LoggingInv'
<1>2. ASSUME NEW t \in Loggers, NEW sev \in G!Severities, G!LogToDebug(t, sev)
      PROVE  LoggingInv'
  BY <1>2, DebugStoreKeeps DEF G!LogToDebug
<1>3. ASSUME NEW t \in Loggers, G!ConfigureStores(t)
      PROVE  LoggingInv'
  <2>1. severity[t] \in G!Severities
    BY DEF LoggingInv, LoggingTyped
  <2>2. QED
    BY <1>3, <2>1, DebugStoreKeeps DEF G!ConfigureStores
<1>4. CASE UNCHANGED G!vars
  <2>1. LoggingTyped'
    BY <1>4 DEF G!vars, LoggingInv, LoggingTyped, G!Severities
  <2>2. Emptiness' /\ Minimal'
    BY <1>4 DEF G!vars, LoggingInv, Emptiness, Minimal
  <2>3. Statements'
    <3>1. /\ EachSinkOnce(streams_)' <=> EachSinkOnce(streams_)
          /\ G!ToSet(streams_)' = G!ToSet(streams_)
          /\ \A u \in Loggers : /\ EachSinkOnce(left[u])' <=> EachSinkOnce(left[u])
                                /\ G!ToSet(left[u])' = G!ToSet(left[u])
      BY <1>4 DEF G!vars, EachSinkOnce, G!ToSet
    <3>2. QED
      BY <1>4, <3>1 DEF G!vars, LoggingInv, Statements
  <2>4. QED
    BY <1>4, <2>1, <2>2, <2>3 DEF G!vars, LoggingInv
<1>5. ASSUME NEW t \in Loggers,
             \/ \E sev \in G!Severities \ {None} : G!Log(t, sev)
             \/ \E sev \in G!Severities : \E s \in Sinks : G!AddLogToStream(t, s, sev)
             \/ \E s \in Sinks : G!RemoveLogToStream(t, s)
             \/ G!ConfigureLogging(t) \/ G!LogToDebugUpdates(t)
             \/ G!LockStreams(t) \/ G!OnLogMessage(t) \/ G!Logged(t)
      PROVE  LoggingInv'
  BY <1>5, LogKeeps, AddKeeps, RemoveKeeps, ConfigureKeeps, LogToDebugUpdatesKeeps, LockStreamsKeeps,
     OnLogMessageKeeps, LoggedKeeps
<1>6. QED
  BY <1>2, <1>3, <1>4, <1>5 DEF G!Next

LEMMA LoggingStarts ==
  ASSUME Severed, G!Init
  PROVE  LoggingInv
<1>1. /\ streams_ = << >> /\ streams_ \in Seq(Sinks) /\ Len(streams_) = 0
      /\ stores["streams_empty_"] = <<TRUE>>
      /\ stores["g_dbg_sev"] = <<DefaultSeverity>> /\ stores["g_min_sev"] = <<DefaultSeverity>>
      /\ stores = [v \in G!Shared |-> stores[v]]
      /\ DefaultSeverity \in G!Severities
  BY EmptySeq DEF G!Init, Severed, G!Severities, G!Shared
<1>2. /\ <<TRUE>> \in Seq(BOOLEAN) /\ <<DefaultSeverity>> \in Seq(G!Severities)
      /\ Len(<<TRUE>>) = 1 /\ Len(<<DefaultSeverity>>) = 1
      /\ <<TRUE>>[1] = TRUE /\ <<DefaultSeverity>>[1] = DefaultSeverity
  BY <1>1
<1>3. \A v \in G!Shared : Len(stores[v]) = 1
  BY <1>1, <1>2 DEF G!Shared
<1>4. LoggingTyped
  <2>1. None \in G!Severities
    BY DEF Severed, G!Severities
  <2>2. \A v \in G!Shared : /\ mutexKnown[v] \in 1 .. Len(stores[v])
                            /\ \A t \in Loggers : known[t][v] \in 1 .. Len(stores[v])
    BY <1>3 DEF G!Init
  <2>3. left \in [Loggers -> Seq(Sinks)]
    BY EmptySeq DEF G!Init
  <2>4. QED
    BY <1>1, <1>2, <2>1, <2>2, <2>3 DEF G!Init, LoggingTyped
<1>5. G!ToSet(streams_) = {}
  BY <1>1, ToSetIs
<1>6. Emptiness
  BY <1>1, <1>2, <1>3 DEF G!Init, Emptiness, G!Shared
<1>7. Minimal
  <2>1. {min_severity_[s] : s \in G!ToSet(streams_)} = {}
    BY <1>5
  <2>2. G!LowestOf({DefaultSeverity}) = DefaultSeverity
    <3>1. {DefaultSeverity} \in SUBSET Nat /\ {DefaultSeverity} # {}
      BY DEF Severed
    <3>2. QED
      BY <3>1, LowestIs
  <2>3. G!Lowest(streams_, min_severity_, DefaultSeverity) = DefaultSeverity
    BY <2>1, <2>2 DEF G!Lowest
  <2>4. QED
    BY <1>1, <1>2, <1>3, <2>3 DEF G!Init, Minimal, G!Shared
<1>8. Statements
  BY <1>1, <1>5 DEF G!Init, Statements, EachSinkOnce
<1>9. QED
  BY <1>4, <1>6, <1>7, <1>8 DEF G!Init, LoggingInv

(* A log statement reaches every sink that asks for its severity, and what *)
(* the macros compare with is the least severity anybody asks for, however *)
(* many threads add and remove sinks while others log (logging.cc).        *)
THEOREM StatementsReachSinks ==
  ASSUME Severed
  PROVE  G!Spec => []G!LogsReachSinks
<1>1. G!Init => LoggingInv
  BY LoggingStarts
<1>2. LoggingInv /\ [G!Next]_G!vars => LoggingInv'
  BY LoggersKeep
<1>3. ASSUME LoggingInv PROVE G!LogsReachSinks
  <2>1. ASSUME NEW t \in Loggers, logPc[t] = "calling"
        PROVE  G!ToSet(left[t]) \subseteq G!ToSet(streams_) /\ G!IsInjective(left[t])
    <3>1. left[t] \in Seq(Sinks) /\ DOMAIN left[t] = 1 .. Len(left[t])
      BY <1>3, LenProperties DEF LoggingInv, LoggingTyped
    <3>2. QED
      BY <1>3, <2>1, <3>1 DEF LoggingInv, Statements, EachSinkOnce, G!IsInjective
  <2>2. \A v \in G!Shared : G!LastOf(v) = stores[v][Len(stores[v])]
    BY DEF G!LastOf, G!Last
  <2>3. "streams_empty_" \in G!Shared /\ "g_dbg_sev" \in G!Shared /\ "g_min_sev" \in G!Shared
    BY DEF G!Shared
  <2>4. G!LastOf("streams_empty_") <=> streams_ = << >>
    BY <1>3, <2>2, <2>3 DEF LoggingInv, Emptiness
  <2>5. ASSUME \A t \in Loggers : logPc[t] # "update"
        PROVE  G!LastOf("g_min_sev") = G!LowestOf({G!LastOf("g_dbg_sev"), G!GetLogToStream})
    <3>1. /\ stores["g_dbg_sev"] \in Seq(G!Severities)
          /\ Len(stores["g_dbg_sev"]) \in 1 .. Len(stores["g_dbg_sev"])
      BY <1>3, <2>3, LenProperties DEF LoggingInv, LoggingTyped
    <3>2. stores["g_dbg_sev"][Len(stores["g_dbg_sev"])] \in G!Severities
      BY <3>1, ElementOfSeq
    <3>3. G!Lowest(streams_, min_severity_, G!LastOf("g_dbg_sev"))
            = G!LowestOf({G!LastOf("g_dbg_sev"), G!GetLogToStream})
      BY ZenonT(30), <1>3, <2>2, <2>3, <3>2, LowestTyped DEF LoggingInv, LoggingTyped, G!GetLogToStream
    <3>4. QED
      BY <1>3, <2>2, <2>3, <2>5, <3>3 DEF LoggingInv, Minimal
  <2>6. QED
    BY <1>3, <2>1, <2>4, <2>5 DEF G!LogsReachSinks, LoggingInv
<1>4. QED
  BY <1>1, <1>2, <1>3, PTL DEF G!Spec

-----------------------------------------------------------------------------
(* What holds in MCServices, where one of these runs at a time: each runs   *)
(* as its own specification says.                                          *)

LEMMA LockRuns == Spec => L!Spec
<1>1. lockVars' = lockVars => UNCHANGED L!vars
  BY DEF lockVars, L!vars, L!lockVars, L!historyVars
<1>2. [Next]_vars => [L!Next]_L!vars
  BY <1>1 DEF Next, Resolver, RepeatingStep, LockStep, CountStep, Manager, LogStep, Tracer, PolicyStep, CheckerStep, ScopeStep, Others,
          threadVars, vars
<1>3. Init => L!Init
  BY DEF Init
<1>4. QED
  BY <1>2, <1>3, PTL DEF Spec, L!Spec

LEMMA CheckerRuns == Spec => Q!Spec
<1>1. checkerVars' = checkerVars => UNCHANGED Q!vars
  BY DEF checkerVars, Q!vars
<1>2. [Next]_vars => [Q!Next]_Q!vars
  BY <1>1 DEF Next, Resolver, RepeatingStep, LockStep, CountStep, Manager, LogStep, Tracer, PolicyStep, CheckerStep, ScopeStep, Others,
          threadVars, vars
<1>3. Init => Q!Init
  BY DEF Init
<1>4. QED
  BY <1>2, <1>3, PTL DEF Spec, Q!Spec

LEMMA ScopesRun == Spec => N!Spec
<1>1. scopeVars' = scopeVars => UNCHANGED N!vars
  BY DEF scopeVars, N!vars, N!histories
<1>2. [Next]_vars => [N!Next]_N!vars
  BY <1>1 DEF Next, Resolver, RepeatingStep, LockStep, CountStep, Manager, LogStep, Tracer, PolicyStep, CheckerStep, ScopeStep, Others,
          threadVars, vars
<1>3. Init => N!Init
  BY DEF Init
<1>4. QED
  BY <1>2, <1>3, PTL DEF Spec, N!Spec

LEMMA TracerRuns == Spec => T!Spec
<1>1. tracerVars' = tracerVars => UNCHANGED T!vars
  BY DEF tracerVars, T!vars, T!loggerVars, T!threadVars, T!ownerVars, T!tracerVars
<1>2. [Next]_vars => [T!Next]_T!vars
  BY <1>1 DEF Next, Resolver, RepeatingStep, LockStep, CountStep, Manager, LogStep, Tracer, PolicyStep, CheckerStep, ScopeStep, Others,
          threadVars, vars
<1>3. Init => T!Init
  BY DEF Init
<1>4. QED
  BY <1>2, <1>3, PTL DEF Spec, T!Spec

LEMMA CountsRun == Spec => C!Spec
<1>1. countVars' = countVars => UNCHANGED C!vars
  BY DEF countVars, C!vars
<1>2. [Next]_vars => [C!Next]_C!vars
  BY <1>1 DEF Next, Resolver, RepeatingStep, LockStep, CountStep, Manager, LogStep, Tracer, PolicyStep, CheckerStep, ScopeStep, Others,
          threadVars, vars
<1>3. Init => C!Init
  BY DEF Init
<1>4. QED
  BY <1>2, <1>3, PTL DEF Spec, C!Spec

LEMMA LoggingRuns == Spec => G!Spec
<1>1. logVars' = logVars => UNCHANGED G!vars
  BY DEF logVars, G!vars
<1>2. [Next]_vars => [G!Next]_G!vars
  BY <1>1 DEF Next, Resolver, RepeatingStep, LockStep, CountStep, Manager, LogStep, Tracer, PolicyStep, CheckerStep, ScopeStep, Others,
          threadVars, vars
<1>3. Init => G!Init
  BY DEF Init
<1>4. QED
  BY <1>2, <1>3, PTL DEF Spec, G!Spec

(* The lock of recursive_critical_section.cc has one owner at a time, and  *)
(* the places a checker accepts (sequence_checker_internal.cc) cannot run  *)
(* at once.                                                                *)
THEOREM AccessExcludes == Spec => []AccessIsExclusive
<1>1. L!LockIsExclusive /\ Q!OneSequence => AccessIsExclusive
  BY DEF AccessIsExclusive
<1>2. Free \notin Lockers
  BY ServicesAssumption
<1>3. L!Spec => []L!LockIsExclusive
  BY <1>2, LockExcludes
<1>4. QED
  BY <1>1, <1>3, LockRuns, CheckerRuns, OneSequenceIsAccepted, PTL

(* The counts of ref_counter.h are those of the references, and the last   *)
(* one deletes.                                                            *)
THEOREM ReferencesCounted == Spec => []ReferencesAreCounted
<1>1. C!ReferencesAreCounted => ReferencesAreCounted
  BY DEF ReferencesAreCounted
<1>2. Named
  BY ServicesAssumption DEF Named
<1>3. C!Spec => []C!ReferencesAreCounted
  BY <1>2, CountsAreOfReferences
<1>4. QED
  BY <1>1, <1>3, CountsRun, PTL

(* The captures of event_tracer.cc hold what was pushed during them, and   *)
(* the scopes of trace_event.h end what they began.                        *)
THEOREM CaptureStaysClean == Spec => []CaptureIsClean
<1>1. T!CaptureIsClean /\ N!EndsHaveBegins => CaptureIsClean
  BY DEF CaptureIsClean
<1>2. QED
  BY <1>1, TracerRuns, ScopesRun, CapturesAreClean, EndsAreOfBegins, PTL

(* The statements of logging.cc reach the sinks they are for.              *)
THEOREM SinksAreReached == Spec => []LogsReachSinks
<1>1. G!LogsReachSinks => LogsReachSinks
  BY DEF LogsReachSinks
<1>2. Severed
  BY ServicesAssumption DEF Severed
<1>3. G!Spec => []G!LogsReachSinks
  BY <1>2, StatementsReachSinks
<1>4. QED
  BY <1>1, <1>3, LoggingRuns, PTL
===================================================================================
