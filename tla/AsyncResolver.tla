----------------------------- MODULE AsyncResolver -----------------------------
(***************************************************************************)
(* The resolver of host names (rtc_base/async_resolver.cc).  A detached    *)
(* thread resolves and posts the result to the task queue the resolver was *)
(* started on; meanwhile, or in the callback itself, the owner may destroy *)
(* the resolver, and after it the queue.  What the two sides share is a    *)
(* reference-counted State with a mutex.  Destroy may also come from       *)
(* another thread, as the last call (async_resolver.h:38-41).              *)
(*                                                                         *)
(* A build without RTC_DCHECK_IS_ON, where the destructor runs on any      *)
(* thread.  What follows the use of a deleted resolver is not modelled.    *)
(***************************************************************************)
EXTENDS Integers, Sequences

CONSTANTS Starts,    \* the resolutions the owner may start
          NoStart

VARIABLES
  resolver,          \* "new", "live" or "deleted"
  status,            \* of the State: "kLive" or "kDead"
  mutex,             \* the resolution that holds the State's mutex, or NoStart
  recursion_check_,
  destroy_called_,
  error_,
  thread,            \* what the thread of each resolution does
  result,            \* what each resolution found: 0 or an error
  queue,             \* the posted results, or <<>> once the queue is deleted
  queueLives,
  owner,             \* what the queue's sequence does: pc, and of which result
  elsewhere,         \* a Destroy on another thread: "none", what it is to do,
                     \* "clear" or "delete", or "done"
  met,               \* history: it met the handling of a result
  signals            \* history: how often each result was signalled

sharedVars == <<status, mutex>>
resolverVars == <<resolver, recursion_check_, destroy_called_, error_>>
queueVars == <<queue, queueLives, owner>>
elsewhereVars == <<elsewhere, met>>
vars == <<sharedVars, resolverVars, thread, result, queueVars, elsewhereVars, signals>>

Idle == [pc |-> "idle", run |-> NoStart]

Init ==
  /\ resolver = "new"
  /\ status = "kLive"
  /\ mutex = NoStart
  /\ recursion_check_ = FALSE
  /\ destroy_called_ = FALSE
  /\ error_ = -1
  /\ thread = [r \in Starts |-> "none"]
  /\ result = [r \in Starts |-> 0]
  /\ queue = << >>
  /\ queueLives = TRUE
  /\ owner = Idle
  /\ elsewhere = "none" /\ met = FALSE
  /\ signals = [r \in Starts |-> 0]

-----------------------------------------------------------------------------
(* The owner's calls, between two tasks of its queue or in the callback *)

MayCall == owner.pc \in {"idle", "signal"} /\ resolver # "deleted" /\ ~destroy_called_

Start(r) ==
  /\ MayCall /\ thread[r] = "none"
  /\ resolver' = "live"
  /\ thread' = [thread EXCEPT ![r] = "resolve"]
  /\ UNCHANGED <<sharedVars, recursion_check_, destroy_called_, error_, result, queueVars,
                 elsewhereVars, signals>>

(* The destructor waits for a thread that is posting. *)
Destructor ==
  /\ mutex = NoStart
  /\ resolver' = "deleted"
  /\ status' = "kDead"

(* Within the callback the first call only clears the mark, and the second *)
(* one, after the callback, deletes.                                       *)
MaybeSelfDestruct ==
  IF ~recursion_check_
    THEN Destructor /\ UNCHANGED recursion_check_
    ELSE recursion_check_' = FALSE /\ UNCHANGED <<resolver, status>>

Destroy ==
  /\ MayCall
  /\ destroy_called_' = TRUE
  /\ MaybeSelfDestruct
  /\ UNCHANGED <<mutex, error_, thread, result, queueVars, elsewhereVars, signals>>

(* On another thread it may look at the mark at any moment, and do what it *)
(* then has to at a later one.                                             *)
DestroyElsewhere ==
  /\ resolver # "deleted" /\ ~destroy_called_
  /\ destroy_called_' = TRUE
  /\ elsewhere' = IF recursion_check_ THEN "clear" ELSE "delete"
  /\ met' = (owner.pc # "idle")
  /\ UNCHANGED <<sharedVars, resolver, recursion_check_, error_, thread, result, queueVars, signals>>

ElsewhereGoesOn ==
  /\ \/ elsewhere = "clear" /\ recursion_check_' = FALSE /\ UNCHANGED <<resolver, status>>
     \/ elsewhere = "delete" /\ Destructor /\ UNCHANGED recursion_check_
  /\ elsewhere' = "done"
  /\ met' = (met \/ owner.pc # "idle")
  /\ UNCHANGED <<mutex, destroy_called_, error_, thread, result, queueVars, signals>>

(* The owner's queue goes once the resolver is gone.                       *)
DeleteQueue ==
  /\ queueLives /\ resolver = "deleted" /\ owner.pc = "idle"
  /\ queueLives' = FALSE /\ queue' = << >>
  /\ UNCHANGED <<sharedVars, resolverVars, thread, result, owner, elsewhereVars, signals>>

-----------------------------------------------------------------------------
(* The thread of a resolution *)

Resolve(r) ==
  /\ thread[r] = "resolve"
  /\ \E error \in {0, 1} : result' = [result EXCEPT ![r] = error]
  /\ thread' = [thread EXCEPT ![r] = "lock"]
  /\ UNCHANGED <<sharedVars, resolverVars, queueVars, elsewhereVars, signals>>

(* It looks at the status and posts under one hold of the mutex.           *)
LockState(r) ==
  /\ thread[r] = "lock" /\ mutex = NoStart
  /\ IF status = "kLive"
       THEN mutex' = r /\ thread' = [thread EXCEPT ![r] = "post"]
       ELSE thread' = [thread EXCEPT ![r] = "done"] /\ UNCHANGED mutex
  /\ UNCHANGED <<status, resolverVars, result, queueVars, elsewhereVars, signals>>

PostResult(r) ==
  /\ thread[r] = "post"
  /\ queue' = IF queueLives THEN Append(queue, r) ELSE queue
  /\ mutex' = NoStart
  /\ thread' = [thread EXCEPT ![r] = "done"]
  /\ UNCHANGED <<status, resolverVars, result, queueLives, owner, elsewhereVars, signals>>

-----------------------------------------------------------------------------
(* The posted task *)

RunTask ==
  /\ owner.pc = "idle" /\ queue # << >> /\ mutex = NoStart
  /\ queue' = Tail(queue)
  /\ owner' = IF status = "kLive" THEN [pc |-> "done", run |-> Head(queue)] ELSE Idle
  /\ UNCHANGED <<sharedVars, resolverVars, thread, result, queueLives, elsewhereVars, signals>>

ResolveDone ==
  /\ owner.pc = "done" /\ resolver = "live"
  /\ error_' = result[owner.run]
  /\ recursion_check_' = TRUE
  /\ owner' = [owner EXCEPT !.pc = "signal"]
  /\ signals' = [signals EXCEPT ![owner.run] = @ + 1]
  /\ UNCHANGED <<sharedVars, resolver, destroy_called_, thread, result, queue, queueLives, elsewhereVars>>

(* Mutant: what was asked within the callback is not done after it. *)
SignalReturns_Forgets ==
  /\ owner.pc = "signal" /\ resolver = "live"
  /\ owner' = [owner EXCEPT !.pc = "clear"]
  /\ UNCHANGED <<sharedVars, resolverVars, thread, result, queue, queueLives, elsewhereVars, signals>>

(* It looks at the mark, ...                                               *)
SignalReturns ==
  /\ owner.pc = "signal" /\ resolver = "live"
  /\ owner' = [owner EXCEPT !.pc = IF recursion_check_ THEN "clear" ELSE "delete"]
  /\ UNCHANGED <<sharedVars, resolverVars, thread, result, queue, queueLives, elsewhereVars, signals>>

(* ... and clears it, or deletes the resolver.                             *)
SelfDestructs ==
  /\ resolver = "live"
  /\ \/ owner.pc = "clear" /\ recursion_check_' = FALSE /\ UNCHANGED <<resolver, status>>
     \/ owner.pc = "delete" /\ Destructor /\ UNCHANGED recursion_check_
  /\ owner' = Idle
  /\ UNCHANGED <<mutex, destroy_called_, error_, thread, result, queue, queueLives, elsewhereVars, signals>>

-----------------------------------------------------------------------------

Step ==
  \/ \E r \in Starts : Resolve(r) \/ LockState(r) \/ PostResult(r)
  \/ RunTask \/ ResolveDone \/ SignalReturns \/ SelfDestructs \/ ElsewhereGoesOn
Next == (\E r \in Starts : Start(r)) \/ Destroy \/ DestroyElsewhere \/ DeleteQueue \/ Step

Spec == Init /\ [][Next]_vars

(* The thread runs, and the queue runs its tasks.                          *)
Fairness == WF_vars(Step)
FairSpec == Spec /\ Fairness

(* "Ensure the thread isn't using a stale reference to the current task     *)
(* queue, or calling into ResolveDone post destruction"                    *)
(* (async_resolver.cc:138-139).                                            *)
InUse == owner.pc # "idle"
NotUsedAfterDestroy == InUse => resolver = "live"

(* Neither the queue nor the resolver is used once it is gone: no result   *)
(* is posted to a deleted queue, and neither ResolveDone nor the code after*)
(* the callback runs on a deleted resolver.  The exception, which the code *)
(* really has: a Destroy on another thread that meets the handling of a    *)
(* result, after the look at the status (async_resolver.cc:170).           *)
NoUseAfterDelete ==
  /\ \A r \in Starts : thread[r] = "post" => queueLives
  /\ ~met => NotUsedAfterDestroy

(* Destroy deletes the resolver, at once or when the callback it was       *)
(* called from returns, with the same exception: there both sides may see  *)
(* the mark, and neither deletes.  And a resolver that is not destroyed    *)
(* signals every result exactly once.                                      *)
DestroyedOrSignalled ==
  /\ []<>(destroy_called_ => resolver = "deleted" \/ met)
  /\ \A r \in Starts :
       [](signals[r] <= 1) /\ (thread[r] = "resolve" ~> signals[r] = 1 \/ destroy_called_)
===============================================================================
