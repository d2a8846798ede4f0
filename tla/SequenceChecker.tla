--------------------------- MODULE SequenceChecker ---------------------------
(***************************************************************************)
(* SequenceCheckerImpl (rtc_base/synchronization): is the code that asks   *)
(* the one the checker is attached to?  It attaches at its construction,   *)
(* and after Detach to whoever asks first.                                 *)
(*                                                                         *)
(* A place to run is a thread with a task queue or none, and on Mac a      *)
(* dispatch queue as well.  The lock makes IsCurrent and Detach atomic: the*)
(* place they read before is that of the caller.                           *)
(***************************************************************************)
EXTENDS FiniteSets, Naturals

CONSTANTS CheckedThreads, TaskQueues, SystemQueues,   \* SystemQueues is {} but on Mac
          MaxChecks                                   \* bound: calls

NoQueue == "none"
Places == [thread : CheckedThreads, queue : TaskQueues \cup {NoQueue},
           system : SystemQueues \cup {NoQueue}]

VARIABLES attached_, valid,   \* valid_thread_, valid_queue_ and valid_system_queue_
          accepted,           \* history: the places told yes since it was attached
          checks

vars == <<attached_, valid, accepted, checks>>

Init == attached_ = TRUE /\ valid \in Places /\ accepted = {valid} /\ checks = 0

Matches(place) ==
  IF valid.queue # NoQueue THEN valid.queue = place.queue
  ELSE \/ valid.system # NoQueue /\ valid.system = place.system
       \/ valid.thread = place.thread

IsCurrent(place) ==
  /\ attached_' = TRUE
  /\ valid' = IF attached_ THEN valid ELSE place
  /\ accepted' = IF ~attached_ THEN {place} ELSE IF Matches(place) THEN accepted \cup {place} ELSE accepted

Detach == attached_' = FALSE /\ UNCHANGED <<valid, accepted>>

Next ==
  /\ checks < MaxChecks /\ checks' = checks + 1
  /\ Detach \/ \E place \in Places : IsCurrent(place)

Spec == Init /\ [][Next]_vars

(* Two places that cannot run at once: they share a queue or the thread.   *)
Exclude(a, b) ==
  \/ a.thread = b.thread
  \/ a.queue # NoQueue /\ a.queue = b.queue
  \/ a.system # NoQueue /\ a.system = b.system

(* All who were told yes since the checker was attached exclude each other *)
(* (without dispatch queues; on Mac a thread of one dispatch queue may run *)
(* another, so there each only excludes the place attached to).            *)
OneSequence ==
  /\ \A a \in accepted : Exclude(a, valid)
  /\ SystemQueues = {} => \A a, b \in accepted : Exclude(a, b)
===============================================================================
