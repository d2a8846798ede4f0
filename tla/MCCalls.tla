-------------------------------- MODULE MCCalls ---------------------------------
(***************************************************************************)
(* Threads that call each other, and the event that a thread waits on:     *)
(* `subject' says which one a behaviour is about.  RtcBlockingCall is      *)
(* extended, and uses the event of a socket server as EventContract        *)
(* describes it; PosixEvent, which shows that it may, is an instance.      *)
(***************************************************************************)
EXTENDS RtcBlockingCall, Integers

CONSTANTS EventThreads,  \* the threads that use the event
          EventTimeouts, \* the times it is waited for and warned after, besides kForever
          EventMaxTime   \* bound: MaxTime of PosixEvent

ASSUME EventAssumption == EventTimeouts \subseteq Nat /\ EventMaxTime \in Nat

VARIABLES subject, clock, is_manual_reset_, event_status_, epc, timeout_ts, give_up_ts, result

kForever == -1

E == INSTANCE PosixEvent WITH
  Threads <- EventThreads, Timeouts <- EventTimeouts \cup {kForever},
  MaxTime <- EventMaxTime, now <- clock, pc <- epc

eventVars == <<clock, is_manual_reset_, event_status_, epc, timeout_ts, give_up_ts, result>>
allVars == <<subject, vars, eventVars>>

MCInit ==
  /\ Init /\ E!Init
  /\ \/ subject = "call" /\ ~is_manual_reset_ /\ ~event_status_
     \/ subject = "event" /\ debug

OfCall(A) == subject = "call" /\ A /\ UNCHANGED <<subject, eventVars>>
OfEvent(A) == subject = "event" /\ A /\ UNCHANGED <<subject, vars>>

MCNext == OfCall(Next) \/ OfEvent(E!Next)

(* The fairness of the one that runs.                                      *)
MCFairness ==
  /\ \A p \in Actors : WF_allVars(OfCall(Step(p)))
  /\ \A t \in Threads : WF_allVars(OfCall(LoopStep(t))) /\ WF_allVars(OfCall(QuitStep(t)))
  /\ \A th \in EventThreads :
       WF_allVars(OfEvent(E!Waiting(th))) /\ SF_allVars(OfEvent(E!TimeOut(th)))
  /\ WF_allVars(OfEvent(E!Tick))

MCSpec == MCInit /\ [][MCNext]_allVars /\ MCFairness

-----------------------------------------------------------------------------
(* Each step of the event is one of its contract or changes nothing that   *)
(* a caller sees (event.h).                                                *)
ImplementsEvent == E!ImplementsEvent

(* A set event does not stay set beside a thread that waits for it, and a  *)
(* Wait with a timeout returns, set or not (event.cc).                     *)
WaitsEnd == E!WaitsEnd
==================================================================================
