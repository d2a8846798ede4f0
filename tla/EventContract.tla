---------------------------- MODULE EventContract ----------------------------
(***************************************************************************)
(* What rtc::Event promises (rtc_base/event.h:56-99): Set, Reset and the   *)
(* end of a Wait are each one atomic step on a flag.  The task queues and  *)
(* threads of the repository use the event through this contract.          *)
(***************************************************************************)
EXTENDS Naturals

CONSTANTS Threads,      \* the threads that use the event
          Timeouts,     \* the values given for give_up_after, and kForever
          kForever

VARIABLES now,
          is_manual_reset_, \* the constructor's manual_reset
          event_status_,
          giveUpAt,      \* when each Wait in progress gives up, or kForever; 0 without one
          phase          \* each thread: "idle", "waiting", or its last result

eventVars == <<now, is_manual_reset_, event_status_, giveUpAt, phase>>

NotWaiting(th) == phase[th] # "waiting"

Init ==
  /\ now = 0
  /\ is_manual_reset_ \in BOOLEAN
  /\ event_status_ \in BOOLEAN
  /\ giveUpAt = [th \in Threads |-> 0]
  /\ phase = [th \in Threads |-> "idle"]

Set ==
  /\ event_status_' = TRUE
  /\ UNCHANGED <<now, is_manual_reset_, giveUpAt, phase>>

Reset ==
  /\ event_status_' = FALSE
  /\ UNCHANGED <<now, is_manual_reset_, giveUpAt, phase>>

BeginWait(th, timeout) ==
  /\ NotWaiting(th)
  /\ phase' = [phase EXCEPT ![th] = "waiting"]
  /\ giveUpAt' = [giveUpAt EXCEPT ![th] =
                    IF timeout = kForever THEN kForever ELSE now + timeout]
  /\ UNCHANGED <<now, is_manual_reset_, event_status_>>

(* A Wait that succeeds takes the signal, unless the reset is manual.      *)
Signaled(th) ==
  /\ phase[th] = "waiting"
  /\ event_status_
  /\ event_status_' = is_manual_reset_
  /\ phase' = [phase EXCEPT ![th] = "signaled"]
  /\ giveUpAt' = [giveUpAt EXCEPT ![th] = 0]
  /\ UNCHANGED <<now, is_manual_reset_>>

(* A Wait that gives up has waited as long as asked and takes no signal.   *)
GivesUp(th) ==
  /\ phase[th] = "waiting"
  /\ giveUpAt[th] # kForever
  /\ now >= giveUpAt[th]
  /\ phase' = [phase EXCEPT ![th] = "timeout"]
  /\ giveUpAt' = [giveUpAt EXCEPT ![th] = 0]
  /\ UNCHANGED <<now, is_manual_reset_, event_status_>>

Tick ==
  /\ now' = now + 1
  /\ UNCHANGED <<is_manual_reset_, event_status_, giveUpAt, phase>>

Next ==
  \/ Set
  \/ Reset
  \/ \E th \in Threads :
       \/ \E timeout \in Timeouts : BeginWait(th, timeout)
       \/ Signaled(th)
       \/ GivesUp(th)
  \/ Tick

Spec == Init /\ [][Next]_eventVars
==============================================================================
