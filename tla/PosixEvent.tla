----------------------------- MODULE PosixEvent ------------------------------
(***************************************************************************)
(* rtc::Event on POSIX: a flag, a mutex and a condition variable           *)
(* (rtc_base/event.cc:85-206).  A critical section of event_mutex_ is one  *)
(* step; a Wait has several, because pthread_cond_(timed)wait gives the    *)
(* mutex up and can return for a broadcast, for no reason, or with         *)
(* ETIMEDOUT.  A Wait may have two phases: it first waits until warn_ts,   *)
(* logs a warning, and goes on until give_up_ts.                           *)
(***************************************************************************)
EXTENDS Naturals

CONSTANTS Threads,      \* the threads that use the event
          Timeouts,     \* the values given for give_up_after and warn_after
          kForever,
          MaxTime       \* bound: the clock stops here unless a wait needs it

VARIABLES
  now,
  is_manual_reset_, \* the constructor's manual_reset
  event_status_,
  pc,         \* each thread: "idle", "lock", "blocked", "woken", "timedout"
  timeout_ts, \* the instant the current phase of the Wait ends, or kForever
  give_up_ts, \* the instant the Wait ends, or kForever
  result      \* history: what each thread's last Wait returned

vars == <<now, is_manual_reset_, event_status_, pc, timeout_ts, give_up_ts, result>>

-----------------------------------------------------------------------------
Init ==
  /\ now = 0
  /\ is_manual_reset_ \in BOOLEAN
  /\ event_status_ \in BOOLEAN
  /\ pc = [th \in Threads |-> "idle"]
  /\ timeout_ts = [th \in Threads |-> 0]
  /\ give_up_ts = [th \in Threads |-> 0]
  /\ result = [th \in Threads |-> "idle"]

(* Mutant of Set: pthread_cond_signal wakes only one thread.               *)
Set_SignalsOne(th) ==
  /\ pc[th] = "idle"
  /\ event_status_' = TRUE
  /\ IF \E u \in Threads : pc[u] = "blocked"
       THEN \E u \in Threads : /\ pc[u] = "blocked"
                               /\ pc' = [pc EXCEPT ![u] = "woken"]
       ELSE UNCHANGED pc
  /\ UNCHANGED <<now, is_manual_reset_, timeout_ts, give_up_ts, result>>

(* Set broadcasts: every thread blocked on the condition is woken.         *)
Set(th) ==
  /\ pc[th] = "idle"
  /\ event_status_' = TRUE
  /\ pc' = [u \in Threads |-> IF pc[u] = "blocked" THEN "woken" ELSE pc[u]]
  /\ UNCHANGED <<now, is_manual_reset_, timeout_ts, give_up_ts, result>>

Reset(th) ==
  /\ pc[th] = "idle"
  /\ event_status_' = FALSE
  /\ UNCHANGED <<now, is_manual_reset_, pc, timeout_ts, give_up_ts, result>>

-----------------------------------------------------------------------------
(* Wait *)

GetTimespec(duration) == IF duration = kForever THEN kForever ELSE now + duration

(* warn_ts exists only when the warning comes before the end.              *)
Warns(warn_after, give_up_after) ==
  /\ warn_after # kForever
  /\ give_up_after = kForever \/ warn_after < give_up_after

(* The two instants are computed before the mutex is taken.                *)
BeginWait(th, give_up_after, warn_after) ==
  /\ pc[th] = "idle"
  /\ give_up_ts' = [give_up_ts EXCEPT ![th] = GetTimespec(give_up_after)]
  /\ timeout_ts' = [timeout_ts EXCEPT ![th] =
                      IF Warns(warn_after, give_up_after)
                        THEN GetTimespec(warn_after)
                        ELSE GetTimespec(give_up_after)]
  /\ pc' = [pc EXCEPT ![th] = "lock"]
  /\ result' = [result EXCEPT ![th] = "waiting"]
  /\ UNCHANGED <<now, is_manual_reset_, event_status_>>

(* The lambda `wait' with the mutex held: it blocks while the flag is off, *)
(* and otherwise the Wait is over with error 0.                            *)
Holding(th) == pc[th] \in {"lock", "woken"}

Block(th) ==
  /\ Holding(th)
  /\ ~event_status_
  /\ pc' = [pc EXCEPT ![th] = "blocked"]
  /\ UNCHANGED <<now, is_manual_reset_, event_status_, timeout_ts, give_up_ts, result>>

(* The Wait returns, and its locals are gone.                              *)
Return(th, with) ==
  /\ pc' = [pc EXCEPT ![th] = "idle"]
  /\ result' = [result EXCEPT ![th] = with]
  /\ timeout_ts' = [timeout_ts EXCEPT ![th] = 0]
  /\ give_up_ts' = [give_up_ts EXCEPT ![th] = 0]

ReturnTrue(th) ==
  /\ Holding(th)
  /\ event_status_
  /\ event_status_' = is_manual_reset_
  /\ Return(th, "signaled")
  /\ UNCHANGED <<now, is_manual_reset_>>

SpuriousWakeup(th) ==
  /\ pc[th] = "blocked"
  /\ pc' = [pc EXCEPT ![th] = "woken"]
  /\ UNCHANGED <<now, is_manual_reset_, event_status_, timeout_ts, give_up_ts, result>>

TimeOut(th) ==
  /\ pc[th] = "blocked"
  /\ timeout_ts[th] # kForever
  /\ now >= timeout_ts[th]
  /\ pc' = [pc EXCEPT ![th] = "timedout"]
  /\ UNCHANGED <<now, is_manual_reset_, event_status_, timeout_ts, give_up_ts, result>>

(* Mutant of InWarnPhase: the end of the first phase ends the Wait.        *)
InWarnPhase_Never(th) == FALSE

(* ETIMEDOUT ends the loop without a look at the flag.  After the warning  *)
(* the second phase starts, and that does look.                            *)
InWarnPhase(th) == timeout_ts[th] # give_up_ts[th]

Warn(th) ==
  /\ pc[th] = "timedout"
  /\ InWarnPhase(th)
  /\ timeout_ts' = [timeout_ts EXCEPT ![th] = give_up_ts[th]]
  /\ pc' = [pc EXCEPT ![th] = "lock"]
  /\ UNCHANGED <<now, is_manual_reset_, event_status_, give_up_ts, result>>

ReturnFalse(th) ==
  /\ pc[th] = "timedout"
  /\ ~InWarnPhase(th)
  /\ Return(th, "timeout")
  /\ UNCHANGED <<now, is_manual_reset_, event_status_>>

-----------------------------------------------------------------------------
TimerPending(th) ==
  pc[th] # "idle" /\ timeout_ts[th] # kForever /\ now < timeout_ts[th]

(* Time passes up to MaxTime, and beyond it only for a timed wait.         *)
Tick ==
  /\ now < MaxTime \/ \E th \in Threads : TimerPending(th)
  /\ now' = now + 1
  /\ UNCHANGED <<is_manual_reset_, event_status_, pc, timeout_ts, give_up_ts, result>>

(* A Wait begins before MaxTime, so that the clock stays finite.           *)
Call(th) ==
  \/ Set(th)
  \/ Reset(th)
  \/ /\ now <= MaxTime
     /\ \E give_up_after, warn_after \in Timeouts :
          BeginWait(th, give_up_after, warn_after)

Waiting(th) == Block(th) \/ ReturnTrue(th) \/ Warn(th) \/ ReturnFalse(th)

Next ==
  \/ \E th \in Threads :
       \/ Call(th)
       \/ Waiting(th)
       \/ SpuriousWakeup(th)
       \/ TimeOut(th)
  \/ Tick

Spec == Init /\ [][Next]_vars

(* A thread that can go on is scheduled, time passes, and a timed wait     *)
(* whose instant has passed returns ETIMEDOUT, however often it is woken   *)
(* for no reason.                                                          *)
Fairness ==
  /\ \A th \in Threads : WF_vars(Waiting(th)) /\ SF_vars(TimeOut(th))
  /\ WF_vars(Tick)

FairSpec == Spec /\ Fairness

-----------------------------------------------------------------------------
(* Properties *)

TypeOK ==
  /\ now \in Nat
  /\ is_manual_reset_ \in BOOLEAN
  /\ event_status_ \in BOOLEAN
  /\ pc \in [Threads -> {"idle", "lock", "blocked", "woken", "timedout"}]
  /\ timeout_ts \in [Threads -> Nat \cup {kForever}]
  /\ give_up_ts \in [Threads -> Nat \cup {kForever}]
  /\ result \in [Threads -> {"idle", "waiting", "signaled", "timeout"}]
  /\ \A th \in Threads : pc[th] = "idle" <=> result[th] # "waiting"

(* Each step keeps the contract: a success takes exactly one signal, a     *)
(* Wait does not give up before give_up_after ("Care is taken so that the  *)
(* underlying OS wait call isn't requested to sleep shorter", event.h:76), *)
(* whatever warn_after is, and one that gives up leaves the signal.        *)
Contract == INSTANCE EventContract WITH
  giveUpAt <- give_up_ts,
  phase <- result

ImplementsEvent == Contract!Spec

(* A set event does not stay set beside a thread that waits for it, and a  *)
(* Wait with a timeout returns, set or not.                                *)
WaitsEnd ==
  \A th \in Threads :
    /\ []<>(~event_status_ \/ result[th] # "waiting")
    /\ []<>(result[th] # "waiting" \/ give_up_ts[th] = kForever)
==============================================================================
