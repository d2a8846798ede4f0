-------------------------------- MODULE SystemTime --------------------------------
(***************************************************************************)
(* SystemTimeNanos on Windows (rtc_base/system_time.cc), called by several *)
(* threads: timeGetTime wraps around, the last value read is exchanged in  *)
(* one step, and the wraps are counted in a volatile that is not atomic.   *)
(***************************************************************************)
EXTENDS Integers

CONSTANTS Threads,
          TimerBits,    \* width of DWORD
          LongestCall,  \* milliseconds a call may take, far below 0x0fffffff
          Starts,       \* the times at which the program may start
          MaxTime       \* bound: milliseconds

VARIABLES time,                  \* milliseconds since the machine started
          last_timegettime,
          num_wrap_timegettime,
          pc,                    \* where a thread is in SystemTimeNanos
          now, old, wraps,       \* its locals; wraps is what ++ read
          ticks                  \* what its last call returned

vars == <<time, last_timegettime, num_wrap_timegettime, pc, now, old, wraps, ticks>>

Range == 2^TimerBits
High == Range - Range \div 16
Low == Range \div 16 - 1

Init ==
  /\ time \in Starts /\ last_timegettime = 0 /\ num_wrap_timegettime = 0
  /\ pc = [t \in Threads |-> "idle"]
  /\ now = [t \in Threads |-> 0] /\ old = [t \in Threads |-> 0]
  /\ wraps = [t \in Threads |-> 0] /\ ticks = [t \in Threads |-> 0]

timeGetTime(t) ==
  /\ pc[t] = "idle"
  /\ now' = [now EXCEPT ![t] = time % Range]
  /\ pc' = [pc EXCEPT ![t] = "exchange"]
  /\ UNCHANGED <<time, last_timegettime, num_wrap_timegettime, old, wraps, ticks>>

InterlockedExchange(t) ==
  /\ pc[t] = "exchange"
  /\ old' = [old EXCEPT ![t] = last_timegettime]
  /\ last_timegettime' = now[t]
  /\ pc' = [pc EXCEPT ![t] = IF now[t] < last_timegettime /\ last_timegettime > High /\ now[t] < Low
                               THEN "read" ELSE "return"]
  /\ UNCHANGED <<time, num_wrap_timegettime, now, wraps, ticks>>

ReadWraps(t) ==
  /\ pc[t] = "read"
  /\ wraps' = [wraps EXCEPT ![t] = num_wrap_timegettime]
  /\ pc' = [pc EXCEPT ![t] = "write"]
  /\ UNCHANGED <<time, last_timegettime, num_wrap_timegettime, now, old, ticks>>

WriteWraps(t) ==
  /\ pc[t] = "write"
  /\ num_wrap_timegettime' = wraps[t] + 1
  /\ pc' = [pc EXCEPT ![t] = "return"]
  /\ UNCHANGED <<time, last_timegettime, now, old, wraps, ticks>>

Return(t) ==
  /\ pc[t] = "return"
  /\ ticks' = [ticks EXCEPT ![t] = now[t] + num_wrap_timegettime * Range]
  /\ pc' = [pc EXCEPT ![t] = "idle"]
  /\ UNCHANGED <<time, last_timegettime, num_wrap_timegettime, now, old, wraps>>

(* Time goes on, between any two steps, but "the code will not take that   *)
(* long to execute".                                                       *)
Advance == \E later \in time + 1 .. MaxTime :
  /\ \A t \in Threads : pc[t] # "idle" => later <= time + ((now[t] - time + LongestCall) % Range)
  /\ time' = later
  /\ UNCHANGED <<last_timegettime, num_wrap_timegettime, pc, now, old, wraps, ticks>>

Next ==
  \/ Advance
  \/ \E t \in Threads : timeGetTime(t) \/ InterlockedExchange(t) \/ ReadWraps(t) \/ WriteWraps(t) \/ Return(t)

Spec == Init /\ [][Next]_vars

(* A wrap is counted only where the timer has wrapped around: "it must     *)
(* have been a wrap around", says the comment at the condition.            *)
CountsOnlyWraps == num_wrap_timegettime <= time \div Range
==================================================================================
