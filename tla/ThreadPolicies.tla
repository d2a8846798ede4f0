---------------------------- MODULE ThreadPolicies ----------------------------
(***************************************************************************)
(* What a Thread allows its own code to call (rtc_base/thread.cc): scopes  *)
(* that forbid blocking calls, scopes that count them, and the threads that*)
(* may be called.  Another thread changes the policy through a task.       *)
(* A call that is not allowed is a failed DCHECK, with which the behaviour *)
(* ends: builds with DCHECKs are modelled, others keep no policy.          *)
(***************************************************************************)
EXTENDS Naturals, Sequences, SequencesExt

CONSTANTS Self, Targets,   \* the thread, and others it calls
          MaxScopes,       \* bound: nested scopes
          MaxSteps         \* bound: calls and changes of the policy

VARIABLES
  blocking_calls_allowed_, invoke_policy_enabled_, allowed_threads_,
  blocking_call_count_, could_be_blocking_call_count_,
  scopes,                  \* the scoped objects on the thread's stack, innermost last
  posted,                  \* changes of the policy that are tasks of the thread
  reports,                 \* what the callback of the last scope said, and what was true
  failed, steps

settings == <<invoke_policy_enabled_, allowed_threads_>>
counts == <<blocking_call_count_, could_be_blocking_call_count_>>
vars == <<blocking_calls_allowed_, settings, counts, scopes, posted, reports, failed, steps>>

NoReport == [said |-> <<0, 0>>, made |-> <<0, 0>>]

Init ==
  /\ blocking_calls_allowed_ = TRUE
  /\ invoke_policy_enabled_ = FALSE /\ allowed_threads_ = {}
  /\ blocking_call_count_ = 0 /\ could_be_blocking_call_count_ = 0
  /\ scopes = << >> /\ posted = << >>
  /\ reports = NoReport
  /\ failed = FALSE /\ steps = 0

Step == ~failed /\ steps < MaxSteps /\ steps' = steps + 1

-----------------------------------------------------------------------------
(* Scopes *)

(* Counts nothing itself: `made' is the history of the calls made in it.   *)
Enter(scope) ==
  /\ Len(scopes) < MaxScopes
  /\ scopes' = Append(scopes, scope)

SetAllowBlockingCalls(allow) == blocking_calls_allowed_' = allow

ScopedDisallowBlockingCalls ==
  /\ Enter([kind |-> "disallow", previous |-> blocking_calls_allowed_, base |-> <<0, 0>>,
            least |-> 0, made |-> <<0, 0>>])
  /\ SetAllowBlockingCalls(FALSE)
  /\ UNCHANGED <<settings, counts, posted, reports, failed>>

GetBlockingCallCount == <<blocking_call_count_, could_be_blocking_call_count_>>

ScopedCountBlockingCalls(least) ==
  /\ Enter([kind |-> "count", previous |-> TRUE, base |-> GetBlockingCallCount,
            least |-> least, made |-> <<0, 0>>])
  /\ UNCHANGED <<blocking_calls_allowed_, settings, counts, posted, reports, failed>>

(* The callback is given the calls made in the scope, if they are enough.  *)
Leave ==
  /\ scopes # << >>
  /\ LET scope == Last(scopes)
         said == [i \in 1 .. 2 |-> GetBlockingCallCount[i] - scope.base[i]]
     IN  /\ scopes' = Front(scopes)
         /\ IF scope.kind = "disallow"
              THEN SetAllowBlockingCalls(scope.previous) /\ UNCHANGED reports
              ELSE /\ reports' = IF said[1] + said[2] >= scope.least
                                   THEN [said |-> said, made |-> scope.made] ELSE NoReport
                   /\ UNCHANGED blocking_calls_allowed_
  /\ UNCHANGED <<settings, counts, posted, failed>>

-----------------------------------------------------------------------------
(* The policy *)

Apply(change) ==
  /\ allowed_threads_' = IF change = "none" THEN {} ELSE allowed_threads_ \cup {change}
  /\ invoke_policy_enabled_' = TRUE

(* AllowInvokesToThread and DisallowAllInvokes, called by the thread itself*)
(* or by another, then as a task.                                          *)
ChangePolicy(change) ==
  /\ Apply(change)
  /\ UNCHANGED <<blocking_calls_allowed_, counts, scopes, posted, reports, failed>>
PostChange(change) ==
  /\ posted' = Append(posted, change)
  /\ UNCHANGED <<blocking_calls_allowed_, settings, counts, scopes, reports, failed>>
(* A task of the thread runs with none of the scopes of another on top.    *)
RunChange ==
  /\ posted # << >> /\ scopes = << >>
  /\ Apply(Head(posted))
  /\ posted' = Tail(posted)
  /\ UNCHANGED <<blocking_calls_allowed_, counts, scopes, reports, failed, steps>>

IsInvokeToThreadAllowed(target) == ~invoke_policy_enabled_ \/ target \in allowed_threads_

(* BlockingCall, up to the message: a call to itself could have blocked.   *)
(* The call is counted before it is known to be allowed.                   *)
Called(i) == scopes' = [k \in DOMAIN scopes |-> [scopes[k] EXCEPT !.made[i] = @ + 1]]
CallSelf ==
  /\ failed' = ~IsInvokeToThreadAllowed(Self)
  /\ could_be_blocking_call_count_' = could_be_blocking_call_count_ + IF failed' THEN 0 ELSE 1
  /\ IF failed' THEN UNCHANGED scopes ELSE Called(2)
  /\ UNCHANGED <<blocking_calls_allowed_, settings, blocking_call_count_, posted, reports>>
CallOther(target) ==
  /\ failed' = (~blocking_calls_allowed_ \/ ~IsInvokeToThreadAllowed(target))
  /\ IF blocking_calls_allowed_
       THEN blocking_call_count_' = blocking_call_count_ + 1 /\ Called(1)
       ELSE UNCHANGED <<blocking_call_count_, scopes>>
  /\ UNCHANGED <<blocking_calls_allowed_, settings, could_be_blocking_call_count_, posted, reports>>

Next ==
  \/ /\ Step
     /\ \/ ScopedDisallowBlockingCalls \/ (\E least \in 0 .. 1 : ScopedCountBlockingCalls(least))
        \/ (\E change \in Targets \cup {Self, "none"} : ChangePolicy(change) \/ PostChange(change))
        \/ CallSelf \/ (\E target \in Targets : CallOther(target))
  \/ ~failed /\ Leave /\ UNCHANGED steps
  \/ ~failed /\ RunChange

Spec == Init /\ [][Next]_vars

-----------------------------------------------------------------------------
(* Blocking is forbidden exactly inside the scopes that forbid it, however *)
(* they nest with others; a scope reports the calls made in it, those of   *)
(* the scopes inside it included; and changes of the policy by another     *)
(* thread are not made in the middle of what a scope protects.             *)
PoliciesHold ==
  /\ blocking_calls_allowed_ = \A k \in DOMAIN scopes : scopes[k].kind # "disallow"
  /\ reports.said = reports.made
  /\ \A k \in DOMAIN scopes :
       scopes[k].kind = "count" =>
         scopes[k].made = [i \in 1 .. 2 |-> GetBlockingCallCount[i] - scopes[k].base[i]]
===============================================================================
