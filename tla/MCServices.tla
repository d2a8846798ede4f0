------------------------------ MODULE MCServices ------------------------------
(***************************************************************************)
(* The components around the queues and threads, each on its own:           *)
(* `subject' says which one a behaviour is about, and the variables of the *)
(* others keep their first values.                                         *)
(***************************************************************************)
EXTENDS Integers, Sequences, FiniteSets

CONSTANTS Starts, NoStart, Tasks, Safe, Flags, Delays, MaxTime, Nobody,
          Lockers, Free, MaxEnters,
          Objects, Null, Pointers, Users, OwnerOf,
          Mains, Threads, MaxStack, MaxStarts, MaxMessages,
          Loggers, Sinks, None, DefaultSeverity, MaxChanges, MaxStatements,
          Events, Tracers, MaxSessions,
          Self, Targets, MaxScopes, MaxSteps,
          CheckedThreads, TaskQueues, SystemQueues, MaxChecks,
          Sites, Quiet, MaxNested, MaxEntered, MaxTurns

VARIABLES subject,
          resolver, status, mutex, recursion_check_, destroy_called_, error_,
          thread, result, calls, queueLives, owner, elsewhere, met, signals,
          now, running, start, repeating_task_, pc, next_run_time_, delay, due,
          alive_, flag_, given, queuedSafe, plan, read, slip, disowned,
          lock_queue_, owning_thread_, recursion_, semaphore_, sleepers, lpc, depth, enters,
          ref_count_, heap, ptr_, raw, op,
          current, taskQueue, registration, kind, thread_, owned_, stop_, old_thread_, run,
          message_queues_, stack, joining, queue, posted, starts, flush,
          streams_, min_severity_, stores, known, mutexKnown, logMutex, logPc, severity, left,
          sees, owed, missed, changes, statements,
          g_event_logger, g_event_logging_active, trace_events_, output_file_, shutdown_event_,
          tracer_lpc, shutting, batch, opc, closing, tpc, adding, session, checkedIn, pushedIn,
          heldOver, written, aborted,
          blocking_calls_allowed_, invoke_policy_enabled_, allowed_threads_, blocking_call_count_,
          could_be_blocking_call_count_, scopes, changed, reports, failed, steps,
          attached_, valid, accepted, checks,
          tracer, isSet, active, catstatic, nested, began, ended, owes, unheard, unended,
          entered, turns

(* Two pointers of the first thread and one of the second, for TLC.        *)
Owners == <<1, 1, 2>>

(* What stands for nothing is not a thing; None is above every severity.   *)
ASSUME ServicesAssumption ==
  /\ Free \notin Lockers /\ Free \notin Loggers
  /\ Null \notin Objects /\ Null \notin Pointers /\ OwnerOf \in [Pointers -> Users]
  /\ Null \notin Threads /\ Null \notin Mains /\ Mains \cap Threads = {}
  /\ None \in Nat /\ DefaultSeverity \in 0 .. None

A == INSTANCE AsyncResolver WITH queue <- calls
R == INSTANCE RepeatingTask
L == INSTANCE RecursiveCriticalSection WITH Threads <- Lockers, pc <- lpc
C == INSTANCE RefCounting WITH Threads <- Users
M == INSTANCE ThreadManager
G == INSTANCE Logging WITH Threads <- Loggers, mutex <- logMutex, pc <- logPc, written <- stores
T == INSTANCE EventTracer WITH lpc <- tracer_lpc
P == INSTANCE ThreadPolicies WITH posted <- changed
Q == INSTANCE SequenceChecker
N == INSTANCE TraceScopes

resolverVars == <<resolver, status, mutex, recursion_check_, destroy_called_, error_,
                  thread, result, calls, queueLives, owner, elsewhere, met, signals>>
repeatingVars == <<now, running, start, repeating_task_, pc, next_run_time_, delay, due,
                   alive_, flag_, given, queuedSafe, plan, read, slip, disowned>>
lockVars == <<lock_queue_, owning_thread_, recursion_, semaphore_, sleepers, lpc, depth, enters>>
countVars == <<ref_count_, heap, ptr_, raw, op>>
managerVars == <<current, taskQueue, registration, kind, thread_, owned_, stop_, old_thread_, run,
                 message_queues_, stack, joining, queue, posted, starts, flush>>
logVars == <<streams_, min_severity_, stores, known, mutexKnown, logMutex, logPc, severity, left,
             sees, owed, missed, changes, statements>>
tracerVars == <<g_event_logger, g_event_logging_active, trace_events_, output_file_,
                shutdown_event_, tracer_lpc, shutting, batch, opc, closing, tpc, adding, session,
                checkedIn, pushedIn, heldOver, written, aborted>>
policyVars == <<blocking_calls_allowed_, invoke_policy_enabled_, allowed_threads_,
                blocking_call_count_, could_be_blocking_call_count_, scopes, changed, reports,
                failed, steps>>
checkerVars == <<attached_, valid, accepted, checks>>
scopeVars == <<tracer, isSet, active, catstatic, nested, began, ended, owes, unheard, unended,
               entered, turns>>
threadVars == <<policyVars, checkerVars, scopeVars>>
vars == <<subject, resolverVars, repeatingVars, lockVars, countVars, managerVars,
          logVars, tracerVars, threadVars>>

Services == {"AsyncResolver", "RepeatingTask", "Lock", "RefCounting", "ThreadManager",
             "Logging", "EventTracer", "Policies", "Checker",
             "Scopes"}

Init ==
  /\ subject \in Services
  /\ A!Init /\ R!Init /\ L!Init /\ C!Init /\ M!Init /\ G!Init /\ T!Init
  /\ P!Init /\ N!Init /\ (subject # "Scopes" => tracer = "internal")
  /\ Q!Init /\ (subject # "Checker" => valid = CHOOSE place \in Q!Places : TRUE)

Resolver(Step) == subject = "AsyncResolver" /\ Step
  /\ UNCHANGED <<subject, repeatingVars, lockVars, countVars, managerVars,
                 logVars, tracerVars, threadVars>>
RepeatingStep == subject = "RepeatingTask" /\ R!Next
  /\ UNCHANGED <<subject, resolverVars, lockVars, countVars, managerVars,
                 logVars, tracerVars, threadVars>>
LockStep == subject = "Lock" /\ L!Next
  /\ UNCHANGED <<subject, resolverVars, repeatingVars, countVars, managerVars,
                 logVars, tracerVars, threadVars>>
CountStep == subject = "RefCounting" /\ C!Next
  /\ UNCHANGED <<subject, resolverVars, repeatingVars, lockVars, managerVars,
                 logVars, tracerVars, threadVars>>
Manager(Step) == subject = "ThreadManager" /\ Step
  /\ UNCHANGED <<subject, resolverVars, repeatingVars, lockVars, countVars,
                 logVars, tracerVars, threadVars>>
LogStep == subject = "Logging" /\ G!Next
  /\ UNCHANGED <<subject, resolverVars, repeatingVars, lockVars, countVars,
                 managerVars, tracerVars, threadVars>>
Tracer(Step) == subject = "EventTracer" /\ Step
  /\ UNCHANGED <<subject, resolverVars, repeatingVars, lockVars, countVars,
                 managerVars, logVars, threadVars>>
Others == <<subject, resolverVars, repeatingVars, lockVars, countVars, managerVars,
            logVars, tracerVars>>
PolicyStep == subject = "Policies" /\ P!Next /\ UNCHANGED <<Others, checkerVars, scopeVars>>
CheckerStep == subject = "Checker" /\ Q!Next /\ UNCHANGED <<Others, policyVars, scopeVars>>
ScopeStep == subject = "Scopes" /\ N!Next /\ UNCHANGED <<Others, policyVars, checkerVars>>

Next ==
  \/ Resolver(A!Next) \/ RepeatingStep \/ LockStep \/ CountStep \/ Manager(M!Next)
  \/ LogStep \/ Tracer(T!Next)
  \/ PolicyStep \/ CheckerStep \/ ScopeStep

(* The fairness of the resolver, of the tracer and of the flush.  No step  *)
(* of theirs is possible in the first state, where they stay while another *)
(* component runs.                                                         *)
Spec == Init /\ [][Next]_vars /\ A!Fairness /\ T!Fairness /\ M!Fairness

(* The properties are stated beside the components.                        *)
(* The resolver is not used after it was deleted, and it signals or dies.  *)
ResolverSettles == []A!NoUseAfterDelete /\ A!DestroyedOrSignalled
(* Tasks repeat on schedule, and not once they are stopped.                *)
RepeatsOnSchedule == []R!OnSchedule /\ R!NothingAfterStop
(* The lock has one owner at a time, and the places a sequence checker      *)
(* accepts cannot run at once.                                             *)
AccessIsExclusive == L!LockIsExclusive /\ (subject = "Checker" => Q!OneSequence)
ReferencesAreCounted == C!ReferencesAreCounted
(* Every thread knows which it is, and what it allows itself to call.      *)
ThreadsAgree == M!CurrentThreadsAgree /\ P!PoliciesHold
(* The flush of all queues returns when it should, and not before: no     *)
(* earlier than this, and in the end by WorkIsFinished.                    *)
EarlierMessagesDispatched == M!EarlierMessagesDispatched
LogsReachSinks == G!LogsReachSinks
(* A capture holds what was traced during it, and of a scope no end without *)
(* its begin.                                                              *)
CaptureIsClean == T!CaptureIsClean /\ N!EndsHaveBegins
(* What was traced is written and Stop returns; the flush of all queues   *)
(* returns, unless its marker is with a thread that nobody runs.           *)
WorkIsFinished == T!EventsAreWritten /\ M!FlushReturns
===============================================================================
