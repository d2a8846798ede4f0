----------------------------- MODULE EventTracer -----------------------------
(***************************************************************************)
(* The internal event tracer (rtc_base/event_tracer.cc): threads that add  *)
(* trace events, the logging thread of a capture, which writes them to its *)
(* file, and the owner, who sets up, starts, stops and shuts down.         *)
(*                                                                         *)
(* A build with RTC_DCHECK_IS_ON.  A load or exchange of an atomic, a      *)
(* critical section and a call on the event are one step each.             *)
(***************************************************************************)
EXTENDS Integers, Sequences, FiniteSets, SequencesExt

CONSTANTS Events,      \* what the threads trace, each once
          Tracers,     \* the threads that trace
          MaxSessions  \* bound: how often a capture is started

NoFile == 0
NoEvent == "none"

VARIABLES
  g_event_logger,          \* does the EventLogger exist?
  g_event_logging_active,
  trace_events_,
  output_file_,            \* the session whose file is open, or NoFile
  shutdown_event_,
  lpc, shutting, batch,    \* the logging thread and the locals of Log
  opc, closing,            \* the owner; does it shut down?
  tpc, adding,             \* the tracing threads and what they add
  session,                 \* how many captures were started
  checkedIn, pushedIn,     \* history: the session of each event's check and push
  heldOver,                \* history: what a thread held when the vector was cleared
  written,                 \* history: what was written, as [event, session]
  aborted                  \* an RTC_CHECK or RTC_DCHECK failed

loggerVars == <<g_event_logger, g_event_logging_active, trace_events_, output_file_,
                shutdown_event_>>
threadVars == <<lpc, shutting, batch>>
ownerVars == <<opc, closing, session>>
tracerVars == <<tpc, adding, checkedIn, pushedIn, heldOver>>
vars == <<loggerVars, threadVars, ownerVars, tracerVars, written, aborted>>

Init ==
  /\ g_event_logger = FALSE
  /\ g_event_logging_active = 0
  /\ trace_events_ = << >>
  /\ output_file_ = NoFile
  /\ shutdown_event_ = FALSE
  /\ lpc = "none"
  /\ shutting = FALSE
  /\ batch = << >>
  /\ opc = "idle"
  /\ closing = FALSE
  /\ tpc = [t \in Tracers |-> "idle"]
  /\ adding = [t \in Tracers |-> NoEvent]
  /\ session = 0
  /\ checkedIn = [e \in Events |-> 0]
  /\ pushedIn = [e \in Events |-> 0]
  /\ heldOver = {}
  /\ written = << >>
  /\ aborted = FALSE

Abort ==
  /\ aborted' = TRUE
  /\ UNCHANGED <<loggerVars, threadVars, ownerVars, tracerVars, written>>

-----------------------------------------------------------------------------
(* The tracing threads *)

(* InternalAddTraceEvent goes on only while logging is active.             *)
AddTraceEvent(t, e) ==
  /\ g_event_logger
  /\ g_event_logging_active = 1
  /\ tpc[t] = "idle"
  /\ checkedIn[e] = 0
  /\ tpc' = [tpc EXCEPT ![t] = "push"]
  /\ adding' = [adding EXCEPT ![t] = e]
  /\ checkedIn' = [checkedIn EXCEPT ![e] = session]
  /\ UNCHANGED <<loggerVars, threadVars, ownerVars, pushedIn, heldOver, written, aborted>>

PushEvent(t) ==
  /\ tpc[t] = "push"
  /\ trace_events_' = Append(trace_events_, adding[t])
  /\ pushedIn' = [pushedIn EXCEPT ![adding[t]] = session]
  /\ tpc' = [tpc EXCEPT ![t] = "idle"]
  /\ adding' = [adding EXCEPT ![t] = NoEvent]
  /\ UNCHANGED <<g_event_logger, g_event_logging_active, output_file_, shutdown_event_,
                 threadVars, ownerVars, checkedIn, heldOver, written, aborted>>

-----------------------------------------------------------------------------
(* The logging thread *)

(* Log wakes when told to shut down and otherwise every 100 ms, takes all  *)
(* events out of the vector, writes them, and ends once told to.           *)
WaitShutdown ==
  /\ lpc = "wait"
  /\ shutting' = shutdown_event_
  /\ shutdown_event_' = FALSE
  /\ lpc' = "swap"
  /\ UNCHANGED <<g_event_logger, g_event_logging_active, trace_events_, output_file_,
                 batch, ownerVars, tracerVars, written, aborted>>

SwapEvents ==
  /\ lpc = "swap"
  /\ batch' = trace_events_
  /\ trace_events_' = << >>
  /\ lpc' = "write"
  /\ UNCHANGED <<g_event_logger, g_event_logging_active, output_file_, shutdown_event_,
                 shutting, ownerVars, tracerVars, written, aborted>>

(* Mutant: the last batch is dropped when the thread shuts down.           *)
WriteEvents_DropsLast ==
  /\ lpc = "write"
  /\ written' = IF shutting THEN written
                ELSE written \o [i \in DOMAIN batch |->
                                   [event |-> batch[i], session |-> output_file_]]
  /\ batch' = << >>
  /\ lpc' = IF shutting THEN "close" ELSE "wait"
  /\ UNCHANGED <<loggerVars, shutting, ownerVars, tracerVars, aborted>>

WriteEvents ==
  /\ lpc = "write"
  /\ written' = written \o [i \in DOMAIN batch |->
                              [event |-> batch[i], session |-> output_file_]]
  /\ batch' = << >>
  /\ lpc' = IF shutting THEN "close" ELSE "wait"
  /\ UNCHANGED <<loggerVars, shutting, ownerVars, tracerVars, aborted>>

CloseFile ==
  /\ lpc = "close"
  /\ output_file_' = NoFile
  /\ lpc' = "exited"
  /\ UNCHANGED <<g_event_logger, g_event_logging_active, trace_events_, shutdown_event_,
                 shutting, batch, ownerVars, tracerVars, written, aborted>>

-----------------------------------------------------------------------------
(* The owner *)

SetupInternalTracer ==
  /\ opc = "idle"
  /\ ~g_event_logger
  /\ g_event_logger' = TRUE
  /\ UNCHANGED <<g_event_logging_active, trace_events_, output_file_, shutdown_event_,
                 threadVars, ownerVars, tracerVars, written, aborted>>

(* Start checks that no file is open, ...                                  *)
Start ==
  /\ opc = "idle"
  /\ g_event_logger
  /\ session < MaxSessions
  /\ IF output_file_ # NoFile
       THEN Abort
       ELSE /\ session' = session + 1
            /\ output_file_' = session'
            /\ opc' = "clear"
            /\ UNCHANGED <<g_event_logger, g_event_logging_active, trace_events_,
                           shutdown_event_, threadVars, closing, tracerVars, written,
                           aborted>>

(* Mutant: nothing is cleared.                                             *)
ClearEvents_Keeps ==
  /\ opc = "clear"
  /\ opc' = "activate"
  /\ UNCHANGED <<loggerVars, threadVars, closing, session, tracerVars, written, aborted>>

(* ... drops what an earlier capture left in the vector, ...               *)
ClearEvents ==
  /\ opc = "clear"
  /\ trace_events_' = << >>
  /\ heldOver' = heldOver \cup {adding[t] : t \in {u \in Tracers : tpc[u] = "push"}}
  /\ opc' = "activate"
  /\ UNCHANGED <<g_event_logger, g_event_logging_active, output_file_, shutdown_event_,
                 threadVars, closing, session, tpc, adding, checkedIn, pushedIn, written, aborted>>

(* ... activates logging, which must have been off, ...                    *)
Activate ==
  /\ opc = "activate"
  /\ IF g_event_logging_active = 1
       THEN Abort
       ELSE /\ g_event_logging_active' = 1
            /\ opc' = "spawn"
            /\ UNCHANGED <<g_event_logger, trace_events_, output_file_, shutdown_event_,
                           threadVars, closing, session, tracerVars, written, aborted>>

(* ... and starts the thread.                                              *)
Spawn ==
  /\ opc = "spawn"
  /\ lpc' = "wait"
  /\ opc' = "idle"
  /\ UNCHANGED <<loggerVars, shutting, batch, closing, session, tracerVars, written,
                 aborted>>

(* Stop returns when it has turned logging off, and otherwise sets the     *)
(* event and joins the thread.  Shutdown is Stop, then the destructor.     *)
Returned == IF closing' THEN "delete" ELSE "idle"

Stop(shutdown) ==
  /\ opc = "idle"
  /\ g_event_logger
  /\ closing' = shutdown
  /\ IF g_event_logging_active = 1
       THEN g_event_logging_active' = 0 /\ opc' = Returned
       ELSE opc' = "set" /\ UNCHANGED g_event_logging_active
  /\ UNCHANGED <<g_event_logger, trace_events_, output_file_, shutdown_event_, threadVars,
                 session, tracerVars, written, aborted>>

SetShutdown ==
  /\ opc = "set"
  /\ shutdown_event_' = TRUE
  /\ opc' = "join"
  /\ UNCHANGED <<g_event_logger, g_event_logging_active, trace_events_, output_file_,
                 threadVars, closing, session, tracerVars, written, aborted>>

Joined == lpc \in {"none", "exited"}

Join ==
  /\ opc = "join"
  /\ Joined
  /\ lpc' = "none"
  /\ UNCHANGED closing
  /\ opc' = Returned
  /\ UNCHANGED <<loggerVars, shutting, batch, session, tracerVars, written, aborted>>

(* The destructor joins the thread too.  The program shuts the tracer down *)
(* when no thread is tracing.                                              *)
Delete ==
  /\ opc = "delete"
  /\ \A t \in Tracers : tpc[t] = "idle"
  /\ Joined
  /\ g_event_logger' = FALSE
  /\ trace_events_' = << >>
  /\ output_file_' = NoFile
  /\ shutdown_event_' = FALSE
  /\ lpc' = "none"
  /\ opc' = "idle"
  /\ closing' = FALSE
  /\ UNCHANGED <<g_event_logging_active, shutting, batch, session, tracerVars, written,
                 aborted>>

-----------------------------------------------------------------------------
Tracer(t) == PushEvent(t)
Trace == \E t \in Tracers, e \in Events : AddTraceEvent(t, e)
Log == WaitShutdown \/ SwapEvents \/ WriteEvents \/ CloseFile
OwnerGoesOn == ClearEvents \/ Activate \/ Spawn \/ SetShutdown \/ Join \/ Delete
OwnerCalls == SetupInternalTracer \/ Start \/ \E s \in BOOLEAN : Stop(s)

LogStep == ~aborted /\ Log
TracerStep(t) == ~aborted /\ Tracer(t)
OwnerStep == ~aborted /\ OwnerGoesOn

Next ==
  \/ LogStep
  \/ OwnerStep
  \/ ~aborted /\ (OwnerCalls \/ Trace)
  \/ \E t \in Tracers : TracerStep(t)

Spec == Init /\ [][Next]_vars

(* The logging thread is scheduled, and the owner's calls go on; nobody has *)
(* to trace, to start or to stop.                                           *)
Fairness == WF_vars(LogStep) /\ WF_vars(OwnerStep)

FairSpec == Spec /\ Fairness

-----------------------------------------------------------------------------
(* Properties *)

TypeOK ==
  /\ g_event_logger \in BOOLEAN
  /\ g_event_logging_active \in {0, 1}
  /\ trace_events_ \in Seq(Events)
  /\ output_file_ \in 0 .. MaxSessions
  /\ shutdown_event_ \in BOOLEAN
  /\ lpc \in {"none", "wait", "swap", "write", "close", "exited"}
  /\ lpc \in {"wait", "swap", "write", "close"} => output_file_ # NoFile
  /\ shutting \in BOOLEAN
  /\ batch \in Seq(Events)
  /\ opc \in {"idle", "clear", "activate", "spawn", "set", "join", "delete"}
  /\ closing \in BOOLEAN
  /\ tpc \in [Tracers -> {"idle", "push"}]
  /\ adding \in [Tracers -> Events \cup {NoEvent}]
  /\ session \in 0 .. MaxSessions
  /\ checkedIn \in [Events -> 0 .. MaxSessions]
  /\ pushedIn \in [Events -> 0 .. MaxSessions]
  /\ heldOver \subseteq Events
  /\ aborted \in BOOLEAN

(* A capture holds each event at most once, and only what was pushed since *)
(* it was started: what an earlier capture left in the vector is cleared,  *)
(* "to not log events from a previous logging session"                     *)
(* (event_tracer.cc:195-199).  The exception, which the code really has:   *)
(* the one event of each thread that the thread had in its hand when the   *)
(* vector was cleared, between its look at the flag (:354) and the push.   *)
(* It was traced during the previous capture and is written to the new one.*)
CaptureIsClean ==
  /\ \A i, j \in DOMAIN written : written[i].event = written[j].event => i = j
  /\ \A i \in DOMAIN written :
       LET e == written[i].event
       IN  /\ pushedIn[e] = written[i].session
           /\ checkedIn[e] = written[i].session \/ e \in heldOver

(* What was added while the logging thread runs is written, also when the  *)
(* thread is told to shut down in between; a Stop that waits for the       *)
(* logging thread returns (event_tracer.cc:220).                           *)
EventsAreWritten ==
  /\ \A e \in Events :
       (lpc = "wait" /\ Contains(trace_events_, e)) ~>
         (aborted \/ \E i \in DOMAIN written : written[i].event = e)
  /\ (opc = "join") ~> (opc # "join")

(* "Try to stop.  Abort if we're not currently logging. ... Wake up        *)
(* logging thread to finish writing. ... Join the logging thread."         *)
(* (event_tracer.cc:215-223): once Stop has turned logging off and         *)
(* returned, the logging thread is done and the file is closed.            *)
StopEndsCapture ==
  (opc = "idle" /\ g_event_logging_active = 0 /\ session > 0) => output_file_ = NoFile
==============================================================================
