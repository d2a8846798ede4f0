----------------------------------- MODULE Logging -----------------------------------
(***************************************************************************)
(* rtc_base/logging: threads that log and threads that install and remove  *)
(* the sinks.  The list of sinks is guarded by a mutex; g_min_sev,         *)
(* g_dbg_sev and streams_empty_ are read without it, and a thread may read *)
(* an older value than the last one unless the mutex has told it of a      *)
(* later one.  What a message says is left out.                            *)
(***************************************************************************)
EXTENDS Integers, Sequences, FiniteSets, SequencesExt

CONSTANTS Threads, Sinks, Free,
          None,           \* LS_NONE; the severities are 0 .. None
          DefaultSeverity,
          MaxChanges, MaxStatements  \* bounds

VARIABLES
  streams_,          \* the sinks in the order of the list
  min_severity_,     \* of each sink
  written,           \* of each of the three variables: the values stored, in order
  known,             \* of each thread: the first of them it may still read
  mutexKnown,        \* the same, for who locks the mutex next
  mutex,
  pc, severity, left,  \* of each thread: its step, its argument, the sinks to come
  sees,              \* history: the sinks each thread knows of
  owed,              \* history: those its statement has to reach
  missed,            \* history: a statement did not reach them
  changes, statements

vars == <<streams_, min_severity_, written, known, mutexKnown, mutex, pc, severity, left,
          sees, owed, missed, changes, statements>>

Shared == {"g_min_sev", "g_dbg_sev", "streams_empty_"}
Severities == 0 .. None
LastOf(v) == Last(written[v])
Later(k, l) == [v \in Shared |-> IF k[v] >= l[v] THEN k[v] ELSE l[v]]
LowestOf(S) == CHOOSE s \in S : \A t \in S : s <= t

Init ==
  /\ streams_ = << >> /\ min_severity_ = [s \in Sinks |-> None]
  /\ written = [v \in Shared |-> IF v = "streams_empty_" THEN <<TRUE>> ELSE <<DefaultSeverity>>]
  /\ known = [t \in Threads |-> [v \in Shared |-> 1]] /\ mutexKnown = [v \in Shared |-> 1]
  /\ mutex = Free
  /\ pc = [t \in Threads |-> "idle"] /\ severity = [t \in Threads |-> None]
  /\ left = [t \in Threads |-> << >>]
  /\ sees = [t \in Threads |-> {}] /\ owed = [t \in Threads |-> {}] /\ missed = FALSE
  /\ changes = 0 /\ statements = 0

-----------------------------------------------------------------------------
(* A statement.  First IsNoop, which reads what it may; then the message   *)
(* goes to the debug output, if it does, and to the sinks.                 *)

CanRead(t, v) == {written[v][i] : i \in known[t][v] .. Len(written[v])}

(* Mutant: the list of sinks does not count. *)
IsNoop_ByDebugOnly(t, sev, dbg, min, empty) == sev < dbg

IsNoop(t, sev, dbg, min, empty) == sev < dbg /\ sev < min /\ empty

Log(t, sev) ==
  /\ pc[t] = "idle" /\ statements < MaxStatements
  /\ statements' = statements + 1
  /\ severity' = [severity EXCEPT ![t] = sev]
  /\ owed' = [owed EXCEPT ![t] = {s \in sees[t] : sev >= min_severity_[s]}]
  /\ \E dbg \in CanRead(t, "g_dbg_sev"), min \in CanRead(t, "g_min_sev"), empty \in CanRead(t, "streams_empty_") :
       IF IsNoop(t, sev, dbg, min, empty)
         THEN missed' = (missed \/ owed'[t] # {}) /\ UNCHANGED pc
         ELSE pc' = [pc EXCEPT ![t] = "lock"] /\ UNCHANGED missed
  /\ UNCHANGED <<streams_, min_severity_, written, known, mutexKnown, mutex, left, sees, changes>>

(* ~LogMessage.  OnLogMessage is called with the mutex held.               *)
LockStreams(t) ==
  /\ pc[t] = "lock" /\ mutex = Free
  /\ mutex' = t
  /\ known' = [known EXCEPT ![t] = Later(@, mutexKnown)]
  /\ sees' = [sees EXCEPT ![t] = ToSet(streams_)]
  /\ left' = [left EXCEPT ![t] = streams_]
  /\ pc' = [pc EXCEPT ![t] = "calling"]
  /\ UNCHANGED <<streams_, min_severity_, written, mutexKnown, severity, owed, missed, changes, statements>>

OnLogMessage(t) ==
  /\ pc[t] = "calling" /\ left[t] # << >>
  /\ left' = [left EXCEPT ![t] = Tail(@)]
  /\ owed' = IF severity[t] >= min_severity_[Head(left[t])]
               THEN [owed EXCEPT ![t] = @ \ {Head(left[t])}] ELSE owed
  /\ UNCHANGED <<streams_, min_severity_, written, known, mutexKnown, mutex, pc, severity,
                 sees, missed, changes, statements>>

Logged(t) ==
  /\ pc[t] = "calling" /\ left[t] = << >>
  /\ mutex' = Free
  /\ mutexKnown' = Later(mutexKnown, known[t])
  /\ missed' = (missed \/ owed[t] # {})
  /\ pc' = [pc EXCEPT ![t] = "idle"]
  /\ UNCHANGED <<streams_, min_severity_, written, known, severity, left, sees, owed, changes, statements>>

-----------------------------------------------------------------------------
(* What is done with the mutex and without a call to others is one step.   *)

GetLogToStream == LowestOf({None} \cup {min_severity_[s] : s \in ToSet(streams_)})

Lowest(streams, severities, dbg) == LowestOf({dbg} \cup {severities[s] : s \in ToSet(streams)})

(* Stores of streams_empty_ (none or one) and g_min_sev by t, which has    *)
(* the mutex.                                                              *)
UpdateMinLogSeverity(t, empty) ==
  LET k == Later(known[t], mutexKnown)
      dbg == {written["g_dbg_sev"][i] : i \in k["g_dbg_sev"] .. Len(written["g_dbg_sev"])}
  IN  \E d \in dbg :
        /\ written' = [written EXCEPT !["streams_empty_"] = @ \o empty,
                                      !["g_min_sev"] = Append(@, Lowest(streams_', min_severity_', d))]
        /\ mutexKnown' = [v \in Shared |-> IF v = "g_dbg_sev" THEN k[v] ELSE Len(written'[v])]
        /\ known' = [known EXCEPT ![t] = mutexKnown']
        /\ sees' = [u \in Threads |-> IF u = t THEN ToSet(streams_') ELSE sees[u] \cap ToSet(streams_')]
        /\ owed' = [u \in Threads |-> owed[u] \cap ToSet(streams_')]

Change == changes < MaxChanges /\ changes' = changes + 1

AddLogToStream(t, s, sev) ==
  /\ pc[t] = "idle" /\ mutex = Free /\ s \notin ToSet(streams_) /\ Change
  /\ streams_' = <<s>> \o streams_
  /\ min_severity_' = [min_severity_ EXCEPT ![s] = sev]
  /\ UpdateMinLogSeverity(t, <<FALSE>>)
  /\ UNCHANGED <<mutex, pc, severity, left, missed, statements>>

RemoveLogToStream(t, s) ==
  /\ pc[t] = "idle" /\ mutex = Free /\ Change
  /\ \/ s \notin ToSet(streams_) /\ UNCHANGED streams_
     \/ \E i \in DOMAIN streams_ : streams_[i] = s /\ streams_' = RemoveAt(streams_, i)
  /\ UNCHANGED min_severity_
  /\ UpdateMinLogSeverity(t, <<streams_' = << >>>>)
  /\ UNCHANGED <<mutex, pc, severity, left, missed, statements>>

(* LogToDebug stores before it locks.  ConfigureLogging with a level for   *)
(* debug calls it with that one, and without one with the level it reads.  *)
LogToDebug(t, sev) ==
  /\ pc[t] = "idle" /\ Change
  /\ written' = [written EXCEPT !["g_dbg_sev"] = Append(@, sev)]
  /\ known' = [known EXCEPT ![t]["g_dbg_sev"] = Len(written'["g_dbg_sev"])]
  /\ pc' = [pc EXCEPT ![t] = "update"]
  /\ UNCHANGED <<streams_, min_severity_, mutexKnown, mutex, severity, left, sees, owed, missed, statements>>

LogToDebugUpdates(t) ==
  /\ pc[t] = "update" /\ mutex = Free
  /\ UNCHANGED <<streams_, min_severity_>>
  /\ UpdateMinLogSeverity(t, << >>)
  /\ pc' = [pc EXCEPT ![t] = "idle"]
  /\ UNCHANGED <<mutex, severity, left, missed, changes, statements>>

ConfigureLogging(t) ==
  /\ pc[t] = "idle" /\ Change
  /\ \E dbg \in CanRead(t, "g_dbg_sev") : severity' = [severity EXCEPT ![t] = dbg]
  /\ pc' = [pc EXCEPT ![t] = "store"]
  /\ UNCHANGED <<streams_, min_severity_, written, known, mutexKnown, mutex, left, sees, owed, missed, statements>>

ConfigureStores(t) ==
  /\ pc[t] = "store"
  /\ written' = [written EXCEPT !["g_dbg_sev"] = Append(@, severity[t])]
  /\ known' = [known EXCEPT ![t]["g_dbg_sev"] = Len(written'["g_dbg_sev"])]
  /\ pc' = [pc EXCEPT ![t] = "update"]
  /\ UNCHANGED <<streams_, min_severity_, mutexKnown, mutex, severity, left, sees, owed, missed, changes, statements>>

Next == \E t \in Threads :
  \/ \E sev \in Severities \ {None} : Log(t, sev)
  \/ \E sev \in Severities : LogToDebug(t, sev) \/ \E s \in Sinks : AddLogToStream(t, s, sev)
  \/ \E s \in Sinks : RemoveLogToStream(t, s)
  \/ ConfigureLogging(t) \/ ConfigureStores(t) \/ LogToDebugUpdates(t)
  \/ LockStreams(t) \/ OnLogMessage(t) \/ Logged(t)

Spec == Init /\ [][Next]_vars

-----------------------------------------------------------------------------
(* A sink is called only while it is installed, so that whoever removed it *)
(* may destroy it; a statement reaches every sink for its severity that    *)
(* its thread knows to be installed (by its own call or from the mutex),   *)
(* although IsNoop reads without the mutex; and when no change is under    *)
(* way, g_min_sev is the lowest severity anybody asks for.                 *)
LogsReachSinks ==
  /\ \A t \in Threads : pc[t] = "calling" => ToSet(left[t]) \subseteq ToSet(streams_) /\ IsInjective(left[t])
  /\ ~missed
  /\ LastOf("streams_empty_") <=> streams_ = << >>
  /\ (\A t \in Threads : pc[t] # "update") =>
       LastOf("g_min_sev") = LowestOf({LastOf("g_dbg_sev"), GetLogToStream})
==================================================================================
