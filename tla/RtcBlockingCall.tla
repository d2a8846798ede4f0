--------------------------- MODULE RtcBlockingCall ---------------------------
(***************************************************************************)
(* Thread::BlockingCall between rtc::Threads (rtc_base/thread.cc): the     *)
(* closure posted to the target, the caller's wait on the event of its own *)
(* socket server, the reply that sets `ready` under the target's mutex and *)
(* wakes the caller, and, when RTC_DCHECK_IS_ON, the graph of who sends to *)
(* whom, which aborts the program rather than close a cycle.               *)
(*                                                                         *)
(* The same event wakes a thread for a posted task, for a reply and for    *)
(* Quit.  A critical section, a load or store of stop_ and a call on an    *)
(* event are one step each.                                                *)
(***************************************************************************)
EXTENDS Integers, Sequences, FiniteSets

CONSTANTS Threads,    \* the rtc::Threads
          Outsiders,  \* OS threads for which Thread::Current() is null
          Jobs,       \* the closures posted or called, bounded by this set
          Stoppable   \* the threads the program may quit

ASSUME BlockingAssumption ==
  /\ Threads \cap Outsiders = {}
  /\ Stoppable \subseteq Threads

VARIABLES
  messages_,    \* of each thread
  stop_,
  event_,       \* the event of each thread's socket server
  send_graph_,  \* ThreadManager: whom each thread sends to
  pc,           \* where each thread or outsider is
  running,      \* the job whose functor a thread runs, or NoJob
  job, target,  \* the call in progress of each actor
  waited,       \* BlockingCall's local
  ready,        \* the flag of each call, or its done_event
  caller,       \* who waits for a job, or Nobody if it was only posted
  fate,         \* history: what became of each job
  qpc,          \* Quit of each thread: "no", "wake", "done"
  debug,        \* RTC_DCHECK_IS_ON: the build, which no step changes
  aborted       \* an RTC_CHECK or RTC_DCHECK failed

callVars == <<job, target, waited>>
jobVars == <<ready, caller, fate>>
vars == <<messages_, stop_, event_, send_graph_, pc, running, callVars, jobVars,
          qpc, debug, aborted>>

Actors == Threads \cup Outsiders
NoJob == "no job"
Nobody == "nobody"

(* Every thread begins in code of its own, before its first Get.           *)
Init ==
  /\ messages_ = [t \in Threads |-> << >>]
  /\ stop_ = [t \in Threads |-> FALSE]
  /\ event_ = [t \in Threads |-> FALSE]
  /\ send_graph_ = [t \in Threads |-> {}]
  /\ pc = [p \in Actors |-> "run"]
  /\ running = [t \in Threads |-> NoJob]
  /\ job = [p \in Actors |-> NoJob]
  /\ target = [p \in Actors |-> Nobody]
  /\ waited = [p \in Actors |-> FALSE]
  /\ ready = [j \in Jobs |-> FALSE]
  /\ caller = [j \in Jobs |-> Nobody]
  /\ fate = [j \in Jobs |-> "new"]
  /\ qpc = [t \in Threads |-> "no"]
  /\ debug \in BOOLEAN
  /\ aborted = FALSE

GoTo(p, where) == pc' = [pc EXCEPT ![p] = where]
Become(j, what) == fate' = [fate EXCEPT ![j] = what]

(* The locals of the call go out of scope.                                 *)
LeaveCall(p, where) ==
  /\ GoTo(p, where)
  /\ job' = [job EXCEPT ![p] = NoJob]
  /\ target' = [target EXCEPT ![p] = Nobody]
  /\ waited' = [waited EXCEPT ![p] = FALSE]

Abort ==
  /\ aborted' = TRUE
  /\ UNCHANGED <<messages_, stop_, event_, send_graph_, pc, running, callVars, jobVars,
                 qpc, debug>>

-----------------------------------------------------------------------------
(* Posting and calling *)

BeginCall(p, j, to, who, where) ==
  /\ pc[p] = "run"
  /\ fate[j] = "new"
  /\ pc[to] # "destroyed"
  /\ GoTo(p, where)
  /\ job' = [job EXCEPT ![p] = j]
  /\ target' = [target EXCEPT ![p] = to]
  /\ caller' = [caller EXCEPT ![j] = who]
  /\ Become(j, "posting")
  /\ UNCHANGED <<messages_, stop_, event_, send_graph_, running, waited, ready, qpc,
                 debug, aborted>>

PostTask(p, j, to) == BeginCall(p, j, to, Nobody, "post")

(* A call from another actor; only a thread registers in the send graph.   *)
BlockingCall(p, j, to) ==
  /\ p # to
  /\ ~stop_[to]
  /\ BeginCall(p, j, to, p, IF debug /\ p \in Threads THEN "register" ELSE "post")

(* A call on the thread itself runs at once.                               *)
CallSelf(p, j) ==
  /\ p \in Threads
  /\ pc[p] = "run"
  /\ fate[j] = "new"
  /\ ~stop_[p]
  /\ Become(j, "done")
  /\ UNCHANGED <<messages_, stop_, event_, send_graph_, pc, running, callVars, ready,
                 caller, qpc, debug, aborted>>

(* A call on a thread that is quitting: a failed RTC_DCHECK, or nothing.   *)
CallQuitting(p, j, to) ==
  /\ pc[p] = "run"
  /\ fate[j] = "new"
  /\ pc[to] # "destroyed"
  /\ stop_[to]
  /\ IF debug
       THEN Abort
       ELSE /\ Become(j, "dropped")
            /\ UNCHANGED <<messages_, stop_, event_, send_graph_, pc, running, callVars,
                           ready, caller, qpc, debug, aborted>>

(* Every thread a path of the send graph leads to from `to`, and `to`.     *)
Closed(S) == \A x \in S : send_graph_[x] \subseteq S
AllTargets(to) ==
  {x \in Threads : \A S \in SUBSET Threads : to \in S /\ Closed(S) => x \in S}

(* Mutant: the graph is checked and the new edge is not recorded.          *)
Register_Forgets(p) ==
  /\ pc[p] = "register"
  /\ IF p \in AllTargets(target[p])
       THEN Abort
       ELSE /\ GoTo(p, "post")
            /\ UNCHANGED <<messages_, stop_, event_, send_graph_, running, callVars,
                           jobVars, qpc, debug, aborted>>

Register(p) ==
  /\ pc[p] = "register"
  /\ IF p \in AllTargets(target[p])
       THEN Abort
       ELSE /\ send_graph_' = [send_graph_ EXCEPT ![p] = @ \cup {target[p]}]
            /\ GoTo(p, "post")
            /\ UNCHANGED <<messages_, stop_, event_, running, callVars, jobVars, qpc,
                           debug, aborted>>

(* PostTask on a thread that is quitting destroys the closure, and the     *)
(* cleanup it holds runs in the caller itself.                             *)
PostRefused(p) ==
  /\ pc[p] = "post"
  /\ stop_[target[p]]
  /\ Become(job[p], "dropped")
  /\ IF caller[job[p]] = Nobody
       THEN /\ LeaveCall(p, "run")
            /\ UNCHANGED <<event_, ready>>
       ELSE /\ GoTo(p, "test")
            /\ ready' = [ready EXCEPT ![job[p]] = TRUE]
            /\ event_' = IF p \in Threads THEN [event_ EXCEPT ![p] = TRUE] ELSE event_
            /\ UNCHANGED callVars
  /\ UNCHANGED <<messages_, stop_, send_graph_, running, caller, qpc, debug, aborted>>

PostAdmitted(p) ==
  /\ pc[p] = "post"
  /\ ~stop_[target[p]]
  /\ GoTo(p, "push")
  /\ UNCHANGED <<messages_, stop_, event_, send_graph_, running, callVars, jobVars, qpc,
                 debug, aborted>>

Push(p) ==
  /\ pc[p] = "push"
  /\ messages_' = [messages_ EXCEPT ![target[p]] = Append(@, job[p])]
  /\ Become(job[p], "queued")
  /\ GoTo(p, "wakeup")
  /\ UNCHANGED <<stop_, event_, send_graph_, running, callVars, ready, caller, qpc,
                 debug, aborted>>

WakeUp(p) ==
  /\ pc[p] = "wakeup"
  /\ event_' = [event_ EXCEPT ![target[p]] = TRUE]
  /\ IF caller[job[p]] = Nobody
       THEN LeaveCall(p, "run")
       ELSE GoTo(p, "test") /\ UNCHANGED callVars
  /\ UNCHANGED <<messages_, stop_, send_graph_, running, jobVars, qpc, debug, aborted>>

-----------------------------------------------------------------------------
(* The caller's wait *)

(* Under the target's mutex: is the call done?  A thread that has waited   *)
(* may have consumed a wakeup meant for its queue, and sets it again.      *)
TestReady(p) ==
  /\ pc[p] = "test"
  /\ p \in Threads
  /\ IF ready[job[p]]
       THEN IF waited[p] THEN GoTo(p, "rewake") /\ UNCHANGED callVars
                         ELSE LeaveCall(p, "run")
       ELSE GoTo(p, "blocked") /\ UNCHANGED callVars
  /\ UNCHANGED <<messages_, stop_, event_, send_graph_, running, jobVars, qpc, debug,
                 aborted>>

(* Mutant: any wakeup ends the call, an `if` in place of the `while`.      *)
WaitInCall_Once(p) ==
  /\ pc[p] = "blocked"
  /\ event_[p]
  /\ event_' = [event_ EXCEPT ![p] = FALSE]
  /\ waited' = [waited EXCEPT ![p] = TRUE]
  /\ GoTo(p, "rewake")
  /\ UNCHANGED <<messages_, stop_, send_graph_, running, job, target, jobVars, qpc,
                 debug, aborted>>

WaitInCall(p) ==
  /\ pc[p] = "blocked"
  /\ event_[p]
  /\ event_' = [event_ EXCEPT ![p] = FALSE]
  /\ waited' = [waited EXCEPT ![p] = TRUE]
  /\ GoTo(p, "test")
  /\ UNCHANGED <<messages_, stop_, send_graph_, running, job, target, jobVars, qpc,
                 debug, aborted>>

Rewake(p) ==
  /\ pc[p] = "rewake"
  /\ event_' = [event_ EXCEPT ![p] = TRUE]
  /\ LeaveCall(p, "run")
  /\ UNCHANGED <<messages_, stop_, send_graph_, running, jobVars, qpc, debug, aborted>>

(* A caller that is no rtc::Thread waits on an event of its own.           *)
WaitDone(p) ==
  /\ pc[p] = "test"
  /\ p \in Outsiders
  /\ ready[job[p]]
  /\ LeaveCall(p, "run")
  /\ UNCHANGED <<messages_, stop_, event_, send_graph_, running, jobVars, qpc, debug,
                 aborted>>

-----------------------------------------------------------------------------
(* The loop of a thread *)

TakeMessage(t) ==
  /\ pc[t] = "scan"
  /\ messages_[t] # << >>
  /\ messages_' = [messages_ EXCEPT ![t] = Tail(@)]
  /\ running' = [running EXCEPT ![t] = Head(messages_[t])]
  /\ Become(Head(messages_[t]), "running")
  /\ GoTo(t, "run")
  /\ UNCHANGED <<stop_, event_, send_graph_, callVars, ready, caller, qpc, debug,
                 aborted>>

NothingReady(t) ==
  /\ pc[t] = "scan"
  /\ messages_[t] = << >>
  /\ GoTo(t, "check")
  /\ UNCHANGED <<messages_, stop_, event_, send_graph_, running, callVars, jobVars, qpc,
                 debug, aborted>>

CheckQuitting(t) ==
  /\ pc[t] = "check"
  /\ GoTo(t, IF stop_[t] THEN "exited" ELSE "wait")
  /\ UNCHANGED <<messages_, stop_, event_, send_graph_, running, callVars, jobVars, qpc,
                 debug, aborted>>

WaitInGet(t) ==
  /\ pc[t] = "wait"
  /\ event_[t]
  /\ event_' = [event_ EXCEPT ![t] = FALSE]
  /\ GoTo(t, "scan")
  /\ UNCHANGED <<messages_, stop_, send_graph_, running, callVars, jobVars, qpc,
                 debug, aborted>>

(* The code of the thread, or the functor it runs, returns.                *)
ReturnFromCode(t) ==
  /\ pc[t] = "run"
  /\ IF running[t] = NoJob
       THEN GoTo(t, "scan") /\ UNCHANGED <<running, fate>>
       ELSE /\ Become(running[t], "done")
            /\ IF caller[running[t]] = Nobody
                 THEN /\ GoTo(t, "scan")
                      /\ running' = [running EXCEPT ![t] = NoJob]
                 ELSE GoTo(t, "cleanup") /\ UNCHANGED running
  /\ UNCHANGED <<messages_, stop_, event_, send_graph_, callVars, ready, caller, qpc,
                 debug, aborted>>

(* The closure is destroyed, and with it the cleanup of the call: `ready`  *)
(* under this thread's mutex, then the wakeup of a caller with an event.   *)
(* Mutant: the cleanup does not wake the caller.                           *)
SetReady_Silent(t) ==
  /\ pc[t] = "cleanup"
  /\ ready' = [ready EXCEPT ![running[t]] = TRUE]
  /\ GoTo(t, "scan")
  /\ running' = [running EXCEPT ![t] = NoJob]
  /\ UNCHANGED <<messages_, stop_, event_, send_graph_, callVars, caller, fate, qpc,
                 debug, aborted>>

SetReady(t) ==
  /\ pc[t] = "cleanup"
  /\ ready' = [ready EXCEPT ![running[t]] = TRUE]
  /\ IF caller[running[t]] \in Threads
       THEN GoTo(t, "reply") /\ UNCHANGED running
       ELSE GoTo(t, "scan") /\ running' = [running EXCEPT ![t] = NoJob]
  /\ UNCHANGED <<messages_, stop_, event_, send_graph_, callVars, caller, fate, qpc,
                 debug, aborted>>

(* Mutant: the thread wakes its own socket server in place of the caller's. *)
WakeCaller_WakesItself(t) ==
  /\ pc[t] = "reply"
  /\ event_' = [event_ EXCEPT ![t] = TRUE]
  /\ running' = [running EXCEPT ![t] = NoJob]
  /\ GoTo(t, "scan")
  /\ UNCHANGED <<messages_, stop_, send_graph_, callVars, jobVars, qpc, debug, aborted>>

WakeCaller(t) ==
  /\ pc[t] = "reply"
  /\ event_' = [event_ EXCEPT ![caller[running[t]]] = TRUE]
  /\ running' = [running EXCEPT ![t] = NoJob]
  /\ GoTo(t, "scan")
  /\ UNCHANGED <<messages_, stop_, send_graph_, callVars, jobVars, qpc, debug, aborted>>

-----------------------------------------------------------------------------
(* The life of a thread *)

Quit(t) ==
  /\ t \in Stoppable
  /\ qpc[t] = "no"
  /\ stop_' = [stop_ EXCEPT ![t] = TRUE]
  /\ qpc' = [qpc EXCEPT ![t] = "wake"]
  /\ UNCHANGED <<messages_, event_, send_graph_, pc, running, callVars, jobVars,
                 debug, aborted>>

QuitWakeUp(t) ==
  /\ qpc[t] = "wake"
  /\ event_' = [event_ EXCEPT ![t] = TRUE]
  /\ qpc' = [qpc EXCEPT ![t] = "done"]
  /\ UNCHANGED <<messages_, stop_, send_graph_, pc, running, callVars, jobVars,
                 debug, aborted>>

(* The program destroys a stopped thread that nobody uses: no call on it   *)
(* is in progress and no reply to it is on its way.  It leaves the graph.  *)
Unused(t) ==
  \A p \in Actors :
    /\ target[p] # t
    /\ p \in Threads /\ pc[p] = "reply" => caller[running[p]] # t

Destroy(t) ==
  /\ pc[t] = "exited"
  /\ qpc[t] = "done"
  /\ Unused(t)
  /\ GoTo(t, "destroyed")
  /\ messages_' = [messages_ EXCEPT ![t] = << >>]
  /\ fate' = [j \in Jobs |->
                IF \E i \in DOMAIN messages_[t] : messages_[t][i] = j
                  THEN "dropped" ELSE fate[j]]
  /\ send_graph_' = IF debug
                      THEN [x \in Threads |->
                              IF x = t THEN {} ELSE send_graph_[x] \ {t}]
                      ELSE send_graph_
  /\ UNCHANGED <<stop_, event_, running, callVars, ready, caller, qpc, debug, aborted>>

-----------------------------------------------------------------------------
Begin(p) ==
  \E j \in Jobs :
    \/ CallSelf(p, j)
    \/ \E to \in Threads :
         PostTask(p, j, to) \/ BlockingCall(p, j, to) \/ CallQuitting(p, j, to)

Calling(p) ==
  \/ Register(p)
  \/ PostRefused(p)
  \/ PostAdmitted(p)
  \/ Push(p)
  \/ WakeUp(p)
  \/ TestReady(p)
  \/ WaitInCall(p)
  \/ Rewake(p)
  \/ WaitDone(p)

Loop(t) ==
  \/ TakeMessage(t)
  \/ NothingReady(t)
  \/ CheckQuitting(t)
  \/ WaitInGet(t)
  \/ ReturnFromCode(t)
  \/ SetReady(t)
  \/ WakeCaller(t)

Step(p) == ~aborted /\ Calling(p)
LoopStep(t) == ~aborted /\ Loop(t)
QuitStep(t) == ~aborted /\ QuitWakeUp(t)

Next ==
  \/ \E p \in Actors : (~aborted /\ Begin(p)) \/ Step(p)
  \/ \E t \in Threads :
       LoopStep(t) \/ QuitStep(t) \/ (~aborted /\ (Quit(t) \/ Destroy(t)))

Spec == Init /\ [][Next]_vars

(* Every thread that can run is scheduled, and the code a thread runs      *)
(* comes to its end; nobody has to call, to quit or to destroy.            *)
Fairness ==
  /\ \A p \in Actors : WF_vars(Step(p))
  /\ \A t \in Threads : WF_vars(LoopStep(t)) /\ WF_vars(QuitStep(t))

FairSpec == Spec /\ Fairness

-----------------------------------------------------------------------------
(* Properties *)

Places ==
  {"run", "register", "post", "push", "wakeup", "test", "blocked", "rewake", "scan",
   "check", "wait", "cleanup", "reply", "exited", "destroyed"}

(* Whoever is in a call has a job and a target; who replies has a job.     *)
CallerKnown ==
  \A p \in Actors :
    /\ pc[p] \in {"register", "post", "push", "wakeup", "test", "blocked", "rewake"} =>
         job[p] \in Jobs /\ target[p] \in Threads
    /\ pc[p] \in {"register", "blocked", "rewake"} => p \in Threads
ReplyKnown == \A t \in Threads : pc[t] \in {"cleanup", "reply"} => running[t] \in Jobs

TypeOK ==
  /\ messages_ \in [Threads -> Seq(Jobs)]
  /\ stop_ \in [Threads -> BOOLEAN]
  /\ event_ \in [Threads -> BOOLEAN]
  /\ send_graph_ \in [Threads -> SUBSET Threads]
  /\ pc \in [Actors -> Places]
  /\ running \in [Threads -> Jobs \cup {NoJob}]
  /\ job \in [Actors -> Jobs \cup {NoJob}]
  /\ target \in [Actors -> Threads \cup {Nobody}]
  /\ waited \in [Actors -> BOOLEAN]
  /\ ready \in [Jobs -> BOOLEAN]
  /\ caller \in [Jobs -> Actors \cup {Nobody}]
  /\ fate \in [Jobs -> {"new", "posting", "queued", "running", "done", "dropped"}]
  /\ qpc \in [Threads -> {"no", "wake", "done"}]
  /\ debug \in BOOLEAN
  /\ aborted \in BOOLEAN
  /\ CallerKnown
  /\ ReplyKnown

(* A wakeup is never lost, though replies, posts and Quit share one event  *)
(* per thread and the wait in BlockingCall consumes it for all of them.  A *)
(* thread that waits while its event is clear and nobody is about to set   *)
(* it has nothing to wait out: in Get, no message and no order to quit; in *)
(* BlockingCall, no reply.                                                 *)
WakeComing(t) ==
  \/ qpc[t] = "wake"
  \/ \E p \in Actors : pc[p] = "wakeup" /\ target[p] = t
  \/ \E x \in Threads : pc[x] = "reply" /\ caller[running[x]] = t

NoLostWakeup ==
  \A t \in Threads :
    ~event_[t] /\ ~WakeComing(t) =>
      /\ pc[t] = "wait" => messages_[t] = << >> /\ ~stop_[t]
      /\ pc[t] = "blocked" => ~ready[job[t]]

(* BlockingCall never returns while its functor is queued or running: the  *)
(* functor and the flag `ready` live on the caller's stack.                *)
CallerStays ==
  \A j \in Jobs :
    caller[j] # Nobody /\ fate[j] \in {"queued", "running"} =>
      job[caller[j]] = j /\ pc[caller[j]] \in {"wakeup", "test", "blocked"}

(* "There are no cycles in the graph" (thread.cc:165-166): every set of    *)
(* threads has one that sends to none of the set.                          *)
Acyclic ==
  \A S \in SUBSET Threads : S # {} => \E x \in S : send_graph_[x] \cap S = {}

(* In a build with RTC_DCHECK_IS_ON no set of threads waits for each       *)
(* other: some thread of it does not wait for a thread of the set.         *)
WaitsIn(x, S) == pc[x] \in {"test", "blocked"} /\ target[x] \in S

NoCyclicWait ==
  debug => \A S \in SUBSET Threads : S # {} => \E x \in S : ~WaitsIn(x, S)

(* A call returns, with the functor run or dropped, unless the program     *)
(* aborts, a thread is told to quit (its loop may end before it reaches    *)
(* the call) or threads wait for each other, which only a release build    *)
(* lets them do.                                                           *)
WaitInACircle ==
  \E S \in SUBSET Threads : S # {} /\ \A x \in S : WaitsIn(x, S)

CallReturns ==
  \A j \in Jobs :
    []<>(\/ caller[j] = Nobody \/ job[caller[j]] # j
         \/ aborted
         \/ \E t \in Threads : qpc[t] # "no"
         \/ WaitInACircle)
==============================================================================
