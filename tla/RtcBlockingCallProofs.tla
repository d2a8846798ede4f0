------------------------ MODULE RtcBlockingCallProofs ------------------------
(***************************************************************************)
(* Proofs about RtcBlockingCall: the send graph never has a cycle, and     *)
(* when RTC_DCHECK_IS_ON no threads wait for each other in BlockingCall,   *)
(* for any number of threads, outsiders and jobs; and PosixEvent           *)
(* implements EventContract, for any number of threads and any timeouts.   *)
(***************************************************************************)
EXTENDS MCCalls, TLAPS

-----------------------------------------------------------------------------
(* Type correctness *)

LEMMA InitTypeOK == Init => TypeOK
<1> SUFFICES ASSUME Init PROVE TypeOK
  OBVIOUS
<1>1. messages_ \in [Threads -> Seq(Jobs)]
  <2>1. << >> \in Seq(Jobs)
    OBVIOUS
  <2> QED
    BY <2>1 DEF Init
<1>2. \A p \in Actors : pc[p] = "run"
  BY DEF Init
<1>3. \A t \in Threads : pc[t] = "run"
  BY DEF Init, Actors
<1> QED
  BY <1>1, <1>2, <1>3 DEF Init, TypeOK, CallerKnown, ReplyKnown, Places

LEMMA BeginTypeOK ==
  ASSUME TypeOK, NEW p \in Actors, Begin(p)
  PROVE  TypeOK'
<1>1. PICK j \in Jobs :
        \/ CallSelf(p, j)
        \/ \E to \in Threads :
             PostTask(p, j, to) \/ BlockingCall(p, j, to) \/ CallQuitting(p, j, to)
  BY DEF Begin
<1>2. ASSUME UNCHANGED <<messages_, stop_, event_, send_graph_, pc, running, callVars, ready,
                         caller, qpc, debug>>,
             fate' = fate \/ fate' = [fate EXCEPT ![j] = "done"]
                          \/ fate' = [fate EXCEPT ![j] = "dropped"],
             aborted' \in BOOLEAN
      PROVE  TypeOK'
  BY <1>2 DEF TypeOK, callVars, CallerKnown, ReplyKnown
<1>3. CASE CallSelf(p, j)
  BY <1>2, <1>3 DEF CallSelf, Become, callVars, TypeOK
<1>4. ASSUME NEW to \in Threads, CallQuitting(p, j, to)
      PROVE  TypeOK'
  BY <1>2, <1>4 DEF CallQuitting, Abort, Become, callVars, jobVars, TypeOK
<1>5. ASSUME NEW to \in Threads, NEW who \in Actors \cup {Nobody},
             NEW w \in {"register", "post"}, w = "register" => p \in Threads,
             BeginCall(p, j, to, who, w)
      PROVE  TypeOK'
  <2>1. /\ pc[p] = "run"
        /\ pc' = [pc EXCEPT ![p] = w]
        /\ job' = [job EXCEPT ![p] = j]
        /\ target' = [target EXCEPT ![p] = to]
        /\ caller' = [caller EXCEPT ![j] = who]
        /\ fate' = [fate EXCEPT ![j] = "posting"]
        /\ UNCHANGED <<messages_, stop_, event_, send_graph_, running, waited, ready, qpc,
                       debug, aborted>>
    BY <1>5 DEF BeginCall, GoTo, Become
  <2>2. pc' \in [Actors -> Places]
    BY <2>1 DEF TypeOK, Places
  <2>3. job' \in [Actors -> Jobs \cup {NoJob}] /\ target' \in [Actors -> Threads \cup {Nobody}]
    BY <2>1 DEF TypeOK
  <2>4. /\ caller' \in [Jobs -> Actors \cup {Nobody}]
        /\ fate' \in [Jobs -> {"new", "posting", "queued", "running", "done", "dropped"}]
    BY <2>1 DEF TypeOK
  <2>5. /\ pc'[p] = w /\ job'[p] = j /\ target'[p] = to
        /\ \A q \in Actors :
             q # p => pc'[q] = pc[q] /\ job'[q] = job[q] /\ target'[q] = target[q]
    BY <2>1 DEF TypeOK
  <2>6. CallerKnown'
    BY <1>5, <2>5 DEF TypeOK, CallerKnown
  <2>7. ReplyKnown'
    BY <2>1, <2>5 DEF TypeOK, ReplyKnown, Actors
  <2> QED
    BY <2>1, <2>2, <2>3, <2>4, <2>6, <2>7 DEF TypeOK
<1>6. ASSUME NEW to \in Threads, PostTask(p, j, to)
      PROVE  TypeOK'
  BY <1>5, <1>6 DEF PostTask
<1>7. ASSUME NEW to \in Threads, BlockingCall(p, j, to)
      PROVE  TypeOK'
  BY <1>5, <1>7 DEF BlockingCall
<1> QED
  BY <1>1, <1>3, <1>4, <1>6, <1>7

(* A step of a call moves its actor alone: it stays in the call, or leaves *)
(* it.                                                                     *)
InCall == {"register", "post", "push", "wakeup", "test", "blocked", "rewake"}

Moves(p) ==
  /\ \A q \in Actors : q # p => pc'[q] = pc[q] /\ job'[q] = job[q] /\ target'[q] = target[q]
  /\ pc'[p] \in InCall => pc[p] \in InCall /\ job'[p] = job[p] /\ target'[p] = target[p]
  /\ pc'[p] \in {"blocked", "rewake"} => p \in Threads
  /\ pc'[p] \notin {"register", "cleanup", "reply"}

LEMMA MovesKnown ==
  ASSUME CallerKnown, ReplyKnown, NEW p \in Actors, Moves(p), running' = running
  PROVE  CallerKnown' /\ ReplyKnown'
<1>1. CallerKnown'
  <2> SUFFICES ASSUME NEW q \in Actors
               PROVE  /\ pc'[q] \in InCall => job'[q] \in Jobs /\ target'[q] \in Threads
                      /\ pc'[q] \in {"register", "blocked", "rewake"} => q \in Threads
    BY DEF CallerKnown, InCall
  <2>1. CASE q = p
    BY <2>1 DEF CallerKnown, Moves, InCall
  <2>2. CASE q # p
    BY <2>2 DEF CallerKnown, Moves, InCall
  <2> QED
    BY <2>1, <2>2
<1>2. ReplyKnown'
  BY DEF ReplyKnown, Moves, Actors
<1> QED
  BY <1>1, <1>2

LEMMA StayMoves ==
  ASSUME TypeOK, NEW p \in Actors, NEW w \in {"post", "push", "wakeup", "test", "blocked", "rewake"},
         pc[p] \in InCall, GoTo(p, w), UNCHANGED <<job, target>>,
         w \in {"blocked", "rewake"} => p \in Threads
  PROVE  Moves(p) /\ pc' \in [Actors -> Places]
<1>1. pc'[p] = w /\ \A q \in Actors : q # p => pc'[q] = pc[q]
  BY DEF TypeOK, GoTo
<1>2. pc' \in [Actors -> Places]
  BY DEF TypeOK, GoTo, Places
<1> QED
  BY <1>1, <1>2 DEF Moves, InCall

LEMMA LeaveMoves ==
  ASSUME TypeOK, NEW p \in Actors, pc[p] \in InCall, LeaveCall(p, "run")
  PROVE  /\ Moves(p)
         /\ pc' \in [Actors -> Places]
         /\ job' \in [Actors -> Jobs \cup {NoJob}]
         /\ target' \in [Actors -> Threads \cup {Nobody}]
         /\ waited' \in [Actors -> BOOLEAN]
<1>1. pc'[p] = "run" /\ \A q \in Actors : q # p => pc'[q] = pc[q]
  BY DEF TypeOK, LeaveCall, GoTo
<1>2. \A q \in Actors : q # p => job'[q] = job[q] /\ target'[q] = target[q]
  BY DEF TypeOK, LeaveCall
<1>3. pc' \in [Actors -> Places]
  BY DEF TypeOK, LeaveCall, GoTo, Places
<1>4. job' \in [Actors -> Jobs \cup {NoJob}]
  BY DEF TypeOK, LeaveCall
<1>5. target' \in [Actors -> Threads \cup {Nobody}]
  BY DEF TypeOK, LeaveCall
<1>6. waited' \in [Actors -> BOOLEAN]
  BY DEF TypeOK, LeaveCall
<1>7. Moves(p)
  BY <1>1, <1>2 DEF Moves, InCall
<1> QED
  BY <1>3, <1>4, <1>5, <1>6, <1>7

LEMMA CallingTypeOK ==
  ASSUME TypeOK, NEW p \in Actors, Calling(p)
  PROVE  TypeOK'
<1>0. CallerKnown /\ ReplyKnown
  BY DEF TypeOK
<1>1. CASE Register(p)
  <2>1. CASE p \in AllTargets(target[p])
    BY <1>1, <2>1 DEF Register, Abort, TypeOK, callVars, jobVars, CallerKnown, ReplyKnown
  <2>2. CASE p \notin AllTargets(target[p])
    <3>1. /\ pc[p] \in InCall /\ GoTo(p, "post") /\ UNCHANGED <<job, target, waited>>
          /\ UNCHANGED <<messages_, stop_, event_, running, jobVars, qpc, debug, aborted>>
          /\ send_graph_' = [send_graph_ EXCEPT ![p] = @ \cup {target[p]}]
      BY <1>1, <2>2 DEF Register, InCall, callVars
    <3>2. p \in Threads /\ target[p] \in Threads
      BY <1>0, <1>1 DEF Register, CallerKnown
    <3>3. send_graph_' \in [Threads -> SUBSET Threads]
      BY <3>1, <3>2 DEF TypeOK
    <3>4. Moves(p) /\ pc' \in [Actors -> Places]
      BY <3>1, StayMoves
    <3>5. CallerKnown' /\ ReplyKnown'
      BY <1>0, <3>1, <3>4, MovesKnown
    <3> QED
      BY <3>1, <3>3, <3>4, <3>5 DEF TypeOK, jobVars
  <2> QED
    BY <2>1, <2>2
<1>2. CASE PostRefused(p)
  <2>1. /\ pc[p] = "post" /\ pc[p] \in InCall
        /\ UNCHANGED <<messages_, stop_, send_graph_, running, caller, qpc, debug, aborted>>
        /\ fate' = [fate EXCEPT ![job[p]] = "dropped"]
    BY <1>2 DEF PostRefused, Become, InCall
  <2>2. fate' \in [Jobs -> {"new", "posting", "queued", "running", "done", "dropped"}]
    BY <2>1 DEF TypeOK
  <2>3. CASE caller[job[p]] = Nobody
    <3>1. LeaveCall(p, "run") /\ UNCHANGED <<event_, ready>>
      BY <1>2, <2>3 DEF PostRefused
    <3> QED
      BY <1>0, <2>1, <2>2, <3>1, LeaveMoves, MovesKnown DEF TypeOK
  <2>4. CASE caller[job[p]] # Nobody
    <3>1. /\ GoTo(p, "test") /\ UNCHANGED <<job, target, waited>>
          /\ ready' = [ready EXCEPT ![job[p]] = TRUE]
          /\ event_' = IF p \in Threads THEN [event_ EXCEPT ![p] = TRUE] ELSE event_
      BY <1>2, <2>4 DEF PostRefused, callVars
    <3>2. Moves(p) /\ pc' \in [Actors -> Places]
      BY <2>1, <3>1, StayMoves
    <3>3. CallerKnown' /\ ReplyKnown'
      BY <1>0, <2>1, <3>2, MovesKnown
    <3>4. ready' \in [Jobs -> BOOLEAN] /\ event_' \in [Threads -> BOOLEAN]
      BY <3>1 DEF TypeOK
    <3> QED
      BY <2>1, <2>2, <3>1, <3>2, <3>3, <3>4 DEF TypeOK
  <2> QED
    BY <2>3, <2>4
<1>3. CASE PostAdmitted(p)
  <2>1. /\ pc[p] \in InCall /\ GoTo(p, "push") /\ UNCHANGED <<job, target, waited>>
        /\ UNCHANGED <<messages_, stop_, event_, send_graph_, running, jobVars, qpc,
                       debug, aborted>>
    BY <1>3 DEF PostAdmitted, InCall, callVars
  <2>2. Moves(p) /\ pc' \in [Actors -> Places]
    BY <2>1, StayMoves
  <2>3. CallerKnown' /\ ReplyKnown'
    BY <1>0, <2>1, <2>2, MovesKnown
  <2> QED
    BY <2>1, <2>2, <2>3 DEF TypeOK, jobVars
<1>4. CASE Push(p)
  <2>1. /\ pc[p] \in InCall /\ pc[p] = "push" /\ GoTo(p, "wakeup")
        /\ UNCHANGED <<job, target, waited>>
        /\ UNCHANGED <<stop_, event_, send_graph_, running, ready, caller, qpc, debug,
                       aborted>>
        /\ messages_' = [messages_ EXCEPT ![target[p]] = Append(@, job[p])]
        /\ fate' = [fate EXCEPT ![job[p]] = "queued"]
    BY <1>4 DEF Push, InCall, callVars, Become
  <2>2. Moves(p) /\ pc' \in [Actors -> Places]
    BY <2>1, StayMoves
  <2>3. CallerKnown' /\ ReplyKnown'
    BY <1>0, <2>1, <2>2, MovesKnown
  <2>4. job[p] \in Jobs /\ target[p] \in Threads
    BY <1>0, <2>1 DEF CallerKnown
  <2>5. messages_' \in [Threads -> Seq(Jobs)]
    BY <2>1, <2>4 DEF TypeOK
  <2>6. fate' \in [Jobs -> {"new", "posting", "queued", "running", "done", "dropped"}]
    BY <2>1 DEF TypeOK
  <2> QED
    BY <2>1, <2>2, <2>3, <2>5, <2>6 DEF TypeOK
<1>5. CASE WakeUp(p)
  <2>1. /\ pc[p] \in InCall
        /\ UNCHANGED <<messages_, stop_, send_graph_, running, jobVars, qpc, debug, aborted>>
        /\ event_' = [event_ EXCEPT ![target[p]] = TRUE]
    BY <1>5 DEF WakeUp, InCall
  <2>2. event_' \in [Threads -> BOOLEAN]
    BY <2>1 DEF TypeOK
  <2>3. CASE LeaveCall(p, "run")
    BY <1>0, <2>1, <2>2, <2>3, LeaveMoves, MovesKnown DEF TypeOK, jobVars
  <2>4. CASE GoTo(p, "test") /\ UNCHANGED callVars
    <3>1. Moves(p) /\ pc' \in [Actors -> Places]
      BY <2>1, <2>4, StayMoves DEF callVars
    <3>2. CallerKnown' /\ ReplyKnown'
      BY <1>0, <2>1, <3>1, MovesKnown
    <3> QED
      BY <2>1, <2>2, <2>4, <3>1, <3>2 DEF TypeOK, jobVars, callVars
  <2> QED
    BY <1>5, <2>3, <2>4 DEF WakeUp
<1>6. CASE TestReady(p)
  <2>1. /\ pc[p] \in InCall /\ p \in Threads
        /\ UNCHANGED <<messages_, stop_, event_, send_graph_, running, jobVars, qpc,
                       debug, aborted>>
    BY <1>6 DEF TestReady, InCall
  <2>2. CASE LeaveCall(p, "run")
    BY <1>0, <2>1, <2>2, LeaveMoves, MovesKnown DEF TypeOK, jobVars
  <2>3. ASSUME NEW w \in {"rewake", "blocked"}, GoTo(p, w), UNCHANGED callVars
        PROVE  TypeOK'
    <3>1. Moves(p) /\ pc' \in [Actors -> Places]
      BY <2>1, <2>3, StayMoves DEF callVars
    <3>2. CallerKnown' /\ ReplyKnown'
      BY <1>0, <2>1, <3>1, MovesKnown
    <3> QED
      BY <2>1, <2>3, <3>1, <3>2 DEF TypeOK, jobVars, callVars
  <2> QED
    BY <1>6, <2>2, <2>3 DEF TestReady
<1>7. CASE WaitInCall(p)
  <2>1. /\ pc[p] \in InCall /\ GoTo(p, "test") /\ UNCHANGED <<job, target>>
        /\ UNCHANGED <<messages_, stop_, send_graph_, running, jobVars, qpc, debug, aborted>>
        /\ event_' = [event_ EXCEPT ![p] = FALSE]
        /\ waited' = [waited EXCEPT ![p] = TRUE]
    BY <1>7 DEF WaitInCall, InCall
  <2>2. Moves(p) /\ pc' \in [Actors -> Places]
    BY <2>1, StayMoves
  <2>3. CallerKnown' /\ ReplyKnown'
    BY <1>0, <2>1, <2>2, MovesKnown
  <2>4. event_' \in [Threads -> BOOLEAN] /\ waited' \in [Actors -> BOOLEAN]
    BY <2>1 DEF TypeOK
  <2> QED
    BY <2>1, <2>2, <2>3, <2>4 DEF TypeOK, jobVars
<1>8. CASE Rewake(p)
  <2>1. /\ pc[p] \in InCall /\ LeaveCall(p, "run")
        /\ UNCHANGED <<messages_, stop_, send_graph_, running, jobVars, qpc, debug, aborted>>
        /\ event_' = [event_ EXCEPT ![p] = TRUE]
    BY <1>8 DEF Rewake, InCall
  <2>2. event_' \in [Threads -> BOOLEAN]
    BY <2>1 DEF TypeOK
  <2> QED
    BY <1>0, <2>1, <2>2, LeaveMoves, MovesKnown DEF TypeOK, jobVars
<1>9. CASE WaitDone(p)
  <2>1. /\ pc[p] \in InCall /\ LeaveCall(p, "run")
        /\ UNCHANGED <<messages_, stop_, event_, send_graph_, running, jobVars, qpc,
                       debug, aborted>>
    BY <1>9 DEF WaitDone, InCall
  <2> QED
    BY <1>0, <2>1, LeaveMoves, MovesKnown DEF TypeOK, jobVars
<1> QED
  BY <1>1, <1>2, <1>3, <1>4, <1>5, <1>6, <1>7, <1>8, <1>9 DEF Calling

(* A step of a loop moves its thread alone, which is in no call.           *)
LEMMA LoopMoves ==
  ASSUME TypeOK, NEW t \in Threads, NEW w \in Places \ InCall, pc[t] \notin InCall,
         GoTo(t, w), UNCHANGED <<job, target>>,
         \A x \in Threads : x # t => running'[x] = running[x],
         w \in {"cleanup", "reply"} => running'[t] \in Jobs
  PROVE  pc' \in [Actors -> Places] /\ CallerKnown' /\ ReplyKnown'
<1>1. pc' \in [Actors -> Places]
  BY DEF TypeOK, GoTo, Actors, Places
<1>2. pc'[t] = w /\ \A q \in Actors : q # t => pc'[q] = pc[q]
  BY DEF TypeOK, GoTo, Actors
<1>3. CallerKnown'
  BY <1>2 DEF TypeOK, CallerKnown, InCall
<1>4. ReplyKnown'
  BY <1>2 DEF TypeOK, ReplyKnown, Actors
<1> QED
  BY <1>1, <1>3, <1>4

LEMMA LoopTypeOK ==
  ASSUME TypeOK, NEW t \in Threads, Loop(t)
  PROVE  TypeOK'
<1> DEFINE Fates == {"new", "posting", "queued", "running", "done", "dropped"}
<1>1. CASE TakeMessage(t)
  <2>1. /\ pc[t] \notin InCall /\ GoTo(t, "run") /\ messages_[t] # << >>
        /\ messages_' = [messages_ EXCEPT ![t] = Tail(@)]
        /\ running' = [running EXCEPT ![t] = Head(messages_[t])]
        /\ fate' = [fate EXCEPT ![Head(messages_[t])] = "running"]
        /\ UNCHANGED <<stop_, event_, send_graph_, job, target, waited, ready, caller, qpc,
                       debug, aborted>>
    BY <1>1 DEF TakeMessage, InCall, Become, callVars
  <2>2. messages_[t] \in Seq(Jobs)
    BY DEF TypeOK
  <2>3. Head(messages_[t]) \in Jobs /\ Tail(messages_[t]) \in Seq(Jobs)
    BY <2>1, <2>2
  <2>4. messages_' \in [Threads -> Seq(Jobs)] /\ running' \in [Threads -> Jobs \cup {NoJob}]
    BY <2>1, <2>3 DEF TypeOK
  <2>5. fate' \in [Jobs -> Fates]
    BY <2>1 DEF TypeOK
  <2>6. \A x \in Threads : x # t => running'[x] = running[x]
    BY <2>1 DEF TypeOK
  <2>7. pc' \in [Actors -> Places] /\ CallerKnown' /\ ReplyKnown'
    BY <2>1, <2>6, LoopMoves DEF Places, InCall
  <2> QED
    BY <2>1, <2>4, <2>5, <2>7 DEF TypeOK
<1>2. CASE NothingReady(t) \/ CheckQuitting(t)
  <2>1. PICK w \in {"check", "exited", "wait"} : GoTo(t, w)
    BY <1>2 DEF NothingReady, CheckQuitting
  <2>2. /\ pc[t] \notin InCall
        /\ UNCHANGED <<messages_, stop_, event_, send_graph_, running, callVars, jobVars,
                       qpc, debug, aborted>>
    BY <1>2 DEF NothingReady, CheckQuitting, InCall
  <2>3. pc' \in [Actors -> Places] /\ CallerKnown' /\ ReplyKnown'
    BY <2>1, <2>2, LoopMoves DEF Places, InCall, callVars
  <2> QED
    BY <2>2, <2>3 DEF TypeOK, callVars, jobVars
<1>4. CASE WaitInGet(t)
  <2>1. /\ pc[t] \notin InCall /\ GoTo(t, "scan")
        /\ event_' = [event_ EXCEPT ![t] = FALSE]
        /\ UNCHANGED <<messages_, stop_, send_graph_, running, callVars, jobVars, qpc,
                       debug, aborted>>
    BY <1>4 DEF WaitInGet, InCall
  <2>2. event_' \in [Threads -> BOOLEAN]
    BY <2>1 DEF TypeOK
  <2>3. pc' \in [Actors -> Places] /\ CallerKnown' /\ ReplyKnown'
    BY <2>1, LoopMoves DEF Places, InCall, callVars
  <2> QED
    BY <2>1, <2>2, <2>3 DEF TypeOK, callVars, jobVars
<1>5. CASE ReturnFromCode(t)
  <2>1. /\ pc[t] \notin InCall
        /\ UNCHANGED <<messages_, stop_, event_, send_graph_, job, target, waited, ready,
                       caller, qpc, debug, aborted>>
    BY <1>5 DEF ReturnFromCode, InCall, callVars
  <2>2. /\ fate' \in [Jobs -> Fates]
        /\ running' \in [Threads -> Jobs \cup {NoJob}]
        /\ \A x \in Threads : x # t => running'[x] = running[x]
    <3>1. fate' = fate \/ fate' = [fate EXCEPT ![running[t]] = "done"]
      BY <1>5 DEF ReturnFromCode, Become
    <3>2. running' = running \/ running' = [running EXCEPT ![t] = NoJob]
      BY <1>5 DEF ReturnFromCode
    <3> QED
      BY <3>1, <3>2 DEF TypeOK
  <2>3. CASE GoTo(t, "scan")
    <3>1. pc' \in [Actors -> Places] /\ CallerKnown' /\ ReplyKnown'
      BY <2>1, <2>2, <2>3, LoopMoves DEF Places, InCall
    <3> QED
      BY <2>1, <2>2, <3>1 DEF TypeOK
  <2>4. CASE GoTo(t, "cleanup") /\ running[t] # NoJob /\ UNCHANGED running
    <3>1. running'[t] \in Jobs
      BY <2>4 DEF TypeOK
    <3>2. pc' \in [Actors -> Places] /\ CallerKnown' /\ ReplyKnown'
      BY <2>1, <2>2, <2>4, <3>1, LoopMoves DEF Places, InCall
    <3> QED
      BY <2>1, <2>2, <3>2 DEF TypeOK
  <2> QED
    BY <1>5, <2>3, <2>4 DEF ReturnFromCode
<1>6. CASE SetReady(t)
  <2>1. /\ pc[t] = "cleanup" /\ pc[t] \notin InCall
        /\ ready' = [ready EXCEPT ![running[t]] = TRUE]
        /\ UNCHANGED <<messages_, stop_, event_, send_graph_, job, target, waited, caller,
                       fate, qpc, debug, aborted>>
    BY <1>6 DEF SetReady, InCall, callVars
  <2>2. ready' \in [Jobs -> BOOLEAN]
    BY <2>1 DEF TypeOK
  <2>3. CASE GoTo(t, "reply") /\ UNCHANGED running
    <3>1. running'[t] \in Jobs
      BY <2>1, <2>3 DEF TypeOK, ReplyKnown
    <3>2. pc' \in [Actors -> Places] /\ CallerKnown' /\ ReplyKnown'
      BY <2>1, <2>3, <3>1, LoopMoves DEF Places, InCall
    <3> QED
      BY <2>1, <2>2, <2>3, <3>2 DEF TypeOK
  <2>4. CASE GoTo(t, "scan") /\ running' = [running EXCEPT ![t] = NoJob]
    <3>1. /\ running' \in [Threads -> Jobs \cup {NoJob}]
          /\ \A x \in Threads : x # t => running'[x] = running[x]
      BY <2>4 DEF TypeOK
    <3>2. pc' \in [Actors -> Places] /\ CallerKnown' /\ ReplyKnown'
      BY <2>1, <2>4, <3>1, LoopMoves DEF Places, InCall
    <3> QED
      BY <2>1, <2>2, <3>1, <3>2 DEF TypeOK
  <2> QED
    BY <1>6, <2>3, <2>4 DEF SetReady
<1>7. CASE WakeCaller(t)
  <2>1. /\ pc[t] \notin InCall /\ GoTo(t, "scan")
        /\ event_' = [event_ EXCEPT ![caller[running[t]]] = TRUE]
        /\ running' = [running EXCEPT ![t] = NoJob]
        /\ UNCHANGED <<messages_, stop_, send_graph_, callVars, jobVars, qpc, debug, aborted>>
    BY <1>7 DEF WakeCaller, InCall
  <2>2. event_' \in [Threads -> BOOLEAN]
    BY <2>1 DEF TypeOK
  <2>3. /\ running' \in [Threads -> Jobs \cup {NoJob}]
        /\ \A x \in Threads : x # t => running'[x] = running[x]
    BY <2>1 DEF TypeOK
  <2>4. pc' \in [Actors -> Places] /\ CallerKnown' /\ ReplyKnown'
    BY <2>1, <2>3, LoopMoves DEF Places, InCall, callVars
  <2> QED
    BY <2>1, <2>2, <2>3, <2>4 DEF TypeOK, callVars, jobVars
<1> QED
  BY <1>1, <1>2, <1>4, <1>5, <1>6, <1>7 DEF Loop

LEMMA LifeTypeOK ==
  ASSUME TypeOK, NEW t \in Threads, Quit(t) \/ QuitWakeUp(t) \/ Destroy(t)
  PROVE  TypeOK'
<1> USE DEF TypeOK, GoTo, callVars, jobVars, Actors, CallerKnown, ReplyKnown, Places
<1>1. CASE Quit(t)
  BY <1>1 DEF Quit
<1>2. CASE QuitWakeUp(t)
  BY <1>2 DEF QuitWakeUp
<1>3. CASE Destroy(t)
  BY <1>3 DEF Destroy
<1> QED
  BY <1>1, <1>2, <1>3

LEMMA NextTypeOK == TypeOK /\ [Next]_vars => TypeOK'
<1> SUFFICES ASSUME TypeOK, [Next]_vars
             PROVE  TypeOK'
  OBVIOUS
<1>1. CASE UNCHANGED vars
  BY <1>1 DEF TypeOK, vars, callVars, jobVars, CallerKnown, ReplyKnown
<1>2. CASE Next
  BY <1>2, BeginTypeOK, CallingTypeOK, LoopTypeOK, LifeTypeOK
     DEF Next, Step, LoopStep, QuitStep
<1> QED
  BY <1>1, <1>2

(* The variables keep their types.                                         *)
THEOREM TypeCorrect == Spec => []TypeOK
BY InitTypeOK, NextTypeOK, PTL DEF Spec

-----------------------------------------------------------------------------
(* The send graph *)

(* What RegisterSendAndCheckForCycles relies on: no path leads from the    *)
(* target to the source, so the new edge closes no cycle.  In a set whose  *)
(* members all send to members of it, those reachable from the target      *)
(* would have been such a set before the edge was added.                   *)
LEMMA NewEdgeIsSafe ==
  ASSUME send_graph_ \in [Threads -> SUBSET Threads], Acyclic,
         NEW s \in Threads, NEW t \in Threads, s \notin AllTargets(t),
         send_graph_' = [send_graph_ EXCEPT ![s] = @ \cup {t}]
  PROVE  Acyclic'
<1> SUFFICES ASSUME NEW S \in SUBSET Threads, S # {},
                    \A x \in S : send_graph_'[x] \cap S # {}
             PROVE  FALSE
  BY DEF Acyclic
<1>1. \A x \in Threads : x # s => send_graph_'[x] = send_graph_[x]
  OBVIOUS
<1>2. send_graph_'[s] = send_graph_[s] \cup {t}
  OBVIOUS
<1>3. PICK x \in S : send_graph_[x] \cap S = {}
  BY DEF Acyclic
<1>4. t \in S
  BY <1>1, <1>2, <1>3
<1> DEFINE R == AllTargets(t)
<1>5. t \in R /\ R \in SUBSET Threads
  BY DEF AllTargets
<1>6. \A y \in R : send_graph_[y] \subseteq R
  BY DEF AllTargets, Closed
<1>7. \A y \in S \cap R : send_graph_[y] \cap (S \cap R) # {}
  <2> SUFFICES ASSUME NEW y \in S, y \in R
               PROVE  send_graph_[y] \cap (S \cap R) # {}
    OBVIOUS
  <2>1. y # s
    OBVIOUS
  <2>2. send_graph_[y] \cap S # {}
    BY <1>1, <2>1
  <2> QED
    BY <1>6, <2>2
<1>8. S \cap R # {} /\ S \cap R \in SUBSET Threads
  BY <1>4, <1>5
<1> QED
  BY <1>7, <1>8 DEF Acyclic

(* A graph with fewer edges has no more cycles.                            *)
LEMMA FewerEdgesAreSafe ==
  ASSUME Acyclic, \A x \in Threads : send_graph_'[x] \subseteq send_graph_[x]
  PROVE  Acyclic'
BY DEF Acyclic

LEMMA InitAcyclic == Init => Acyclic
BY DEF Init, Acyclic

LEMMA NextAcyclic == TypeOK /\ Acyclic /\ [Next]_vars => Acyclic'
<1> SUFFICES ASSUME TypeOK, Acyclic, [Next]_vars
             PROVE  Acyclic'
  OBVIOUS
<1>1. CASE UNCHANGED send_graph_
  BY <1>1 DEF Acyclic
<1>2. CASE \E p \in Actors : Register(p)
  <2>1. PICK p \in Actors : Register(p)
    BY <1>2
  <2>2. p \in Threads /\ target[p] \in Threads
    BY <2>1 DEF Register, TypeOK, CallerKnown
  <2>3. CASE p \in AllTargets(target[p])
    BY <1>1, <2>1, <2>3 DEF Register, Abort
  <2>4. CASE p \notin AllTargets(target[p])
    <3>1. send_graph_' = [send_graph_ EXCEPT ![p] = @ \cup {target[p]}]
      BY <2>1, <2>4 DEF Register
    <3> QED
      BY <2>2, <2>4, <3>1, NewEdgeIsSafe DEF TypeOK
  <2> QED
    BY <2>3, <2>4
<1>3. CASE \E t \in Threads : Destroy(t)
  <2>1. PICK t \in Threads : Destroy(t)
    BY <1>3
  <2>2. \A x \in Threads : send_graph_'[x] \subseteq send_graph_[x]
    BY <2>1 DEF Destroy, TypeOK
  <2> QED
    BY <2>2, FewerEdgesAreSafe
<1>4. ASSUME Next PROVE \/ UNCHANGED send_graph_
                        \/ \E p \in Actors : Register(p)
                        \/ \E t \in Threads : Destroy(t)
  <2>1. ASSUME NEW p \in Actors, Begin(p) PROVE UNCHANGED send_graph_
    BY <2>1 DEF Begin, CallSelf, PostTask, BlockingCall, CallQuitting, BeginCall, Abort
  <2>2. ASSUME NEW p \in Actors, Calling(p) PROVE UNCHANGED send_graph_ \/ Register(p)
    BY <2>2 DEF Calling, PostRefused, PostAdmitted, Push, WakeUp, TestReady, WaitInCall,
                Rewake, WaitDone
  <2>3. ASSUME NEW t \in Threads, Loop(t) PROVE UNCHANGED send_graph_
    BY <2>3 DEF Loop, TakeMessage, NothingReady, CheckQuitting, WaitInGet,
                ReturnFromCode, SetReady, WakeCaller
  <2>4. ASSUME NEW t \in Threads, Quit(t) \/ QuitWakeUp(t) PROVE UNCHANGED send_graph_
    BY <2>4 DEF Quit, QuitWakeUp
  <2> QED
    BY <1>4, <2>1, <2>2, <2>3, <2>4 DEF Next, Step, LoopStep, QuitStep
<1> QED
  BY <1>1, <1>2, <1>3, <1>4 DEF vars

(* The graph of who sends to whom never has a cycle, the invariant stated  *)
(* in RegisterSendAndCheckForCycles.                                       *)
THEOREM SendGraphAcyclic == Spec => []Acyclic
<1>1. TypeOK /\ Acyclic /\ [Next]_vars => (TypeOK /\ Acyclic)'
  BY NextTypeOK, NextAcyclic
<1> QED
  BY <1>1, InitTypeOK, InitAcyclic, PTL DEF Spec

-----------------------------------------------------------------------------
(* Nobody waits in a circle *)

(* Every call in progress has its edge: a caller that waits has registered *)
(* with its target, and its job is still the one it registered for.        *)
Calls == {"post", "push", "wakeup", "test", "blocked", "rewake"}

JobTaken ==
  \A p \in Actors : pc[p] \in Calls \cup {"register"} => fate[job[p]] # "new"
WaiterCalls ==
  \A p \in Actors : pc[p] \in {"test", "blocked"} => caller[job[p]] # Nobody
EdgePresent ==
  debug => \A p \in Threads :
             pc[p] \in Calls /\ caller[job[p]] # Nobody => target[p] \in send_graph_[p]

Registered == JobTaken /\ WaiterCalls /\ EdgePresent

LEMMA InitRegistered == Init => Registered
BY DEF Init, Registered, JobTaken, WaiterCalls, EdgePresent, Calls, Actors

LEMMA BeginRegistered ==
  ASSUME TypeOK, Registered, NEW p \in Actors, Begin(p)
  PROVE  Registered'
<1>1. PICK j \in Jobs :
        \/ CallSelf(p, j)
        \/ \E to \in Threads :
             PostTask(p, j, to) \/ BlockingCall(p, j, to) \/ CallQuitting(p, j, to)
  BY DEF Begin
<1>2. ASSUME UNCHANGED <<pc, job, target, caller, send_graph_, debug>>,
             fate' = fate \/ fate' = [fate EXCEPT ![j] = "done"]
                          \/ fate' = [fate EXCEPT ![j] = "dropped"]
      PROVE  Registered'
  <2>1. \A q \in Actors : pc[q] \in Calls \cup {"register"} => job[q] \in Jobs
    BY DEF TypeOK, CallerKnown, Calls
  <2>2. \A x \in Jobs : fate[x] # "new" => fate'[x] # "new"
    BY <1>2 DEF TypeOK
  <2> QED
    BY <1>2, <2>1, <2>2 DEF Registered, JobTaken, WaiterCalls, EdgePresent
<1>3. CASE CallSelf(p, j)
  BY <1>2, <1>3 DEF CallSelf, Become, callVars
<1>4. ASSUME NEW to \in Threads, CallQuitting(p, j, to)
      PROVE  Registered'
  BY <1>2, <1>4 DEF CallQuitting, Abort, Become, callVars, jobVars
<1>5. ASSUME NEW to \in Threads, NEW who \in Actors \cup {Nobody},
             NEW w \in {"register", "post"}, BeginCall(p, j, to, who, w),
             debug /\ who # Nobody /\ p \in Threads => w = "register"
      PROVE  Registered'
  <2>1. /\ pc[p] = "run" /\ fate[j] = "new"
        /\ pc' = [pc EXCEPT ![p] = w]
        /\ job' = [job EXCEPT ![p] = j]
        /\ target' = [target EXCEPT ![p] = to]
        /\ caller' = [caller EXCEPT ![j] = who]
        /\ fate' = [fate EXCEPT ![j] = "posting"]
        /\ UNCHANGED <<send_graph_, debug>>
    BY <1>5 DEF BeginCall, GoTo, Become
  <2>2. /\ pc'[p] = w /\ job'[p] = j /\ target'[p] = to /\ caller'[j] = who
        /\ \A q \in Actors :
             q # p => pc'[q] = pc[q] /\ job'[q] = job[q] /\ target'[q] = target[q]
    BY <2>1 DEF TypeOK
  <2>3. \A x \in Jobs : x # j => fate'[x] = fate[x] /\ caller'[x] = caller[x]
    BY <2>1 DEF TypeOK
  <2>4. fate'[j] = "posting"
    BY <2>1 DEF TypeOK
  <2>5. \A q \in Actors : pc[q] \in Calls \cup {"register"} => job[q] \in Jobs /\ job[q] # j
    BY <2>1 DEF Registered, JobTaken, TypeOK, CallerKnown, Calls
  <2>6. JobTaken'
    BY <2>2, <2>3, <2>4, <2>5 DEF Registered, JobTaken
  <2>7. WaiterCalls'
    BY <2>2, <2>3, <2>5 DEF Registered, WaiterCalls, Calls
  <2>8. EdgePresent'
    BY <1>5, <2>1, <2>2, <2>3, <2>5 DEF Registered, EdgePresent, Calls, Actors
  <2> QED
    BY <2>6, <2>7, <2>8 DEF Registered
<1>6. ASSUME NEW to \in Threads, PostTask(p, j, to)
      PROVE  Registered'
  BY <1>5, <1>6 DEF PostTask
<1>7. ASSUME NEW to \in Threads, BlockingCall(p, j, to)
      PROVE  Registered'
  BY <1>5, <1>7 DEF BlockingCall
<1> QED
  BY <1>1, <1>3, <1>4, <1>6, <1>7

(* A step of a call keeps what its actor is registered for, if an actor    *)
(* that goes on to wait is a caller.                                       *)
LEMMA MovesRegistered ==
  ASSUME TypeOK, Registered, NEW p \in Actors, Moves(p), pc[p] # "register",
         UNCHANGED <<caller, send_graph_, debug>>,
         \A j \in Jobs : fate[j] # "new" => fate'[j] # "new",
         pc'[p] \in {"test", "blocked"} => caller[job[p]] # Nobody
  PROVE  Registered'
<1>1. \A q \in Actors : pc[q] \in Calls \cup {"register"} => job[q] \in Jobs
  BY DEF TypeOK, CallerKnown, Calls
<1>2. JobTaken'
  BY <1>1 DEF Registered, JobTaken, Moves, Calls, InCall
<1>3. WaiterCalls'
  BY DEF Registered, WaiterCalls, Moves, Calls, InCall
<1>4. EdgePresent'
  <2> SUFFICES ASSUME debug, NEW q \in Threads, pc'[q] \in Calls, caller[job'[q]] # Nobody
               PROVE  target'[q] \in send_graph_[q]
    BY DEF EdgePresent
  <2>1. pc[q] \in Calls /\ job'[q] = job[q] /\ target'[q] = target[q]
    BY DEF Moves, InCall, Calls, Actors
  <2> QED
    BY <2>1 DEF Registered, EdgePresent
<1> QED
  BY <1>2, <1>3, <1>4 DEF Registered

LEMMA CallingRegistered ==
  ASSUME TypeOK, Registered, NEW p \in Actors, Calling(p)
  PROVE  Registered'
<1>1. CASE Register(p)
  <2>1. CASE p \in AllTargets(target[p])
    BY <1>1, <2>1 DEF Register, Abort, callVars, jobVars, Registered, JobTaken, WaiterCalls,
                      EdgePresent
  <2>2. CASE p \notin AllTargets(target[p])
    <3>1. /\ pc[p] = "register" /\ pc' = [pc EXCEPT ![p] = "post"]
          /\ send_graph_' = [send_graph_ EXCEPT ![p] = @ \cup {target[p]}]
          /\ UNCHANGED <<job, target, caller, fate, debug>>
      BY <1>1, <2>2 DEF Register, GoTo, callVars, jobVars
    <3>2. p \in Threads
      BY <3>1 DEF TypeOK, CallerKnown
    <3>3. /\ target[p] \in send_graph_'[p]
          /\ \A x \in Threads : send_graph_[x] \subseteq send_graph_'[x]
      BY <3>1, <3>2 DEF TypeOK
    <3>4. pc'[p] = "post" /\ \A q \in Actors : q # p => pc'[q] = pc[q]
      BY <3>1 DEF TypeOK
    <3>5. JobTaken' /\ WaiterCalls'
      BY <3>1, <3>4 DEF Registered, JobTaken, WaiterCalls, Calls
    <3>6. EdgePresent'
      BY <3>1, <3>3, <3>4 DEF Registered, EdgePresent, Calls, Actors
    <3> QED
      BY <3>5, <3>6 DEF Registered
  <2> QED
    BY <2>1, <2>2
<1>2. CASE PostRefused(p)
  <2>1. /\ pc[p] = "post" /\ UNCHANGED <<send_graph_, caller, debug>>
        /\ fate' = [fate EXCEPT ![job[p]] = "dropped"]
    BY <1>2 DEF PostRefused, Become
  <2>2. \A j \in Jobs : fate[j] # "new" => fate'[j] # "new"
    BY <2>1 DEF TypeOK
  <2>3. CASE LeaveCall(p, "run")
    <3>1. Moves(p) /\ pc'[p] = "run"
      BY <2>1, <2>3, LeaveMoves DEF InCall, LeaveCall, GoTo, TypeOK
    <3> QED
      BY <2>1, <2>2, <3>1, MovesRegistered
  <2>4. CASE GoTo(p, "test") /\ UNCHANGED callVars /\ caller[job[p]] # Nobody
    <3>1. Moves(p)
      BY <2>1, <2>4, StayMoves DEF InCall, callVars
    <3> QED
      BY <2>1, <2>2, <2>4, <3>1, MovesRegistered
  <2> QED
    BY <1>2, <2>3, <2>4 DEF PostRefused
<1>3. CASE PostAdmitted(p) \/ Push(p)
  <2>1. PICK w \in {"push", "wakeup"} : GoTo(p, w)
    BY <1>3 DEF PostAdmitted, Push
  <2>2. /\ pc[p] \in {"post", "push"} /\ UNCHANGED <<job, target, caller, send_graph_, debug>>
        /\ fate' = fate \/ fate' = [fate EXCEPT ![job[p]] = "queued"]
    BY <1>3 DEF PostAdmitted, Push, Become, callVars, jobVars
  <2>3. \A j \in Jobs : fate[j] # "new" => fate'[j] # "new"
    BY <2>2 DEF TypeOK
  <2>4. Moves(p)
    BY <2>1, <2>2, StayMoves DEF InCall
  <2>5. pc'[p] = w
    BY <2>1 DEF GoTo, TypeOK
  <2> QED
    BY <2>2, <2>3, <2>4, <2>5, MovesRegistered
<1>4. CASE WakeUp(p) \/ TestReady(p) \/ WaitInCall(p) \/ Rewake(p) \/ WaitDone(p)
  <2>1. /\ pc[p] \in {"wakeup", "test", "blocked", "rewake"}
        /\ UNCHANGED <<caller, send_graph_, debug, fate>>
    BY <1>4 DEF WakeUp, TestReady, WaitInCall, Rewake, WaitDone, jobVars
  <2>2. CASE LeaveCall(p, "run")
    <3>1. Moves(p) /\ pc'[p] = "run"
      BY <2>1, <2>2, LeaveMoves DEF InCall, LeaveCall, GoTo, TypeOK
    <3> QED
      BY <2>1, <3>1, MovesRegistered
  <2>3. ASSUME NEW w \in {"test", "blocked", "rewake"}, GoTo(p, w), UNCHANGED <<job, target>>,
               w \in {"blocked", "rewake"} => p \in Threads,
               caller[job[p]] # Nobody
        PROVE  Registered'
    <3>1. Moves(p)
      BY <2>1, <2>3, StayMoves DEF InCall
    <3> QED
      BY <2>1, <2>3, <3>1, MovesRegistered
  <2>4. pc[p] \in {"test", "blocked"} => caller[job[p]] # Nobody
    BY DEF Registered, WaiterCalls
  <2>5. CASE WakeUp(p)
    BY <2>2, <2>3, <2>5 DEF WakeUp, callVars
  <2>6. CASE TestReady(p)
    BY <2>2, <2>3, <2>4, <2>6 DEF TestReady, callVars
  <2>7. CASE WaitInCall(p)
    BY <2>3, <2>4, <2>7 DEF WaitInCall
  <2>8. CASE Rewake(p) \/ WaitDone(p)
    BY <2>2, <2>8 DEF Rewake, WaitDone
  <2> QED
    BY <1>4, <2>5, <2>6, <2>7, <2>8
<1> QED
  BY <1>1, <1>2, <1>3, <1>4 DEF Calling

(* The loop of a thread and its life touch no call: they move threads that *)
(* are in none, and never make a job new.                                  *)
LEMMA LoopRegistered ==
  ASSUME TypeOK, Registered, NEW t \in Threads, Loop(t)
  PROVE  Registered'
<1>1. UNCHANGED <<job, target, caller, send_graph_, debug>>
  BY DEF Loop, TakeMessage, NothingReady, CheckQuitting, WaitInGet, ReturnFromCode,
         SetReady, WakeCaller, callVars, jobVars
<1>2. \A p \in Actors : pc'[p] \in Calls \cup {"register"} => pc'[p] = pc[p]
  BY DEF Loop, TakeMessage, NothingReady, CheckQuitting, WaitInGet, ReturnFromCode,
         SetReady, WakeCaller, GoTo, TypeOK, Calls, Actors
<1>3. \A j \in Jobs : fate[j] # "new" => fate'[j] # "new"
  <2>1. \/ fate' = fate
        \/ fate' = [fate EXCEPT ![Head(messages_[t])] = "running"]
        \/ fate' = [fate EXCEPT ![running[t]] = "done"]
    BY DEF Loop, TakeMessage, NothingReady, CheckQuitting, WaitInGet, ReturnFromCode,
           SetReady, WakeCaller, Become, jobVars
  <2> QED
    BY <2>1 DEF TypeOK
<1>4. \A p \in Actors : pc[p] \in Calls \cup {"register"} => job[p] \in Jobs
  BY DEF TypeOK, CallerKnown, Calls
<1> QED
  BY <1>1, <1>2, <1>3, <1>4 DEF Registered, JobTaken, WaiterCalls, EdgePresent, Calls,
                                Actors

LEMMA LifeRegistered ==
  ASSUME TypeOK, Registered, NEW t \in Threads, Quit(t) \/ QuitWakeUp(t) \/ Destroy(t)
  PROVE  Registered'
<1> USE DEF Registered, JobTaken, WaiterCalls, EdgePresent, Calls, Actors
<1>1. CASE Quit(t)
  BY <1>1 DEF Quit, callVars, jobVars
<1>2. CASE QuitWakeUp(t)
  BY <1>2 DEF QuitWakeUp, callVars, jobVars
<1>3. CASE Destroy(t)
  <2>1. UNCHANGED <<job, target, caller, debug>>
    BY <1>3 DEF Destroy, callVars
  <2>2. pc[t] = "exited" /\ pc' = [pc EXCEPT ![t] = "destroyed"]
    BY <1>3 DEF Destroy, GoTo
  <2>3. \A p \in Actors : pc'[p] \in Calls \cup {"register"} => pc'[p] = pc[p] /\ p # t
    BY <2>2 DEF TypeOK
  <2>4. \A j \in Jobs : fate[j] # "new" => fate'[j] # "new"
    BY <1>3 DEF Destroy
  <2>5. \A p \in Actors : target[p] # t
    BY <1>3 DEF Destroy, Unused
  <2>6. \A p \in Threads : p # t => send_graph_'[p] \in {send_graph_[p], send_graph_[p] \ {t}}
    BY <1>3 DEF Destroy
  <2>7. JobTaken'
    BY <2>1, <2>3, <2>4 DEF TypeOK, CallerKnown
  <2>8. WaiterCalls'
    BY <2>1, <2>3
  <2>9. EdgePresent'
    BY <2>1, <2>3, <2>5, <2>6
  <2> QED
    BY <2>7, <2>8, <2>9
<1> QED
  BY <1>1, <1>2, <1>3

LEMMA NextRegistered == TypeOK /\ Registered /\ [Next]_vars => Registered'
<1> SUFFICES ASSUME TypeOK, Registered, [Next]_vars
             PROVE  Registered'
  OBVIOUS
<1>1. CASE UNCHANGED vars
  BY <1>1 DEF vars, callVars, jobVars, Registered, JobTaken, WaiterCalls, EdgePresent
<1>2. CASE Next
  BY <1>2, BeginRegistered, CallingRegistered, LoopRegistered, LifeRegistered
     DEF Next, Step, LoopStep, QuitStep
<1> QED
  BY <1>1, <1>2

(* In a build with RTC_DCHECK_IS_ON threads never wait for each other in   *)
(* BlockingCall: the graph has no cycle, and whoever waits is in it.       *)
THEOREM NobodyWaitsInACircle == Spec => []NoCyclicWait
<1> DEFINE IInv == TypeOK /\ Acyclic /\ Registered
<1>1. Init => IInv
  BY InitTypeOK, InitAcyclic, InitRegistered
<1>2. IInv /\ [Next]_vars => IInv'
  BY NextTypeOK, NextAcyclic, NextRegistered
<1>3. IInv => NoCyclicWait
  <2> SUFFICES ASSUME IInv, debug, NEW S \in SUBSET Threads, S # {},
                      \A x \in S : WaitsIn(x, S)
               PROVE  FALSE
    BY DEF NoCyclicWait
  <2>1. PICK x \in S : send_graph_[x] \cap S = {}
    BY DEF Acyclic
  <2>2. target[x] \in S /\ x \in Threads
    BY DEF WaitsIn
  <2>3. target[x] \in send_graph_[x]
    BY <2>2 DEF WaitsIn, Registered, WaiterCalls, EdgePresent, Calls, Actors
  <2> QED
    BY <2>1, <2>2, <2>3
<1> QED
  BY <1>1, <1>2, <1>3, PTL DEF Spec

-----------------------------------------------------------------------------
(* The lifetime of a call *)

(* A caller stays in BlockingCall until the functor, which lives on its    *)
(* stack, is done or dropped; and no wakeup is lost on the event that      *)
(* posts, replies and Quit share.  Every job belongs to one call, the      *)
(* job's fate says how far the call has got, and `ready' is only set once  *)
(* the functor is over.                                                    *)

(* Who is in a call is the only one with its job, and the caller unless    *)
(* the job was only posted.                                                *)
Owned ==
  /\ \A p, q \in Actors : pc[p] \in InCall /\ pc[q] \in InCall /\ job[p] = job[q] => p = q
  /\ \A p \in Actors :
       /\ pc[p] \in InCall => fate[job[p]] # "new" /\ caller[job[p]] \in {p, Nobody}
       /\ pc[p] \in {"register", "post", "push"} => fate[job[p]] = "posting"
       /\ pc[p] \in {"test", "blocked", "rewake"} => caller[job[p]] = p
       /\ pc[p] = "rewake" => ready[job[p]]

(* What is ready is over, and so is what a thread cleans up.               *)
Over == \A j \in Jobs : ready[j] => fate[j] \in {"done", "dropped"}
Run ==
  \A t \in Threads :
    /\ pc[t] \in {"cleanup", "reply"} => fate[running[t]] = "done"
    /\ running[t] # NoJob => fate[running[t]] \in {"running", "done"}

(* What is in a queue is there once.                                       *)
Queued ==
  /\ \A t \in Threads : \A i \in 1 .. Len(messages_[t]) : fate[messages_[t][i]] = "queued"
  /\ \A t, u \in Threads : \A i \in 1 .. Len(messages_[t]), k \in 1 .. Len(messages_[u]) :
       messages_[t][i] = messages_[u][k] => t = u /\ i = k

Inv == TypeOK /\ Owned /\ Over /\ Run /\ Queued /\ CallerStays


-----------------------------------------------------------------------------
(* A step of the call of p touches no other call: what is left to show is  *)
(* about its own job.                                                      *)
OwnJob(p) ==
  LET j == job[p] IN
  /\ \A k \in Jobs : k # j => fate'[k] = fate[k] /\ ready'[k] = ready[k]
  /\ \/ fate'[j] = fate[j]
     \/ fate[j] = "posting" /\ fate'[j] \in {"queued", "dropped"}
  /\ ready'[j] => fate'[j] \in {"done", "dropped"}
  /\ pc'[p] \in {"register", "post", "push"} => fate'[j] = "posting"
  /\ pc'[p] \in {"test", "blocked", "rewake"} => caller[j] = p
  /\ pc'[p] = "rewake" => ready'[j]
  /\ caller[j] # Nobody /\ fate'[j] \in {"queued", "running"} => pc'[p] \in {"wakeup", "test", "blocked"}

LEMMA CallStep ==
  ASSUME Inv, NEW p \in Actors, pc[p] \in InCall, Moves(p), OwnJob(p), UNCHANGED <<caller, running>>
  PROVE  Owned' /\ Over' /\ Run' /\ CallerStays'
<1>0. job[p] \in Jobs /\ caller[job[p]] \in {p, Nobody} /\ fate[job[p]] # "new"
  BY DEF Inv, TypeOK, CallerKnown, Owned, InCall
<1>1. \A q \in Actors : pc'[q] \in InCall =>
        pc[q] \in InCall /\ job'[q] = job[q] /\ job[q] \in Jobs /\ (q # p => job[q] # job[p])
  BY DEF Inv, TypeOK, CallerKnown, Owned, Moves, InCall
<1>2. Owned'
  <2>1. \A q, r \in Actors : pc'[q] \in InCall /\ pc'[r] \in InCall /\ job'[q] = job'[r] => q = r
    BY <1>1 DEF Inv, Owned
  <2>2. ASSUME NEW q \in Actors
        PROVE  /\ pc'[q] \in InCall => fate'[job'[q]] # "new" /\ caller[job'[q]] \in {q, Nobody}
               /\ pc'[q] \in {"register", "post", "push"} => fate'[job'[q]] = "posting"
               /\ pc'[q] \in {"test", "blocked", "rewake"} => caller[job'[q]] = q
               /\ pc'[q] = "rewake" => ready'[job'[q]]
    <3>1. CASE q = p
      BY <1>0, <1>1, <3>1 DEF OwnJob, InCall
    <3>2. CASE q # p
      <4>1. pc'[q] = pc[q]
        BY <3>2 DEF Moves
      <4>2. QED
        BY <1>1, <3>2, <4>1 DEF Inv, Owned, OwnJob, InCall
    <3>3. QED
      BY <3>1, <3>2
  <2>3. QED
    BY <2>1, <2>2 DEF Owned
<1>3. Over'
  BY <1>0 DEF Inv, Over, OwnJob
<1>4. Run'
  <2>1. \A t \in Threads : pc'[t] \in {"cleanup", "reply"} => pc[t] = pc'[t] /\ running[t] \in Jobs
    BY DEF Inv, TypeOK, ReplyKnown, Moves, Actors
  <2>2. \A t \in Threads : running[t] # NoJob => running[t] \in Jobs
    BY DEF Inv, TypeOK
  <2>3. \A j \in Jobs : fate[j] \in {"running", "done"} => fate'[j] = fate[j]
    BY <1>0 DEF OwnJob
  <2>4. QED
    BY <2>1, <2>2, <2>3 DEF Inv, Run
<1>5. CallerStays'
  <2> SUFFICES ASSUME NEW j \in Jobs, caller[j] # Nobody, fate'[j] \in {"queued", "running"}
               PROVE  job'[caller[j]] = j /\ pc'[caller[j]] \in {"wakeup", "test", "blocked"}
    BY DEF CallerStays
  <2>1. CASE j = job[p]
    BY <1>0, <1>1, <2>1 DEF OwnJob, InCall
  <2>2. CASE j # job[p]
    <3>1. fate'[j] = fate[j] /\ caller[j] \in Actors
      BY <2>2 DEF Inv, TypeOK, OwnJob
    <3>2. job[caller[j]] = j /\ pc[caller[j]] \in {"wakeup", "test", "blocked"}
      BY <3>1 DEF Inv, CallerStays
    <3>3. caller[j] # p
      BY <2>2, <3>2
    <3>4. QED
      BY <3>1, <3>2, <3>3 DEF Moves
  <2>3. QED
    BY <2>1, <2>2
<1>6. QED
  BY <1>2, <1>3, <1>4, <1>5

(* A step of the loop of a thread, or of its life, moves no call: it takes *)
(* a job further that is queued or running.                                *)
Further ==
  \A j \in Jobs :
    /\ fate'[j] # fate[j] => fate[j] \in {"queued", "running"} /\ fate'[j] \in {"running", "done", "dropped"}
    /\ fate[j] = "running" => fate'[j] \in {"running", "done"}
    /\ ready'[j] # ready[j] => ready'[j] /\ fate'[j] = "done"

LEMMA LoopStepMoves ==
  ASSUME Inv, \A q \in Actors : pc'[q] \in InCall \/ pc[q] \in InCall => pc'[q] = pc[q],
         Further, UNCHANGED <<caller, job>>
  PROVE  Owned' /\ Over' /\ CallerStays'
<1>1. \A q \in Actors : pc[q] \in InCall => job[q] \in Jobs
  BY DEF Inv, TypeOK, CallerKnown, InCall
<1>2. \A j \in Jobs : ready[j] \in BOOLEAN /\ ready'[j] \in BOOLEAN
  BY DEF Inv, TypeOK, Further
<1>3. Owned'
  <2>1. \A q, r \in Actors : pc'[q] \in InCall /\ pc'[r] \in InCall /\ job'[q] = job'[r] => q = r
    BY DEF Inv, Owned
  <2>2. ASSUME NEW q \in Actors
        PROVE  /\ pc'[q] \in InCall => fate'[job'[q]] # "new" /\ caller'[job'[q]] \in {q, Nobody}
               /\ pc'[q] \in {"register", "post", "push"} => fate'[job'[q]] = "posting"
               /\ pc'[q] \in {"test", "blocked", "rewake"} => caller'[job'[q]] = q
               /\ pc'[q] = "rewake" => ready'[job'[q]]
    BY <1>1, <1>2 DEF Inv, Owned, Further, InCall
  <2>3. QED
    BY <2>1, <2>2 DEF Owned
<1>4. Over'
  BY <1>2 DEF Inv, Over, Further
<1>5. CallerStays'
  <2>1. \A j \in Jobs : fate'[j] \in {"queued", "running"} => fate[j] \in {"queued", "running"}
    BY DEF Further
  <2>2. \A j \in Jobs : caller[j] # Nobody => caller[j] \in Actors
    BY DEF Inv, TypeOK
  <2>3. QED
    BY <2>1, <2>2 DEF Inv, CallerStays, InCall
<1>6. QED
  BY <1>3, <1>4, <1>5

-----------------------------------------------------------------------------
(* The calls *)

LEMMA BeginCallKeeps ==
  ASSUME Inv, NEW p \in Actors, NEW j \in Jobs, NEW to \in Threads, NEW who \in {p, Nobody},
         NEW w \in {"register", "post"}, BeginCall(p, j, to, who, w)
  PROVE  Owned' /\ Over' /\ Run' /\ Queued' /\ CallerStays'
<1>1. /\ pc[p] = "run" /\ fate[j] = "new"
      /\ pc' = [pc EXCEPT ![p] = w]
      /\ job' = [job EXCEPT ![p] = j]
      /\ caller' = [caller EXCEPT ![j] = who]
      /\ fate' = [fate EXCEPT ![j] = "posting"]
      /\ UNCHANGED <<messages_, running, ready>>
  BY DEF BeginCall, GoTo, Become
<1>2. /\ pc'[p] = w /\ job'[p] = j
      /\ \A q \in Actors : q # p => pc'[q] = pc[q] /\ job'[q] = job[q]
  BY <1>1 DEF Inv, TypeOK
<1>3. /\ fate'[j] = "posting" /\ caller'[j] = who
      /\ \A k \in Jobs : k # j => fate'[k] = fate[k] /\ caller'[k] = caller[k]
  BY <1>1 DEF Inv, TypeOK
<1>4. \A q \in Actors : pc[q] \in InCall => job[q] \in Jobs /\ job[q] # j
  BY <1>1 DEF Inv, TypeOK, CallerKnown, Owned, InCall
<1>5. Owned'
  <2>1. \A q, r \in Actors : pc'[q] \in InCall /\ pc'[r] \in InCall /\ job'[q] = job'[r] => q = r
    BY <1>2, <1>4 DEF Inv, Owned
  <2>2. ASSUME NEW q \in Actors
        PROVE  /\ pc'[q] \in InCall => fate'[job'[q]] # "new" /\ caller'[job'[q]] \in {q, Nobody}
               /\ pc'[q] \in {"register", "post", "push"} => fate'[job'[q]] = "posting"
               /\ pc'[q] \in {"test", "blocked", "rewake"} => caller'[job'[q]] = q
               /\ pc'[q] = "rewake" => ready'[job'[q]]
    <3>1. CASE q = p
      BY <1>2, <1>3, <3>1
    <3>2. CASE q # p
      BY <1>1, <1>2, <1>3, <1>4, <3>2 DEF Inv, Owned, InCall
    <3>3. QED
      BY <3>1, <3>2
  <2>3. QED
    BY <2>1, <2>2 DEF Owned
<1>6. Over'
  BY <1>1, <1>3 DEF Inv, Over
<1>7. Run'
  <2>1. \A t \in Threads : pc'[t] \in {"cleanup", "reply"} => pc'[t] = pc[t]
    BY <1>2 DEF Actors
  <2>2. \A t \in Threads : running[t] # NoJob => running[t] \in Jobs /\ running[t] # j
    BY <1>1 DEF Inv, Run, TypeOK
  <2>3. \A t \in Threads : pc[t] \in {"cleanup", "reply"} => running[t] \in Jobs
    BY DEF Inv, TypeOK, ReplyKnown
  <2>4. \A t \in Threads : pc[t] \in {"cleanup", "reply"} => running[t] # j
    BY <1>1 DEF Inv, Run
  <2>5. QED
    BY <1>1, <1>3, <2>1, <2>2, <2>3, <2>4 DEF Inv, Run
<1>8. Queued'
  <2>1. \A t \in Threads : \A i \in 1 .. Len(messages_[t]) : messages_[t][i] \in Jobs
    BY DEF Inv, TypeOK
  <2>2. QED
    BY <1>1, <1>3, <2>1 DEF Inv, Queued
<1>9. CallerStays'
  <2>1. \A k \in Jobs : caller[k] \in Actors \cup {Nobody}
    BY DEF Inv, TypeOK
  <2>2. QED
    BY <1>1, <1>2, <1>3, <2>1 DEF Inv, CallerStays
<1>10. QED
  BY <1>5, <1>6, <1>7, <1>8, <1>9

LEMMA BeginKeeps ==
  ASSUME Inv, NEW p \in Actors, Begin(p)
  PROVE  Owned' /\ Over' /\ Run' /\ Queued' /\ CallerStays'
<1>1. PICK j \in Jobs :
        \/ CallSelf(p, j)
        \/ \E to \in Threads :
             PostTask(p, j, to) \/ BlockingCall(p, j, to) \/ CallQuitting(p, j, to)
  BY DEF Begin
<1>2. ASSUME fate[j] = "new",
             \/ fate' = fate
             \/ fate' = [fate EXCEPT ![j] = "done"]
             \/ fate' = [fate EXCEPT ![j] = "dropped"],
             UNCHANGED <<messages_, pc, running, job, caller, ready>>
      PROVE  Owned' /\ Over' /\ Run' /\ Queued' /\ CallerStays'
  <2>1. /\ \A k \in Jobs : fate[k] # "new" => fate'[k] = fate[k]
        /\ \A k \in Jobs : fate[k] # "new" \/ fate'[k] \in {"new", "done", "dropped"}
    BY <1>2 DEF Inv, TypeOK
  <2>2. \A q \in Actors : pc[q] \in InCall => job[q] \in Jobs
    BY DEF Inv, TypeOK, CallerKnown, InCall
  <2>3. Owned'
    BY <1>2, <2>1, <2>2 DEF Inv, Owned, InCall
  <2>4. Over'
    BY <1>2, <2>1 DEF Inv, Over
  <2>5. Run'
    <3>1. \A t \in Threads : running[t] # NoJob \/ pc[t] \in {"cleanup", "reply"} => running[t] \in Jobs
      BY DEF Inv, TypeOK, ReplyKnown
    <3>2. \A t \in Threads : pc[t] \in {"cleanup", "reply"} => fate'[running[t]] = fate[running[t]]
      BY <2>1, <3>1 DEF Inv, Run
    <3>3. \A t \in Threads : running[t] # NoJob => fate'[running[t]] = fate[running[t]]
      BY <2>1, <3>1 DEF Inv, Run
    <3>4. QED
      BY <1>2, <3>2, <3>3 DEF Inv, Run
  <2>6. Queued'
    <3>1. \A t \in Threads : \A i \in 1 .. Len(messages_[t]) : messages_[t][i] \in Jobs
      BY DEF Inv, TypeOK
    <3>2. QED
      BY <1>2, <2>1, <3>1 DEF Inv, Queued
  <2>7. CallerStays'
    BY <1>2, <2>1 DEF Inv, CallerStays
  <2>8. QED
    BY <2>3, <2>4, <2>5, <2>6, <2>7
<1>3. CASE CallSelf(p, j)
  <2>1. fate[j] = "new" /\ fate' = [fate EXCEPT ![j] = "done"]
    BY <1>3 DEF CallSelf, Become
  <2>2. UNCHANGED <<messages_, pc, running, job, caller, ready>>
    BY <1>3 DEF CallSelf, callVars
  <2>3. QED
    BY <1>2, <2>1, <2>2
<1>4. ASSUME NEW to \in Threads, CallQuitting(p, j, to)
      PROVE  Owned' /\ Over' /\ Run' /\ Queued' /\ CallerStays'
  <2>1. fate[j] = "new" /\ (fate' = fate \/ fate' = [fate EXCEPT ![j] = "dropped"])
    BY <1>4 DEF CallQuitting, Abort, Become, jobVars
  <2>2. UNCHANGED <<messages_, pc, running, job, caller, ready>>
    BY <1>4 DEF CallQuitting, Abort, callVars, jobVars
  <2>3. QED
    BY <1>2, <2>1, <2>2
<1>5. ASSUME NEW to \in Threads, PostTask(p, j, to) \/ BlockingCall(p, j, to)
      PROVE  Owned' /\ Over' /\ Run' /\ Queued' /\ CallerStays'
  BY <1>5, BeginCallKeeps DEF PostTask, BlockingCall
<1>6. QED
  BY <1>1, <1>3, <1>4, <1>5

(* What stays on where it is.                                              *)
LEMMA StayPlace ==
  ASSUME Inv, NEW p \in Actors, NEW w \in InCall \ {"register"}, pc[p] \in InCall,
         GoTo(p, w), UNCHANGED <<job, target>>, w \in {"blocked", "rewake"} => p \in Threads
  PROVE  Moves(p) /\ pc'[p] = w
<1>1. Moves(p)
  BY StayMoves DEF Inv, InCall
<1>2. QED
  BY <1>1 DEF Inv, TypeOK, GoTo

LEMMA LeavePlace ==
  ASSUME Inv, NEW p \in Actors, pc[p] \in InCall, LeaveCall(p, "run")
  PROVE  Moves(p) /\ pc'[p] = "run"
<1>1. Moves(p)
  BY LeaveMoves DEF Inv
<1>2. pc' = [pc EXCEPT ![p] = "run"] /\ pc \in [Actors -> Places]
  BY DEF Inv, TypeOK, LeaveCall, GoTo
<1>3. QED
  BY <1>1, <1>2

(* A queue is as it was, and what is in it is still queued.                *)
LEMMA SameQueues ==
  ASSUME Inv, UNCHANGED messages_, \A j \in Jobs : fate[j] = "queued" => fate'[j] = "queued"
  PROVE  Queued'
<1>1. \A t \in Threads : \A i \in 1 .. Len(messages_[t]) : messages_[t][i] \in Jobs
  BY DEF Inv, TypeOK
<1>2. QED
  BY <1>1 DEF Inv, Queued

LEMMA CallingKeeps ==
  ASSUME Inv, NEW p \in Actors, Calling(p)
  PROVE  Owned' /\ Over' /\ Run' /\ Queued' /\ CallerStays'
<1> DEFINE Kept == Owned' /\ Over' /\ Run' /\ Queued' /\ CallerStays'
<1>a. pc[p] \in InCall
  BY DEF Calling, Register, PostRefused, PostAdmitted, Push, WakeUp, TestReady, WaitInCall,
         Rewake, WaitDone, InCall
<1>b. /\ job[p] \in Jobs /\ target[p] \in Threads /\ fate[job[p]] # "new"
      /\ caller[job[p]] \in {p, Nobody}
      /\ pc[p] \in {"register", "post", "push"} => fate[job[p]] = "posting"
      /\ pc[p] \in {"test", "blocked", "rewake"} => caller[job[p]] = p
      /\ pc[p] = "rewake" => ready[job[p]]
  BY <1>a DEF Inv, TypeOK, CallerKnown, Owned, InCall
<1>c. /\ ready[job[p]] => fate[job[p]] \in {"done", "dropped"}
      /\ caller[job[p]] # Nobody /\ fate[job[p]] \in {"queued", "running"} =>
           pc[p] \in {"wakeup", "test", "blocked"}
  BY <1>b DEF Inv, Over, CallerStays
<1>d. ASSUME UNCHANGED <<messages_, running, caller, fate, ready>>, Moves(p),
             pc'[p] \in {"test", "blocked", "rewake"} => caller[job[p]] = p,
             pc'[p] = "rewake" => ready[job[p]],
             pc'[p] \in {"register", "post", "push"} => pc[p] \in {"register", "post", "push"},
             \/ pc'[p] \in {"wakeup", "test", "blocked"}
             \/ caller[job[p]] = Nobody
             \/ fate[job[p]] \notin {"queued", "running"}
      PROVE  Kept
  <2>0. fate' = fate /\ ready' = ready
    BY <1>d
  <2>1. OwnJob(p)
    <3>1. pc'[p] \in {"register", "post", "push"} => fate[job[p]] = "posting"
      BY <1>b, <1>d
    <3>2. caller[job[p]] # Nobody /\ fate[job[p]] \in {"queued", "running"} =>
            pc'[p] \in {"wakeup", "test", "blocked"}
      BY <1>d
    <3>3. QED
      BY <1>c, <1>d, <2>0, <3>1, <3>2 DEF OwnJob
  <2>2. Queued'
    BY <1>d, SameQueues
  <2>3. QED
    BY <1>a, <1>d, <2>1, <2>2, CallStep
<1>1. CASE Register(p)
  <2>1. CASE p \in AllTargets(target[p])
    BY <1>1, <2>1 DEF Register, Abort, callVars, jobVars, Inv, Owned, Over, Run, Queued,
                      CallerStays
  <2>2. CASE p \notin AllTargets(target[p])
    <3>1. /\ pc[p] = "register" /\ GoTo(p, "post")
          /\ UNCHANGED <<messages_, running, job, target, caller, fate, ready>>
      BY <1>1, <2>2 DEF Register, callVars, jobVars
    <3>2. Moves(p) /\ pc'[p] = "post"
      BY <1>a, <3>1, StayPlace DEF InCall
    <3>3. QED
      BY <1>b, <1>d, <3>1, <3>2
  <2>3. QED
    BY <2>1, <2>2
<1>2. CASE PostRefused(p)
  <2>1. /\ pc[p] = "post" /\ UNCHANGED <<messages_, running, caller>>
        /\ fate' = [fate EXCEPT ![job[p]] = "dropped"]
    BY <1>2 DEF PostRefused, Become
  <2>2. fate'[job[p]] = "dropped" /\ \A k \in Jobs : k # job[p] => fate'[k] = fate[k]
    BY <1>b, <2>1 DEF Inv, TypeOK
  <2>3. Queued'
    <3>1. fate[job[p]] # "queued"
      BY <1>b, <2>1
    <3>2. QED
      BY <2>1, <2>2, <3>1, SameQueues
  <2>4. CASE caller[job[p]] = Nobody
    <3>1. LeaveCall(p, "run") /\ UNCHANGED ready
      BY <1>2, <2>4 DEF PostRefused
    <3>2. Moves(p) /\ pc'[p] = "run"
      BY <1>a, <3>1, LeavePlace
    <3>3. OwnJob(p)
      BY <1>b, <2>1, <2>2, <2>4, <3>1, <3>2 DEF OwnJob
    <3>4. QED
      BY <1>a, <2>1, <2>3, <3>2, <3>3, CallStep
  <2>5. CASE caller[job[p]] # Nobody
    <3>1. GoTo(p, "test") /\ UNCHANGED <<job, target>> /\ ready' = [ready EXCEPT ![job[p]] = TRUE]
      BY <1>2, <2>5 DEF PostRefused, callVars
    <3>2. Moves(p) /\ pc'[p] = "test"
      BY <1>a, <3>1, StayPlace DEF InCall
    <3>3. \A k \in Jobs : k # job[p] => ready'[k] = ready[k]
      BY <3>1 DEF Inv, TypeOK
    <3>4. OwnJob(p)
      BY <1>b, <2>1, <2>2, <2>5, <3>2, <3>3 DEF OwnJob
    <3>5. QED
      BY <1>a, <2>1, <2>3, <3>2, <3>4, CallStep
  <2>6. QED
    BY <2>4, <2>5
<1>3. CASE PostAdmitted(p)
  <2>1. /\ pc[p] = "post" /\ GoTo(p, "push")
        /\ UNCHANGED <<messages_, running, job, target, caller, fate, ready>>
    BY <1>3 DEF PostAdmitted, callVars, jobVars
  <2>2. Moves(p) /\ pc'[p] = "push"
    BY <1>a, <2>1, StayPlace DEF InCall
  <2>3. QED
    BY <1>b, <1>d, <2>1, <2>2
<1>4. CASE Push(p)
  <2>1. /\ pc[p] = "push" /\ GoTo(p, "wakeup")
        /\ UNCHANGED <<running, job, target, caller, ready>>
        /\ messages_' = [messages_ EXCEPT ![target[p]] = Append(@, job[p])]
        /\ fate' = [fate EXCEPT ![job[p]] = "queued"]
    BY <1>4 DEF Push, callVars, Become
  <2>2. Moves(p) /\ pc'[p] = "wakeup"
    BY <1>a, <2>1, StayPlace DEF InCall
  <2>3. /\ fate[job[p]] = "posting" /\ fate'[job[p]] = "queued"
        /\ \A k \in Jobs : k # job[p] => fate'[k] = fate[k]
    BY <1>b, <2>1 DEF Inv, TypeOK
  <2>4. OwnJob(p)
    BY <1>b, <1>c, <2>1, <2>2, <2>3 DEF OwnJob
  <2>5. Queued'
    <3>1. \A t \in Threads : \A i \in 1 .. Len(messages_[t]) :
            messages_[t][i] \in Jobs /\ messages_[t][i] # job[p]
      BY <2>3 DEF Inv, TypeOK, Queued
    <3>2. /\ Len(messages_'[target[p]]) = Len(messages_[target[p]]) + 1
          /\ messages_'[target[p]][Len(messages_[target[p]]) + 1] = job[p]
          /\ \A i \in 1 .. Len(messages_[target[p]]) :
               messages_'[target[p]][i] = messages_[target[p]][i]
          /\ \A t \in Threads : t # target[p] => messages_'[t] = messages_[t]
          /\ \A t \in Threads : Len(messages_[t]) \in Nat
      BY <1>b, <2>1 DEF Inv, TypeOK
    <3>3. \A t \in Threads : \A i \in 1 .. Len(messages_'[t]) :
            \/ i \in 1 .. Len(messages_[t]) /\ messages_'[t][i] = messages_[t][i]
            \/ t = target[p] /\ i = Len(messages_[t]) + 1 /\ messages_'[t][i] = job[p]
      BY <3>2
    <3>4. \A t \in Threads : \A i \in 1 .. Len(messages_'[t]) : fate'[messages_'[t][i]] = "queued"
      BY <2>3, <3>1, <3>3 DEF Inv, Queued
    <3>5. \A t, u \in Threads : \A i \in 1 .. Len(messages_'[t]), k \in 1 .. Len(messages_'[u]) :
            messages_'[t][i] = messages_'[u][k] => t = u /\ i = k
      <4> SUFFICES ASSUME NEW t \in Threads, NEW u \in Threads,
                          NEW i \in 1 .. Len(messages_'[t]), NEW k \in 1 .. Len(messages_'[u]),
                          messages_'[t][i] = messages_'[u][k]
                   PROVE t = u /\ i = k
        OBVIOUS
      <4> DEFINE Old(v, j) == j \in 1 .. Len(messages_[v]) /\ messages_'[v][j] = messages_[v][j]
                 New(v, j) == v = target[p] /\ j = Len(messages_[v]) + 1 /\ messages_'[v][j] = job[p]
      <4>1. (Old(t, i) \/ New(t, i)) /\ (Old(u, k) \/ New(u, k))
        BY <3>3
      <4>2. CASE Old(t, i) /\ Old(u, k)
        <5>1. messages_[t][i] = messages_[u][k]
          BY <4>2
        <5>2. i \in 1 .. Len(messages_[t]) /\ k \in 1 .. Len(messages_[u])
          BY <4>2
        <5> HIDE DEF Old, New
        <5>3. QED
          BY <5>1, <5>2 DEF Inv, Queued
      <4>3. CASE New(t, i) /\ New(u, k)
        BY <4>3
      <4>4. ~(Old(t, i) /\ New(u, k)) /\ ~(New(t, i) /\ Old(u, k))
        BY <3>1
      <4>5. QED
        BY <4>1, <4>2, <4>3, <4>4
    <3>6. QED
      BY <3>4, <3>5 DEF Queued
  <2>6. QED
    BY <1>a, <2>1, <2>2, <2>4, <2>5, CallStep
<1>5. CASE WakeUp(p)
  <2>1. pc[p] = "wakeup" /\ UNCHANGED <<messages_, running, caller, fate, ready>>
    BY <1>5 DEF WakeUp, jobVars
  <2>2. CASE caller[job[p]] = Nobody
    <3>1. Moves(p) /\ pc'[p] = "run"
      BY <1>5, <1>a, <2>2, LeavePlace DEF WakeUp
    <3>2. QED
      BY <1>d, <2>1, <2>2, <3>1
  <2>3. CASE caller[job[p]] # Nobody
    <3>1. GoTo(p, "test") /\ UNCHANGED <<job, target>>
      BY <1>5, <2>3 DEF WakeUp, callVars
    <3>2. Moves(p) /\ pc'[p] = "test"
      BY <1>a, <3>1, StayPlace DEF InCall
    <3>3. QED
      BY <1>b, <1>d, <2>1, <2>3, <3>2
  <2>4. QED
    BY <2>2, <2>3
<1>6. CASE TestReady(p)
  <2>1. pc[p] = "test" /\ p \in Threads /\ UNCHANGED <<messages_, running, caller, fate, ready>>
    BY <1>6 DEF TestReady, jobVars
  <2>2. CASE ready[job[p]] /\ ~waited[p]
    <3>1. Moves(p) /\ pc'[p] = "run"
      BY <1>6, <1>a, <2>2, LeavePlace DEF TestReady
    <3>2. QED
      BY <1>b, <1>c, <1>d, <2>1, <2>2, <3>1
  <2>3. CASE ready[job[p]] /\ waited[p]
    <3>1. GoTo(p, "rewake") /\ UNCHANGED <<job, target>>
      BY <1>6, <2>3 DEF TestReady, callVars
    <3>2. Moves(p) /\ pc'[p] = "rewake"
      BY <1>a, <2>1, <3>1, StayPlace DEF InCall
    <3>3. QED
      BY <1>b, <1>c, <1>d, <2>1, <2>3, <3>2
  <2>4. CASE ~ready[job[p]]
    <3>1. GoTo(p, "blocked") /\ UNCHANGED <<job, target>>
      BY <1>6, <2>4 DEF TestReady, callVars
    <3>2. Moves(p) /\ pc'[p] = "blocked"
      BY <1>a, <2>1, <3>1, StayPlace DEF InCall
    <3>3. QED
      BY <1>b, <1>d, <2>1, <3>2
  <2>5. QED
    BY <2>2, <2>3, <2>4
<1>7. CASE WaitInCall(p)
  <2>1. /\ pc[p] = "blocked" /\ GoTo(p, "test")
        /\ UNCHANGED <<messages_, running, job, target, caller, fate, ready>>
    BY <1>7 DEF WaitInCall, jobVars
  <2>2. Moves(p) /\ pc'[p] = "test"
    BY <1>a, <2>1, StayPlace DEF InCall
  <2>3. QED
    BY <1>b, <1>d, <2>1, <2>2
<1>8. CASE Rewake(p) \/ WaitDone(p)
  <2>1. /\ ready[job[p]] /\ LeaveCall(p, "run")
        /\ UNCHANGED <<messages_, running, caller, fate, ready>>
    BY <1>8, <1>b DEF Rewake, WaitDone, jobVars
  <2>2. Moves(p) /\ pc'[p] = "run"
    BY <1>a, <2>1, LeavePlace
  <2>3. QED
    BY <1>c, <1>d, <2>1, <2>2
<1>9. QED
  BY <1>1, <1>2, <1>3, <1>4, <1>5, <1>6, <1>7, <1>8 DEF Calling

-----------------------------------------------------------------------------
(* The loop of a thread and its life *)

LEMMA LoopKeeps ==
  ASSUME Inv, NEW t \in Threads, Loop(t)
  PROVE  Owned' /\ Over' /\ Run' /\ Queued' /\ CallerStays'
<1> DEFINE Kept == Owned' /\ Over' /\ Run' /\ Queued' /\ CallerStays'
<1>a. UNCHANGED <<caller, job>> /\ t \in Actors
  BY DEF Loop, TakeMessage, NothingReady, CheckQuitting, WaitInGet, ReturnFromCode,
         SetReady, WakeCaller, callVars, jobVars, Actors
<1>b. PICK w \in {"run", "check", "exited", "wait", "scan", "cleanup", "reply"} : GoTo(t, w)
  BY DEF Loop, TakeMessage, NothingReady, CheckQuitting, WaitInGet, ReturnFromCode,
         SetReady, WakeCaller
<1>c. pc[t] \notin InCall
  BY DEF Loop, TakeMessage, NothingReady, CheckQuitting, WaitInGet, ReturnFromCode,
         SetReady, WakeCaller, InCall
<1>d. /\ pc'[t] = w
      /\ \A q \in Actors : q # t => pc'[q] = pc[q]
      /\ \A q \in Actors : pc'[q] \in InCall \/ pc[q] \in InCall => pc'[q] = pc[q]
  <2>1. pc'[t] = w /\ \A q \in Actors : q # t => pc'[q] = pc[q]
    BY <1>a, <1>b DEF Inv, TypeOK, GoTo
  <2>2. QED
    BY <1>c, <2>1 DEF InCall
<1>e. \A x \in Threads : (running[x] # NoJob \/ pc[x] \in {"cleanup", "reply"}) => running[x] \in Jobs
  BY DEF Inv, TypeOK, ReplyKnown
<1>f. \A x \in Threads : x # t => pc'[x] = pc[x]
  BY <1>d DEF Actors
<1>1. CASE TakeMessage(t)
  <2> DEFINE j == Head(messages_[t])
  <2>1. /\ pc[t] = "scan" /\ messages_[t] # << >> /\ GoTo(t, "run") /\ UNCHANGED ready
        /\ messages_' = [messages_ EXCEPT ![t] = Tail(@)]
        /\ running' = [running EXCEPT ![t] = j]
        /\ fate' = [fate EXCEPT ![j] = "running"]
    BY <1>1 DEF TakeMessage, Become
  <2>2. messages_[t] \in Seq(Jobs)
    BY DEF Inv, TypeOK
  <2>3. PICK k \in Jobs : k = j
    BY <2>1, <2>2
  <2>4. /\ messages_[t][1] = k
        /\ Len(messages_[t]) \in Nat \ {0}
        /\ messages_'[t] = Tail(messages_[t])
        /\ Len(messages_'[t]) = Len(messages_[t]) - 1
        /\ \A i \in 1 .. Len(messages_'[t]) : messages_'[t][i] = messages_[t][i + 1]
    BY <2>1, <2>2, <2>3 DEF Inv, TypeOK
  <2>5. \A x \in Threads : x # t => messages_'[x] = messages_[x] /\ running'[x] = running[x]
    BY <2>1 DEF Inv, TypeOK
  <2>6. fate[k] = "queued"
    BY <2>4 DEF Inv, Queued
  <2>7. fate'[k] = "running" /\ (\A i \in Jobs : i # k => fate'[i] = fate[i]) /\ running'[t] = k
    BY <2>1, <2>3 DEF Inv, TypeOK
  <2>8. Further
    BY <2>1, <2>6, <2>7 DEF Further
  <2>9. Run'
    <3>1. pc'[t] = "run"
      BY <1>d, <2>1 DEF Inv, TypeOK, GoTo, Actors
    <3>2. \A x \in Threads : pc[x] \in {"cleanup", "reply"} => running[x] \in Jobs /\ running[x] # k
      BY <1>e, <2>6 DEF Inv, Run
    <3>3. \A x \in Threads : running[x] # NoJob => running[x] \in Jobs /\ running[x] # k
      BY <1>e, <2>6 DEF Inv, Run
    <3>4. QED
      BY <1>f, <2>5, <2>7, <3>1, <3>2, <3>3 DEF Inv, Run
  <2>10. Queued'
    <3>1. \A x \in Threads : \A i \in 1 .. Len(messages_[x]) :
            messages_[x][i] \in Jobs /\ Len(messages_[x]) \in Nat
      BY DEF Inv, TypeOK
    <3>2. \A x \in Threads : \A i \in 1 .. Len(messages_[x]) :
            messages_[x][i] = k => x = t /\ i = 1
      BY <2>4 DEF Inv, Queued
    <3>3. \A i \in 1 .. Len(messages_'[t]) :
            /\ i + 1 \in 1 .. Len(messages_[t]) /\ i + 1 # 1
            /\ messages_'[t][i] = messages_[t][i + 1]
      <4>1. \A i \in 1 .. Len(messages_'[t]) : i + 1 \in 1 .. Len(messages_[t]) /\ i + 1 # 1
        BY <2>4
      <4>2. QED
        BY <2>4, <4>1
    <3>4. \A x \in Threads : x # t => messages_'[x] = messages_[x]
      BY <2>5
    <3>5. \A x \in Threads : \A i \in 1 .. Len(messages_'[x]) :
            messages_'[x][i] \in Jobs /\ messages_'[x][i] # k
      <4>1. \A i \in 1 .. Len(messages_'[t]) : messages_'[t][i] \in Jobs /\ messages_'[t][i] # k
        BY <3>1, <3>2, <3>3
      <4>2. QED
        BY <3>1, <3>2, <3>4, <4>1
    <3>6. \A x \in Threads : \A i \in 1 .. Len(messages_'[x]) : fate'[messages_'[x][i]] = "queued"
      <4>1. \A i \in 1 .. Len(messages_'[t]) : fate[messages_'[t][i]] = "queued"
        BY <3>3 DEF Inv, Queued
      <4>2. \A x \in Threads : \A i \in 1 .. Len(messages_'[x]) : fate[messages_'[x][i]] = "queued"
        BY <3>4, <4>1 DEF Inv, Queued
      <4>3. QED
        BY <2>7, <3>5, <4>2
    <3>7. \A x, y \in Threads : \A i \in 1 .. Len(messages_'[x]), n \in 1 .. Len(messages_'[y]) :
            messages_'[x][i] = messages_'[y][n] => x = y /\ i = n
      <4> SUFFICES ASSUME NEW x \in Threads, NEW y \in Threads,
                          NEW i \in 1 .. Len(messages_'[x]), NEW n \in 1 .. Len(messages_'[y]),
                          messages_'[x][i] = messages_'[y][n]
                   PROVE  x = y /\ i = n
        OBVIOUS
      <4>1. CASE x = t /\ y = t
        <5>1. i + 1 = n + 1
          BY <3>3, <4>1 DEF Inv, Queued
        <5>2. i \in Int /\ n \in Int
          OBVIOUS
        <5>3. QED
          BY <4>1, <5>1, <5>2
      <4>2. CASE x = t /\ y # t
        BY <3>3, <3>4, <4>2 DEF Inv, Queued
      <4>3. CASE x # t /\ y = t
        BY <3>3, <3>4, <4>3 DEF Inv, Queued
      <4>4. CASE x # t /\ y # t
        BY <3>3, <3>4, <4>4 DEF Inv, Queued
      <4>5. QED
        BY <4>1, <4>2, <4>3, <4>4
    <3>8. QED
      BY <3>6, <3>7 DEF Queued
  <2>11. QED
    BY <1>a, <1>d, <2>8, <2>9, <2>10, LoopStepMoves
<1>2. ASSUME UNCHANGED <<messages_, running, fate, ready>>,
             pc'[t] \in {"cleanup", "reply"} => pc[t] \in {"cleanup", "reply"}
      PROVE  Kept
  <2>1. Further
    BY <1>2 DEF Further
  <2>2. Run'
    BY <1>2, <1>f DEF Inv, Run
  <2>3. Queued'
    BY <1>2, SameQueues
  <2>4. QED
    BY <1>a, <1>d, <2>1, <2>2, <2>3, LoopStepMoves
<1>3. CASE NothingReady(t) \/ CheckQuitting(t) \/ WaitInGet(t)
  <2>1. UNCHANGED <<messages_, running, fate, ready>>
    BY <1>3 DEF NothingReady, CheckQuitting, WaitInGet, jobVars
  <2>2. PICK v \in {"check", "exited", "wait", "scan"} : GoTo(t, v)
    BY <1>3 DEF NothingReady, CheckQuitting, WaitInGet
  <2>3. pc'[t] = v
    BY <1>a, <2>2 DEF Inv, TypeOK, GoTo
  <2>4. QED
    BY <1>2, <2>1, <2>3
<1>4. CASE ReturnFromCode(t) /\ running[t] = NoJob
  <2>1. UNCHANGED <<messages_, running, fate, ready>> /\ GoTo(t, "scan")
    BY <1>4 DEF ReturnFromCode
  <2>2. pc'[t] = "scan"
    BY <1>a, <2>1 DEF Inv, TypeOK, GoTo
  <2>3. QED
    BY <1>2, <2>1, <2>2
<1>5. CASE ReturnFromCode(t) /\ running[t] # NoJob
  <2>1. /\ UNCHANGED <<messages_, ready>> /\ fate' = [fate EXCEPT ![running[t]] = "done"]
        /\ running' = running \/ running' = [running EXCEPT ![t] = NoJob]
        /\ pc[t] = "run"
    BY <1>5 DEF ReturnFromCode, Become
  <2>2. running[t] \in Jobs /\ fate[running[t]] \in {"running", "done"}
    BY <1>5, <1>e DEF Inv, Run
  <2>3. fate'[running[t]] = "done" /\ \A i \in Jobs : i # running[t] => fate'[i] = fate[i]
    BY <2>1, <2>2 DEF Inv, TypeOK
  <2>4. Further
    BY <2>1, <2>2, <2>3 DEF Further
  <2>5. \A x \in Threads : x # t => running'[x] = running[x]
    BY <2>1 DEF Inv, TypeOK
  <2>6. \/ running'[t] = running[t]
        \/ running'[t] = NoJob /\ pc'[t] = "scan"
    BY <1>5, <1>a DEF ReturnFromCode, GoTo, Inv, TypeOK
  <2>7. Run'
    BY <1>e, <1>f, <2>2, <2>3, <2>5, <2>6 DEF Inv, Run
  <2>8. Queued'
    <3>1. \A i \in Jobs : fate[i] = "queued" => fate'[i] = "queued"
      BY <2>2, <2>3
    <3>2. QED
      BY <2>1, <3>1, SameQueues
  <2>9. QED
    BY <1>a, <1>d, <2>4, <2>7, <2>8, LoopStepMoves
<1>6. CASE SetReady(t) \/ WakeCaller(t)
  <2>1. /\ UNCHANGED <<messages_, fate>>
        /\ running' = running \/ running' = [running EXCEPT ![t] = NoJob]
        /\ ready' = ready \/ ready' = [ready EXCEPT ![running[t]] = TRUE]
        /\ pc[t] \in {"cleanup", "reply"}
    BY <1>6 DEF SetReady, WakeCaller, jobVars
  <2>2. running[t] \in Jobs /\ fate[running[t]] = "done"
    BY <1>e, <2>1 DEF Inv, Run
  <2>3. \A i \in Jobs : i # running[t] => ready'[i] = ready[i]
    BY <2>1 DEF Inv, TypeOK
  <2>4. ready'[running[t]] = ready[running[t]] \/ ready'[running[t]]
    BY <2>1, <2>2 DEF Inv, TypeOK
  <2>5. Further
    BY <2>1, <2>2, <2>3, <2>4 DEF Further
  <2>6. \A x \in Threads : x # t => running'[x] = running[x]
    BY <2>1 DEF Inv, TypeOK
  <2>7. \/ running'[t] = running[t]
        \/ running'[t] = NoJob /\ pc'[t] = "scan"
    BY <1>6, <1>a DEF SetReady, WakeCaller, GoTo, Inv, TypeOK
  <2>8. Run'
    BY <1>e, <1>f, <2>1, <2>2, <2>6, <2>7 DEF Inv, Run
  <2>9. Queued'
    BY <2>1, SameQueues
  <2>10. QED
    BY <1>a, <1>d, <2>5, <2>8, <2>9, LoopStepMoves
<1>7. QED
  BY <1>1, <1>3, <1>4, <1>5, <1>6 DEF Loop

LEMMA LifeKeeps ==
  ASSUME Inv, NEW t \in Threads, Quit(t) \/ QuitWakeUp(t) \/ Destroy(t)
  PROVE  Owned' /\ Over' /\ Run' /\ Queued' /\ CallerStays'
<1>1. CASE Quit(t) \/ QuitWakeUp(t)
  <2>1. UNCHANGED <<messages_, pc, running, job, caller, fate, ready>>
    BY <1>1 DEF Quit, QuitWakeUp, callVars, jobVars
  <2>2. Owned'
    BY <2>1 DEF Inv, Owned
  <2>3. Over' /\ Run'
    BY <2>1 DEF Inv, Over, Run
  <2>4. Queued'
    BY <2>1, SameQueues
  <2>5. CallerStays'
    BY <2>1 DEF Inv, CallerStays
  <2>6. QED
    BY <2>2, <2>3, <2>4, <2>5
<1>2. CASE Destroy(t)
  <2>1. /\ UNCHANGED <<running, caller, job, ready>> /\ pc[t] = "exited" /\ GoTo(t, "destroyed")
        /\ messages_' = [messages_ EXCEPT ![t] = << >>]
        /\ fate' = [j \in Jobs |->
                      IF \E i \in DOMAIN messages_[t] : messages_[t][i] = j
                        THEN "dropped" ELSE fate[j]]
    BY <1>2 DEF Destroy, callVars
  <2>2. /\ \A q \in Actors : pc'[q] = pc[q] \/ pc'[q] = "destroyed"
        /\ \A q \in Actors : pc'[q] \in InCall \/ pc[q] \in InCall => pc'[q] = pc[q]
    BY <2>1 DEF Inv, TypeOK, GoTo, InCall, Actors
  <2>3. messages_[t] \in Seq(Jobs)
    BY DEF Inv, TypeOK
  <2>4. \A j \in Jobs :
          \/ fate'[j] = fate[j] /\ \A i \in 1 .. Len(messages_[t]) : messages_[t][i] # j
          \/ fate'[j] = "dropped" /\ \E i \in 1 .. Len(messages_[t]) : messages_[t][i] = j
    BY <2>1, <2>3
  <2>5. \A j \in Jobs : fate'[j] = fate[j] \/ (fate'[j] = "dropped" /\ fate[j] = "queued")
    BY <2>4 DEF Inv, Queued
  <2>6. Further
    BY <2>1, <2>5 DEF Further
  <2>7. Run'
    <3>1. \A x \in Threads : (running[x] # NoJob \/ pc[x] \in {"cleanup", "reply"}) => running[x] \in Jobs
      BY DEF Inv, TypeOK, ReplyKnown
    <3>2. \A x \in Threads : pc'[x] \in {"cleanup", "reply"} => pc[x] = pc'[x]
      BY <2>2 DEF Actors
    <3>3. QED
      BY <2>1, <2>5, <3>1, <3>2 DEF Inv, Run
  <2>8. Queued'
    <3>1. \A x \in Threads : \A i \in 1 .. Len(messages_[x]) : messages_[x][i] \in Jobs
      BY DEF Inv, TypeOK
    <3>2. messages_'[t] = << >> /\ \A x \in Threads : x # t => messages_'[x] = messages_[x]
      BY <2>1 DEF Inv, TypeOK
    <3>3. \A x \in Threads : \A i \in 1 .. Len(messages_'[x]) :
            /\ x # t /\ i \in 1 .. Len(messages_[x]) /\ messages_'[x][i] = messages_[x][i]
            /\ messages_[x][i] \in Jobs
      BY <3>1, <3>2
    <3>4. \A x \in Threads : \A i \in 1 .. Len(messages_'[x]) :
            \A k \in 1 .. Len(messages_[t]) : messages_[t][k] # messages_[x][i]
      BY <3>3 DEF Inv, Queued
    <3>5. \A x \in Threads : \A i \in 1 .. Len(messages_'[x]) : fate'[messages_'[x][i]] = "queued"
      BY <2>4, <3>3, <3>4 DEF Inv, Queued
    <3>6. \A x, y \in Threads : \A i \in 1 .. Len(messages_'[x]), n \in 1 .. Len(messages_'[y]) :
            messages_'[x][i] = messages_'[y][n] => x = y /\ i = n
      BY <3>3 DEF Inv, Queued
    <3>7. QED
      BY <3>5, <3>6 DEF Queued
  <2>9. QED
    BY <2>1, <2>2, <2>6, <2>7, <2>8, LoopStepMoves
<1>3. QED
  BY <1>1, <1>2

-----------------------------------------------------------------------------
(* Together they are an inductive invariant.                               *)
LEMMA InitInv == Init => Inv
<1> SUFFICES ASSUME Init PROVE Inv
  OBVIOUS
<1>1. TypeOK
  BY InitTypeOK
<1>2. Owned
  BY DEF Init, Owned, InCall
<1>3. Over /\ CallerStays
  BY DEF Init, Over, CallerStays
<1>4. Run
  <2>1. \A t \in Threads : pc[t] = "run" /\ running[t] = NoJob
    BY DEF Init, Actors
  <2>2. QED
    BY <2>1 DEF Run
<1>5. Queued
  <2>1. \A t \in Threads : messages_[t] = << >>
    BY DEF Init
  <2>2. QED
    BY <2>1 DEF Queued
<1>6. QED
  BY <1>1, <1>2, <1>3, <1>4, <1>5 DEF Inv

LEMMA NextInv == Inv /\ [Next]_vars => Inv'
<1> SUFFICES ASSUME Inv, [Next]_vars PROVE Inv'
  OBVIOUS
<1>1. TypeOK'
  BY NextTypeOK DEF Inv
<1>2. CASE UNCHANGED vars
  <2>1. UNCHANGED <<messages_, pc, running, job, caller, fate, ready>>
    BY <1>2 DEF vars, callVars, jobVars
  <2>2. Owned' /\ Over' /\ Run'
    BY <2>1 DEF Inv, Owned, Over, Run
  <2>3. Queued'
    BY <2>1, SameQueues
  <2>4. CallerStays'
    BY <2>1 DEF Inv, CallerStays
  <2>5. QED
    BY <1>1, <2>2, <2>3, <2>4 DEF Inv
<1>3. CASE Next
  <2>1. Owned' /\ Over' /\ Run' /\ Queued' /\ CallerStays'
    BY <1>3, BeginKeeps, CallingKeeps, LoopKeeps, LifeKeeps DEF Next, Step, LoopStep, QuitStep
  <2>2. QED
    BY <1>1, <2>1 DEF Inv
<1>4. QED
  BY <1>2, <1>3

(* The caller stays in BlockingCall while its functor is queued or runs:   *)
(* the functor and `ready' are on its stack.                               *)
THEOREM CallersStay == Spec => []CallerStays
<1>1. Init => Inv
  BY InitInv
<1>2. Inv /\ [Next]_vars => Inv'
  BY NextInv
<1>3. Inv => CallerStays
  BY DEF Inv
<1>4. QED
  BY <1>1, <1>2, <1>3, PTL DEF Spec

-----------------------------------------------------------------------------
(* No wakeup is lost.  A thread that has looked at its queue, at stop_ or  *)
(* at the flag of its call and found nothing is not overtaken: whoever     *)
(* changes one of them has set the event, or is about to.                  *)
Stir(t) == event_[t] \/ WakeComing(t)

Awake ==
  \A t \in Threads :
    ~Stir(t) =>
      /\ pc[t] \in {"check", "wait"} => messages_[t] = << >>
      /\ pc[t] = "wait" => ~stop_[t]
      /\ pc[t] = "blocked" => ~ready[job[t]]

(* Only the thread itself takes its event, and looks again.                *)
Stirs ==
  /\ \A t \in Threads : event_[t] => event_'[t] \/ pc'[t] \in {"scan", "test"}
  /\ \A t \in Threads : qpc[t] = "wake" => qpc'[t] = "wake" \/ event_'[t]
  /\ \A p \in Actors : pc[p] = "wakeup" =>
       (pc'[p] = "wakeup" /\ target'[p] = target[p]) \/ event_'[target[p]]
  /\ \A x \in Threads : pc[x] = "reply" /\ caller[running[x]] \in Threads =>
       (pc'[x] = "reply" /\ caller'[running'[x]] = caller[running[x]])
         \/ event_'[caller[running[x]]]

(* What a thread may find when it looks comes with a wakeup.               *)
Told(t) ==
  /\ pc'[t] \in {"check", "wait"} =>
       messages_'[t] = << >> \/ Stir(t)' \/ (pc[t] \in {"check", "wait"} /\ messages_'[t] = messages_[t])
  /\ pc'[t] = "wait" => ~stop_'[t] \/ Stir(t)' \/ (pc[t] = "wait" /\ stop_'[t] = stop_[t])
  /\ pc'[t] = "blocked" =>
       ~ready'[job'[t]] \/ Stir(t)' \/ (pc[t] = "blocked" /\ ready[job[t]])

LEMMA AwakeStep ==
  ASSUME TypeOK, Awake, Stirs, \A t \in Threads : Told(t)
  PROVE  Awake'
<1> SUFFICES ASSUME NEW t \in Threads, ~Stir(t)'
             PROVE  /\ pc'[t] \in {"check", "wait"} => messages_'[t] = << >>
                    /\ pc'[t] = "wait" => ~stop_'[t]
                    /\ pc'[t] = "blocked" => ~ready'[job'[t]]
  BY DEF Awake
<1>1. Told(t)
  OBVIOUS
<1>2. ~event_'[t] /\ ~WakeComing(t)'
  BY DEF Stir
<1>3. pc'[t] \in {"check", "wait", "blocked"} => ~Stir(t)
  <2> SUFFICES ASSUME pc'[t] \in {"check", "wait", "blocked"}
               PROVE  ~Stir(t)
    OBVIOUS
  <2>1. ~event_[t]
    BY <1>2 DEF Stirs
  <2>2. qpc[t] # "wake"
    BY <1>2 DEF Stirs, WakeComing
  <2>3. \A p \in Actors : ~(pc[p] = "wakeup" /\ target[p] = t)
    BY <1>2 DEF Stirs, WakeComing
  <2>4. \A x \in Threads : ~(pc[x] = "reply" /\ caller[running[x]] = t)
    BY <1>2 DEF Stirs, WakeComing
  <2>5. QED
    BY <2>1, <2>2, <2>3, <2>4 DEF Stir, WakeComing
<1>4. ~Stir(t) =>
        /\ pc[t] \in {"check", "wait"} => messages_[t] = << >>
        /\ pc[t] = "wait" => ~stop_[t]
        /\ pc[t] = "blocked" => ~ready[job[t]]
  BY DEF Awake
<1>5. pc'[t] \in {"check", "wait"} => messages_'[t] = << >>
  BY <1>1, <1>3, <1>4 DEF Told
<1>6. pc'[t] = "wait" => ~stop_'[t]
  BY <1>1, <1>3, <1>4 DEF Told
<1>7. pc'[t] = "blocked" => ~ready'[job'[t]]
  BY <1>1, <1>3, <1>4 DEF Told
<1>8. QED
  BY <1>5, <1>6, <1>7

(* A step that moves one thread, and neither a queue nor a flag.           *)
LEMMA SameTold ==
  ASSUME UNCHANGED <<messages_, stop_, ready>>, NEW t \in Threads,
         pc'[t] \in {"check", "wait", "blocked"} => pc'[t] = pc[t] /\ job'[t] = job[t]
  PROVE  Told(t)
BY DEF Told

LEMMA BeginAwake ==
  ASSUME Inv, Awake, NEW p \in Actors, Begin(p)
  PROVE  Awake'
<1>0. TypeOK
  BY DEF Inv
<1>1. PICK j \in Jobs :
        \/ CallSelf(p, j)
        \/ \E to \in Threads :
             PostTask(p, j, to) \/ BlockingCall(p, j, to) \/ CallQuitting(p, j, to)
  BY DEF Begin
<1>2. UNCHANGED <<messages_, stop_, event_, running, ready, qpc>>
  BY <1>1 DEF CallSelf, PostTask, BlockingCall, BeginCall, CallQuitting, Abort, callVars, jobVars
<1>3. CASE UNCHANGED <<pc, job, target, caller>>
  <2>1. Stirs
    BY <1>2, <1>3 DEF Stirs
  <2>2. \A t \in Threads : Told(t)
    BY <1>2, <1>3, SameTold
  <2>3. QED
    BY <1>0, <2>1, <2>2, AwakeStep
<1>4. ASSUME NEW to \in Threads, NEW who \in {p, Nobody}, NEW w \in {"register", "post"},
             BeginCall(p, j, to, who, w)
      PROVE  Awake'
  <2>1. /\ pc[p] = "run" /\ fate[j] = "new"
        /\ pc' = [pc EXCEPT ![p] = w]
        /\ job' = [job EXCEPT ![p] = j]
        /\ target' = [target EXCEPT ![p] = to]
        /\ caller' = [caller EXCEPT ![j] = who]
    BY <1>4 DEF BeginCall, GoTo
  <2>2. /\ pc'[p] = w
        /\ \A q \in Actors : q # p => pc'[q] = pc[q] /\ job'[q] = job[q] /\ target'[q] = target[q]
        /\ \A k \in Jobs : k # j => caller'[k] = caller[k]
    BY <2>1 DEF Inv, TypeOK
  <2>3. \A x \in Threads : pc[x] = "reply" => running[x] \in Jobs /\ running[x] # j
    BY <2>1 DEF Inv, TypeOK, ReplyKnown, Run
  <2>4. Stirs
    BY <1>2, <2>1, <2>2, <2>3 DEF Stirs, Actors
  <2>5. \A t \in Threads : Told(t)
    BY <1>2, <2>2, SameTold DEF Actors
  <2>6. QED
    BY <1>0, <2>4, <2>5, AwakeStep
<1>5. ASSUME NEW to \in Threads, PostTask(p, j, to) \/ BlockingCall(p, j, to)
      PROVE  Awake'
  BY <1>4, <1>5 DEF PostTask, BlockingCall
<1>6. CASE CallSelf(p, j) \/ \E to \in Threads : CallQuitting(p, j, to)
  BY <1>3, <1>6 DEF CallSelf, CallQuitting, Abort, callVars, jobVars
<1>7. QED
  BY <1>1, <1>5, <1>6

LEMMA CallingAwake ==
  ASSUME Inv, Awake, NEW p \in Actors, Calling(p)
  PROVE  Awake'
<1>0. TypeOK /\ pc[p] \in InCall
  BY DEF Inv, Calling, Register, PostRefused, PostAdmitted, Push, WakeUp, TestReady, WaitInCall,
         Rewake, WaitDone, InCall
<1>a. /\ job[p] \in Jobs /\ target[p] \in Threads
      /\ pc[p] \in {"blocked", "rewake"} => p \in Threads
  BY <1>0 DEF TypeOK, CallerKnown, InCall
<1>b. UNCHANGED <<stop_, running, caller, qpc>>
  BY DEF Calling, Register, Abort, PostRefused, PostAdmitted, Push, WakeUp, TestReady, WaitInCall,
         Rewake, WaitDone, callVars, jobVars
<1>c. ASSUME Moves(p),
             \A t \in Threads : event_[t] => event_'[t] \/ pc'[t] \in {"scan", "test"},
             pc[p] = "wakeup" => event_'[target[p]]
      PROVE  Stirs
  <2>1. \A q \in Actors : pc[q] = "wakeup" =>
          (pc'[q] = "wakeup" /\ target'[q] = target[q]) \/ event_'[target[q]]
    BY <1>c DEF Moves
  <2>2. \A x \in Threads : pc[x] = "reply" => pc'[x] = "reply"
    BY <1>0, <1>c DEF Moves, Actors, InCall
  <2>3. QED
    BY <1>b, <1>c, <2>1, <2>2 DEF Stirs
<1>d. ASSUME UNCHANGED <<messages_, ready>>, Moves(p), Stirs,
             pc'[p] = "blocked" => ~ready[job[p]], pc'[p] \notin {"check", "wait"}
      PROVE  Awake'
  <2>1. ASSUME NEW t \in Threads, t # p PROVE Told(t)
    BY <1>b, <1>d, <2>1, SameTold DEF Moves, Actors
  <2>2. ASSUME p \in Threads PROVE Told(p)
    BY <1>d DEF Told, Moves, InCall
  <2>3. QED
    BY <1>0, <1>d, <2>1, <2>2, AwakeStep
<1>1. CASE Register(p)
  <2>1. CASE p \in AllTargets(target[p])
    BY <1>1, <2>1 DEF Register, Abort, callVars, jobVars, Awake, Stir, WakeComing
  <2>2. CASE p \notin AllTargets(target[p])
    <3>1. /\ pc[p] = "register" /\ GoTo(p, "post")
          /\ UNCHANGED <<messages_, event_, job, target, ready>>
      BY <1>1, <2>2 DEF Register, callVars, jobVars
    <3>2. Moves(p) /\ pc'[p] = "post"
      BY <1>0, <3>1, StayPlace DEF InCall
    <3>3. QED
      BY <1>c, <1>d, <3>1, <3>2
  <2>3. QED
    BY <2>1, <2>2
<1>2. CASE PostRefused(p)
  <2>1. pc[p] = "post" /\ UNCHANGED messages_
    BY <1>2 DEF PostRefused
  <2>2. CASE caller[job[p]] = Nobody
    <3>1. LeaveCall(p, "run") /\ UNCHANGED <<event_, ready>>
      BY <1>2, <2>2 DEF PostRefused
    <3>2. Moves(p) /\ pc'[p] = "run"
      BY <1>0, <3>1, LeavePlace
    <3>3. QED
      BY <1>c, <1>d, <2>1, <3>1, <3>2
  <2>3. CASE caller[job[p]] # Nobody
    <3>1. /\ GoTo(p, "test") /\ UNCHANGED <<job, target>> /\ ready' = [ready EXCEPT ![job[p]] = TRUE]
          /\ event_' = IF p \in Threads THEN [event_ EXCEPT ![p] = TRUE] ELSE event_
      BY <1>2, <2>3 DEF PostRefused, callVars
    <3>2. Moves(p) /\ pc'[p] = "test"
      BY <1>0, <3>1, StayPlace DEF InCall
    <3>3. \A t \in Threads : event_[t] => event_'[t]
      BY <1>0, <3>1 DEF TypeOK
    <3>4. Stirs
      BY <1>c, <2>1, <3>2, <3>3
    <3>5. ASSUME NEW t \in Threads PROVE Told(t)
      <4>1. CASE t = p
        BY <3>2, <4>1 DEF Told
      <4>2. CASE t # p
        <5>1. pc[t] = "blocked" => ready'[job[t]] = ready[job[t]]
          <6>1. pc[t] = "blocked" => job[t] # job[p]
            BY <1>0, <4>2 DEF Inv, Owned, InCall, Actors
          <6>2. pc[t] = "blocked" => job[t] \in Jobs
            BY <1>0 DEF TypeOK, CallerKnown, Actors
          <6>3. QED
            BY <1>0, <3>1, <6>1, <6>2 DEF TypeOK
        <5>2. pc'[t] = pc[t] /\ job'[t] = job[t]
          BY <3>2, <4>2 DEF Moves, Actors
        <5>3. QED
          BY <1>b, <2>1, <5>1, <5>2 DEF Told
      <4>3. QED
        BY <4>1, <4>2
    <3>6. QED
      BY <1>0, <3>4, <3>5, AwakeStep
  <2>4. QED
    BY <2>2, <2>3
<1>3. CASE PostAdmitted(p)
  <2>1. /\ pc[p] = "post" /\ GoTo(p, "push")
        /\ UNCHANGED <<messages_, event_, job, target, ready>>
    BY <1>3 DEF PostAdmitted, callVars, jobVars
  <2>2. Moves(p) /\ pc'[p] = "push"
    BY <1>0, <2>1, StayPlace DEF InCall
  <2>3. QED
    BY <1>c, <1>d, <2>1, <2>2
<1>4. CASE Push(p)
  <2>1. /\ pc[p] = "push" /\ GoTo(p, "wakeup") /\ UNCHANGED <<event_, job, target, ready>>
        /\ messages_' = [messages_ EXCEPT ![target[p]] = Append(@, job[p])]
    BY <1>4 DEF Push, callVars
  <2>2. Moves(p) /\ pc'[p] = "wakeup"
    BY <1>0, <2>1, StayPlace DEF InCall
  <2>3. Stirs
    BY <1>c, <2>1, <2>2
  <2>4. \A t \in Threads : t # target[p] => messages_'[t] = messages_[t]
    BY <1>0, <2>1 DEF TypeOK
  <2>5. \A t \in Threads : t = target[p] => Stir(t)'
    BY <1>a, <2>1, <2>2 DEF Stir, WakeComing
  <2>6. ASSUME NEW t \in Threads PROVE Told(t)
    <3>1. CASE t = target[p]
      BY <2>5, <3>1 DEF Told
    <3>2. CASE t # target[p] /\ t # p
      BY <1>b, <2>1, <2>2, <2>4, <3>2 DEF Told, Moves, Actors
    <3>3. CASE t = p
      BY <2>2, <3>3 DEF Told
    <3>4. QED
      BY <3>1, <3>2, <3>3
  <2>7. QED
    BY <1>0, <2>3, <2>6, AwakeStep
<1>5. CASE WakeUp(p)
  <2>1. /\ pc[p] = "wakeup" /\ UNCHANGED <<messages_, ready>>
        /\ event_' = [event_ EXCEPT ![target[p]] = TRUE]
    BY <1>5 DEF WakeUp, jobVars
  <2>2. Moves(p) /\ pc'[p] \in {"run", "test"}
    <3>1. CASE LeaveCall(p, "run")
      BY <1>0, <3>1, LeavePlace
    <3>2. CASE GoTo(p, "test") /\ UNCHANGED callVars
      BY <1>0, <3>2, StayPlace DEF InCall, callVars
    <3>3. QED
      BY <1>5, <3>1, <3>2 DEF WakeUp
  <2>3. event_'[target[p]] /\ \A t \in Threads : event_[t] => event_'[t]
    BY <1>0, <1>a, <2>1 DEF TypeOK
  <2>4. QED
    BY <1>c, <1>d, <2>1, <2>2, <2>3
<1>6. CASE TestReady(p)
  <2>1. pc[p] = "test" /\ p \in Threads /\ UNCHANGED <<messages_, event_, ready>>
    BY <1>6 DEF TestReady, jobVars
  <2>2. CASE LeaveCall(p, "run")
    <3>1. Moves(p) /\ pc'[p] = "run"
      BY <1>0, <2>2, LeavePlace
    <3>2. QED
      BY <1>c, <1>d, <2>1, <3>1
  <2>3. CASE GoTo(p, "rewake") /\ UNCHANGED callVars
    <3>1. Moves(p) /\ pc'[p] = "rewake"
      BY <1>0, <2>1, <2>3, StayPlace DEF InCall, callVars
    <3>2. QED
      BY <1>c, <1>d, <2>1, <3>1
  <2>4. CASE ~ready[job[p]] /\ GoTo(p, "blocked") /\ UNCHANGED callVars
    <3>1. Moves(p) /\ pc'[p] = "blocked"
      BY <1>0, <2>1, <2>4, StayPlace DEF InCall, callVars
    <3>2. QED
      BY <1>c, <1>d, <2>1, <2>4, <3>1
  <2>5. QED
    BY <1>6, <2>2, <2>3, <2>4 DEF TestReady
<1>7. CASE WaitInCall(p)
  <2>1. /\ pc[p] = "blocked" /\ GoTo(p, "test") /\ UNCHANGED <<messages_, job, target, ready>>
        /\ event_' = [event_ EXCEPT ![p] = FALSE]
    BY <1>7 DEF WaitInCall, jobVars
  <2>2. Moves(p) /\ pc'[p] = "test"
    BY <1>0, <2>1, StayPlace DEF InCall
  <2>3. \A t \in Threads : t # p => event_'[t] = event_[t]
    BY <1>0, <2>1 DEF TypeOK
  <2>4. \A t \in Threads : event_[t] => event_'[t] \/ pc'[t] \in {"scan", "test"}
    BY <2>2, <2>3
  <2>5. QED
    BY <1>c, <1>d, <2>1, <2>2, <2>4
<1>8. CASE Rewake(p) \/ WaitDone(p)
  <2>1. /\ pc[p] # "wakeup" /\ LeaveCall(p, "run") /\ UNCHANGED <<messages_, ready>>
        /\ event_' = event_ \/ event_' = [event_ EXCEPT ![p] = TRUE]
    BY <1>8 DEF Rewake, WaitDone, jobVars
  <2>2. Moves(p) /\ pc'[p] = "run"
    BY <1>0, <2>1, LeavePlace
  <2>3. \A t \in Threads : event_[t] => event_'[t]
    BY <1>0, <2>1 DEF TypeOK
  <2>4. QED
    BY <1>c, <1>d, <2>1, <2>2, <2>3
<1>9. QED
  BY <1>1, <1>2, <1>3, <1>4, <1>5, <1>6, <1>7, <1>8 DEF Calling

LEMMA LoopAwake ==
  ASSUME Inv, Awake, NEW t \in Threads, Loop(t)
  PROVE  Awake'
<1>a. /\ TypeOK /\ t \in Actors /\ pc[t] \notin InCall
      /\ UNCHANGED <<stop_, qpc, caller, job, target>>
  BY DEF Inv, Loop, TakeMessage, NothingReady, CheckQuitting, WaitInGet, ReturnFromCode,
         SetReady, WakeCaller, callVars, jobVars, Actors, InCall
<1>b. PICK w \in {"run", "check", "exited", "wait", "scan", "cleanup", "reply"} : GoTo(t, w)
  BY DEF Loop, TakeMessage, NothingReady, CheckQuitting, WaitInGet, ReturnFromCode,
         SetReady, WakeCaller
<1>c. pc'[t] = w /\ \A q \in Actors : q # t => pc'[q] = pc[q]
  BY <1>a, <1>b DEF TypeOK, GoTo
<1>d. \A x \in Threads : pc[x] = "reply" => running[x] \in Jobs
  BY <1>a DEF TypeOK, ReplyKnown
<1>e. ASSUME \A x \in Threads : event_[x] => event_'[x] \/ pc'[x] \in {"scan", "test"},
             \A x \in Threads : x # t => running'[x] = running[x],
             pc[t] = "reply" /\ caller[running[t]] \in Threads => event_'[caller[running[t]]]
      PROVE  Stirs
  <2>1. \A q \in Actors : pc[q] = "wakeup" => pc'[q] = "wakeup"
    BY <1>a, <1>c DEF InCall
  <2>2. \A x \in Threads : pc[x] = "reply" /\ caller[running[x]] \in Threads =>
          (pc'[x] = "reply" /\ caller'[running'[x]] = caller[running[x]])
            \/ event_'[caller[running[x]]]
    BY <1>a, <1>c, <1>e DEF Actors
  <2>3. QED
    BY <1>a, <1>e, <2>1, <2>2 DEF Stirs
<1>f. \A x \in Threads : x # t => pc'[x] = pc[x] /\ job'[x] = job[x]
  BY <1>a, <1>c DEF Actors
<1>1. CASE TakeMessage(t)
  <2>1. /\ pc[t] = "scan" /\ UNCHANGED <<event_, ready>>
        /\ messages_' = [messages_ EXCEPT ![t] = Tail(@)]
        /\ running' = [running EXCEPT ![t] = Head(messages_[t])]
    BY <1>1 DEF TakeMessage
  <2>2. pc'[t] = "run"
    BY <1>1, <1>a DEF TakeMessage, GoTo, TypeOK
  <2>3. \A x \in Threads : x # t => messages_'[x] = messages_[x] /\ running'[x] = running[x]
    BY <1>a, <2>1 DEF TypeOK
  <2>4. Stirs
    BY <1>e, <2>1, <2>3
  <2>5. \A x \in Threads : Told(x)
    BY <1>a, <1>f, <2>1, <2>2, <2>3 DEF Told
  <2>6. QED
    BY <1>a, <2>4, <2>5, AwakeStep
<1>2. CASE NothingReady(t)
  <2>1. pc[t] = "scan" /\ messages_[t] = << >> /\ UNCHANGED <<messages_, event_, running, ready>>
    BY <1>2 DEF NothingReady, jobVars
  <2>2. pc'[t] = "check"
    BY <1>2, <1>a DEF NothingReady, GoTo, TypeOK
  <2>3. Stirs
    BY <1>e, <2>1
  <2>4. \A x \in Threads : Told(x)
    BY <1>a, <1>f, <2>1, <2>2 DEF Told
  <2>5. QED
    BY <1>a, <2>3, <2>4, AwakeStep
<1>3. CASE CheckQuitting(t)
  <2>1. pc[t] = "check" /\ UNCHANGED <<messages_, event_, running, ready>>
    BY <1>3 DEF CheckQuitting, jobVars
  <2>2. pc'[t] = IF stop_[t] THEN "exited" ELSE "wait"
    BY <1>3, <1>a DEF CheckQuitting, GoTo, TypeOK
  <2>3. Stirs
    BY <1>e, <2>1
  <2>4. \A x \in Threads : Told(x)
    BY <1>a, <1>f, <2>1, <2>2 DEF Told
  <2>5. QED
    BY <1>a, <2>3, <2>4, AwakeStep
<1>4. CASE WaitInGet(t)
  <2>1. /\ pc[t] = "wait" /\ UNCHANGED <<messages_, running, ready>>
        /\ event_' = [event_ EXCEPT ![t] = FALSE]
    BY <1>4 DEF WaitInGet, jobVars
  <2>2. pc'[t] = "scan"
    BY <1>4, <1>a DEF WaitInGet, GoTo, TypeOK
  <2>3. \A x \in Threads : x # t => event_'[x] = event_[x]
    BY <1>a, <2>1 DEF TypeOK
  <2>4. Stirs
    BY <1>e, <2>1, <2>2, <2>3
  <2>5. \A x \in Threads : Told(x)
    BY <1>a, <1>f, <2>1, <2>2, SameTold
  <2>6. QED
    BY <1>a, <2>4, <2>5, AwakeStep
<1>5. CASE ReturnFromCode(t)
  <2>1. /\ pc[t] = "run" /\ UNCHANGED <<messages_, event_, ready>>
        /\ running' = running \/ running' = [running EXCEPT ![t] = NoJob]
    BY <1>5 DEF ReturnFromCode
  <2>2. pc'[t] \in {"scan", "cleanup"}
    BY <1>5, <1>a DEF ReturnFromCode, GoTo, TypeOK
  <2>3. \A x \in Threads : x # t => running'[x] = running[x]
    BY <1>a, <2>1 DEF TypeOK
  <2>4. Stirs
    BY <1>e, <2>1, <2>3
  <2>5. \A x \in Threads : Told(x)
    BY <1>a, <1>f, <2>1, <2>2, SameTold
  <2>6. QED
    BY <1>a, <2>4, <2>5, AwakeStep
<1>6. CASE SetReady(t)
  <2>1. /\ pc[t] = "cleanup" /\ UNCHANGED <<messages_, event_>>
        /\ running' = running \/ running' = [running EXCEPT ![t] = NoJob]
        /\ ready' = [ready EXCEPT ![running[t]] = TRUE]
        /\ running[t] \in Jobs
    BY <1>6, <1>a DEF SetReady, TypeOK, ReplyKnown
  <2>2. caller[running[t]] \in Threads => pc'[t] = "reply" /\ running' = running
    BY <1>6, <1>a DEF SetReady, GoTo, TypeOK
  <2>3. pc'[t] \in {"scan", "reply"}
    BY <1>6, <1>a DEF SetReady, GoTo, TypeOK
  <2>4. \A x \in Threads : x # t => running'[x] = running[x]
    BY <1>a, <2>1 DEF TypeOK
  <2>5. Stirs
    BY <1>e, <2>1, <2>4
  <2>6. ASSUME NEW x \in Threads PROVE Told(x)
    <3>1. CASE x = t
      BY <2>3, <3>1 DEF Told
    <3>2. CASE x # t /\ pc[x] # "blocked"
      BY <1>a, <1>f, <2>1, <3>2 DEF Told
    <3>3. CASE x # t /\ pc[x] = "blocked" /\ job[x] # running[t]
      <4>1. job[x] \in Jobs
        BY <1>a, <3>3 DEF TypeOK, CallerKnown, Actors
      <4>2. ready'[job[x]] = ready[job[x]]
        BY <1>a, <2>1, <3>3, <4>1 DEF TypeOK
      <4>3. QED
        BY <1>a, <1>f, <3>3, <4>2 DEF Told
    <3>4. CASE x # t /\ pc[x] = "blocked" /\ job[x] = running[t]
      <4>1. caller[running[t]] = x
        BY <3>4 DEF Inv, Owned, Actors
      <4>2. WakeComing(x)'
        BY <1>a, <2>2, <4>1 DEF WakeComing
      <4>3. QED
        BY <1>f, <3>4, <4>2 DEF Told, Stir
    <3>5. QED
      BY <3>1, <3>2, <3>3, <3>4
  <2>7. QED
    BY <1>a, <2>5, <2>6, AwakeStep
<1>7. CASE WakeCaller(t)
  <2>1. /\ pc[t] = "reply" /\ UNCHANGED <<messages_, ready>>
        /\ running' = [running EXCEPT ![t] = NoJob]
        /\ event_' = [event_ EXCEPT ![caller[running[t]]] = TRUE]
    BY <1>7 DEF WakeCaller, jobVars
  <2>2. pc'[t] = "scan"
    BY <1>7, <1>a DEF WakeCaller, GoTo, TypeOK
  <2>3. \A x \in Threads : x # t => running'[x] = running[x]
    BY <1>a, <2>1 DEF TypeOK
  <2>4. \A x \in Threads : event_[x] => event_'[x]
    BY <1>a, <2>1 DEF TypeOK
  <2>5. \A x \in Threads : x = caller[running[t]] => event_'[x]
    BY <1>a, <2>1 DEF TypeOK
  <2>6. Stirs
    BY <1>e, <2>3, <2>4, <2>5
  <2>7. \A x \in Threads : Told(x)
    BY <1>a, <1>f, <2>1, <2>2, SameTold
  <2>8. QED
    BY <1>a, <2>6, <2>7, AwakeStep
<1>8. QED
  BY <1>1, <1>2, <1>3, <1>4, <1>5, <1>6, <1>7 DEF Loop

LEMMA LifeAwake ==
  ASSUME Inv, Awake, NEW t \in Threads, Quit(t) \/ QuitWakeUp(t) \/ Destroy(t)
  PROVE  Awake'
<1>a. TypeOK
  BY DEF Inv
<1>b. UNCHANGED <<running, caller, job, target, ready>>
  BY DEF Quit, QuitWakeUp, Destroy, callVars, jobVars
<1>1. CASE Quit(t)
  <2>1. /\ qpc[t] = "no" /\ UNCHANGED <<messages_, event_, pc>>
        /\ stop_' = [stop_ EXCEPT ![t] = TRUE] /\ qpc' = [qpc EXCEPT ![t] = "wake"]
    BY <1>1 DEF Quit
  <2>2. /\ qpc'[t] = "wake"
        /\ \A x \in Threads : x # t => qpc'[x] = qpc[x] /\ stop_'[x] = stop_[x]
    BY <1>a, <2>1 DEF TypeOK
  <2>3. Stirs
    BY <1>b, <2>1, <2>2 DEF Stirs
  <2>4. Stir(t)'
    BY <2>2 DEF Stir, WakeComing
  <2>5. \A x \in Threads : Told(x)
    BY <1>b, <2>1, <2>2, <2>4 DEF Told
  <2>6. QED
    BY <1>a, <2>3, <2>5, AwakeStep
<1>2. CASE QuitWakeUp(t)
  <2>1. /\ UNCHANGED <<messages_, stop_, pc>>
        /\ event_' = [event_ EXCEPT ![t] = TRUE] /\ qpc' = [qpc EXCEPT ![t] = "done"]
    BY <1>2 DEF QuitWakeUp
  <2>2. /\ event_'[t]
        /\ \A x \in Threads : event_[x] => event_'[x]
        /\ \A x \in Threads : x # t => qpc'[x] = qpc[x]
    BY <1>a, <2>1 DEF TypeOK
  <2>3. Stirs
    BY <1>b, <2>1, <2>2 DEF Stirs
  <2>4. \A x \in Threads : Told(x)
    BY <1>b, <2>1, SameTold
  <2>5. QED
    BY <1>a, <2>3, <2>4, AwakeStep
<1>3. CASE Destroy(t)
  <2>1. /\ UNCHANGED <<stop_, event_, qpc>> /\ pc[t] = "exited"
        /\ messages_' = [messages_ EXCEPT ![t] = << >>]
    BY <1>3 DEF Destroy
  <2>2. pc'[t] = "destroyed" /\ \A q \in Actors : q # t => pc'[q] = pc[q]
    BY <1>3, <1>a DEF Destroy, GoTo, TypeOK, Actors
  <2>3. \A x \in Threads : x # t => messages_'[x] = messages_[x]
    BY <1>a, <2>1 DEF TypeOK
  <2>4. Stirs
    BY <1>b, <2>1, <2>2 DEF Stirs, Actors
  <2>5. \A x \in Threads : Told(x)
    BY <1>b, <2>1, <2>2, <2>3 DEF Told, Actors
  <2>6. QED
    BY <1>a, <2>4, <2>5, AwakeStep
<1>4. QED
  BY <1>1, <1>2, <1>3

(* Posts, replies and Quit share one event, and no wakeup on it is lost.   *)
THEOREM WakeupsKept == Spec => []NoLostWakeup
<1>1. Init => Inv /\ Awake
  <2>1. Init => Awake
    BY DEF Init, Awake, Actors
  <2>2. QED
    BY <2>1, InitInv
<1>2. Inv /\ Awake /\ [Next]_vars => Inv' /\ Awake'
  <2> SUFFICES ASSUME Inv, Awake, [Next]_vars PROVE Awake'
    BY NextInv
  <2>1. CASE UNCHANGED vars
    BY <2>1 DEF vars, callVars, jobVars, Awake, Stir, WakeComing
  <2>2. CASE Next
    BY <2>2, BeginAwake, CallingAwake, LoopAwake, LifeAwake DEF Next, Step, LoopStep, QuitStep
  <2>3. QED
    BY <2>1, <2>2
<1>3. Awake => NoLostWakeup
  BY DEF Awake, Stir, NoLostWakeup
<1>4. QED
  BY <1>1, <1>2, <1>3, PTL DEF Spec

(* The calls beside an event that rests.                                   *)
LEMMA CallsRun == MCSpec => Spec
<1>1. MCInit => Init
  BY DEF MCInit
<1>2. [MCNext]_allVars => [Next]_vars
  BY DEF MCNext, OfCall, OfEvent, allVars
<1>3. QED
  BY <1>1, <1>2, PTL DEF MCSpec, Spec

-----------------------------------------------------------------------------
(* The event                                                               *)

Timeouts == EventTimeouts \cup {kForever}

LEMMA TimeoutTypes ==
  /\ \A d \in Timeouts : d = kForever \/ d \in Nat
  /\ kForever \notin Nat
BY EventAssumption DEF Timeouts, kForever

(* The system's wait gives up when the instant it was given has come.      *)
GaveUpLate ==
  \A th \in EventThreads :
    epc[th] = "timedout" => timeout_ts[th] # kForever /\ clock >= timeout_ts[th]

EventInv == E!TypeOK /\ GaveUpLate

LEMMA EventStarts == E!Init => EventInv
BY DEF E!Init, EventInv, E!TypeOK, GaveUpLate

(* A Wait begins: both instants are in the future, or never.               *)
LEMMA WaitBegins ==
  ASSUME EventInv, NEW th \in EventThreads, NEW give_up_after \in Timeouts, NEW warn_after \in Timeouts,
         E!BeginWait(th, give_up_after, warn_after)
  PROVE  /\ EventInv'
         /\ E!Contract!BeginWait(th, give_up_after)
<1>1. \A d \in Timeouts : E!GetTimespec(d) \in Nat \cup {kForever}
  BY TimeoutTypes DEF E!GetTimespec, EventInv, E!TypeOK
<1>2. E!TypeOK'
  BY <1>1 DEF EventInv, E!TypeOK, E!BeginWait
<1>3. GaveUpLate'
  BY DEF EventInv, E!TypeOK, GaveUpLate, E!BeginWait
<1>4. E!Contract!BeginWait(th, give_up_after)
  BY DEF EventInv, E!TypeOK, E!BeginWait, E!GetTimespec, E!Contract!BeginWait, E!Contract!NotWaiting
<1>5. QED
  BY <1>2, <1>3, <1>4 DEF EventInv

(* Every step keeps the invariant, and is a step of the contract or changes*)
(* nothing of it.                                                          *)
LEMMA EventKeeps ==
  ASSUME EventInv, [E!Next]_E!vars
  PROVE  EventInv' /\ [E!Contract!Next]_E!Contract!eventVars
<1> USE DEF EventInv
<1>1. ASSUME NEW th \in EventThreads, E!Set(th)
      PROVE  EventInv' /\ E!Contract!Set
  BY <1>1 DEF E!TypeOK, GaveUpLate, E!Set, E!Contract!Set
<1>2. ASSUME NEW th \in EventThreads, E!Reset(th)
      PROVE  EventInv' /\ E!Contract!Reset
  BY <1>2 DEF E!TypeOK, GaveUpLate, E!Reset, E!Contract!Reset
<1>3. ASSUME NEW th \in EventThreads, NEW give_up_after \in Timeouts, NEW warn_after \in Timeouts,
             E!BeginWait(th, give_up_after, warn_after)
      PROVE  EventInv' /\ E!Contract!BeginWait(th, give_up_after)
  BY <1>3, WaitBegins
<1>4. ASSUME NEW th \in EventThreads, E!ReturnTrue(th)
      PROVE  EventInv' /\ E!Contract!Signaled(th)
  BY <1>4 DEF E!TypeOK, GaveUpLate, E!ReturnTrue, E!Return, E!Holding, E!Contract!Signaled
<1>5. ASSUME NEW th \in EventThreads, E!ReturnFalse(th)
      PROVE  EventInv' /\ E!Contract!GivesUp(th)
  BY <1>5 DEF E!TypeOK, GaveUpLate, E!ReturnFalse, E!Return, E!InWarnPhase, E!Contract!GivesUp
<1>6. ASSUME NEW th \in EventThreads,
             E!Block(th) \/ E!SpuriousWakeup(th) \/ E!TimeOut(th) \/ E!Warn(th)
      PROVE  EventInv' /\ UNCHANGED E!Contract!eventVars
  BY <1>6 DEF E!TypeOK, GaveUpLate, E!Block, E!Holding, E!SpuriousWakeup, E!TimeOut, E!Warn,
     E!Contract!eventVars
<1>7. ASSUME E!Tick
      PROVE  EventInv' /\ E!Contract!Tick
  BY <1>7 DEF E!TypeOK, GaveUpLate, E!Tick, E!Contract!Tick
<1>8. ASSUME UNCHANGED E!vars
      PROVE  EventInv' /\ UNCHANGED E!Contract!eventVars
  BY <1>8 DEF E!TypeOK, GaveUpLate, E!vars, E!Contract!eventVars
<1>9. QED
  BY <1>1, <1>2, <1>3, <1>4, <1>5, <1>6, <1>7, <1>8
     DEF E!Next, E!Call, E!Waiting, E!Contract!Next, Timeouts

(* rtc::Event on POSIX keeps the contract of an event: Set, Reset and the  *)
(* end of a Wait are one step each, whatever the condition variable does   *)
(* between the two phases of a Wait (event.cc).                            *)
THEOREM EventKeepsItsContract == MCSpec => ImplementsEvent
<1>1. MCInit => EventInv /\ E!Contract!Init
  BY EventStarts DEF MCInit, E!Init, E!Contract!Init
<1>2. [MCNext]_allVars => [E!Next]_E!vars
  BY DEF MCNext, OfCall, OfEvent, allVars, eventVars, E!vars
<1>3. QED
  BY <1>1, <1>2, EventKeeps, PTL DEF MCSpec, ImplementsEvent, E!ImplementsEvent, E!Contract!Spec
==============================================================================
