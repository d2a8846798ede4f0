---------------------------- MODULE RtcThreadProofs ----------------------------
(***************************************************************************)
(* Theorems about RtcThread, for every set of tasks and posting threads,   *)
(* every delay and every argument of ProcessMessages.                      *)
(***************************************************************************)
EXTENDS RtcThread, SequenceTheorems, FiniteSetTheorems, TLAPS

-----------------------------------------------------------------------------
(* The invariants *)

(* From the scan that found nothing until the wait ends, and unless the    *)
(* event is set or about to be, the queues hold what the scan saw.         *)
ScanHolds ==
  /\ wpc \in {"check", "sleep", "wait"} /\ ~event_ /\ ~WakeUpComing =>
       /\ messages_ = << >>
       /\ wpc # "check" => ~stop_
       /\ \A m \in delayed_messages_ :
            cmsNext # kForever /\ msCurrent + cmsNext <= m.run_time_ms
  /\ opc \in {"stopped", "destroyed"} => wpc = "exited"

(* A task is in one call at a time, until it is pushed or refused.         *)
CallsHoldTasks ==
  /\ \A p \in Posters : ppc[p] \in {"check", "push"} => fate[call[p].task] = "calling"
  /\ \A p, q \in Posters :
       ppc[p] \in {"check", "push"} /\ ppc[q] \in {"check", "push"}
         /\ call[p].task = call[q].task => p = q
  /\ \A p \in Posters : ~call[p].delayed =>
       /\ ppc[p] = "check" => call[p].run_time_ms = 0
       /\ ppc[p] = "push" => call[p].run_time_ms <= now

(* A task that was accepted and not started is in one place.               *)
InMessages(t) == \E a \in DOMAIN messages_ : messages_[a] = t
InDelayed(t) == \E m \in delayed_messages_ : m.task = t

QueuedOnce ==
  /\ wpc = "run" => fate[run_task] = "running"
  /\ \A t \in Tasks : fate[t] = "queued" <=> InMessages(t) \/ InDelayed(t)
  /\ \A t \in Tasks : ~(InMessages(t) /\ InDelayed(t))
  /\ \A a, b \in DOMAIN messages_ : messages_[a] = messages_[b] => a = b
  /\ \A m, n \in delayed_messages_ : m.task = n.task => m = n

(* The history of what was accepted, and what it says of the messages.     *)
AcceptedRecord == [task : Tasks, delayed : BOOLEAN, at : Nat]

AcceptedOnce ==
  /\ accepted \in Seq(AcceptedRecord)
  /\ \A i, j \in DOMAIN accepted : accepted[i].task = accepted[j].task => i = j
  /\ \A i \in DOMAIN accepted : fate[accepted[i].task] \notin {"new", "calling", "refused"}

DelayedRecorded ==
  /\ IsFiniteSet(delayed_messages_)
  /\ \A m \in delayed_messages_ : m.message_number < delayed_next_num_
  /\ \A m \in delayed_messages_ : \A i \in DOMAIN accepted :
       accepted[i].task = m.task => accepted[i].delayed /\ accepted[i].at = m.run_time_ms
  /\ \A m, n \in delayed_messages_ : \A i, j \in DOMAIN accepted :
       accepted[i].task = m.task /\ accepted[j].task = n.task /\ i < j =>
         m.message_number < n.message_number

(* The task t may start although u waits.                                  *)
MayPass(t, u) ==
  \A i, j \in DOMAIN accepted :
    accepted[i].task = t /\ accepted[j].task = u /\ j < i => MayOvertake(accepted[i], accepted[j])

MessagesInOrder ==
  /\ \A a, b \in DOMAIN messages_ : a < b => MayPass(messages_[a], messages_[b])
  /\ \A a \in DOMAIN messages_ : \A m \in delayed_messages_ : MayPass(messages_[a], m.task)
  /\ \A a \in DOMAIN messages_ : \A i \in DOMAIN accepted :
       accepted[i].task = messages_[a] => accepted[i].at <= now
  /\ msCurrent <= now

OrderInv ==
  /\ CallsHoldTasks
  /\ QueuedOnce
  /\ AcceptedOnce
  /\ DelayedRecorded
  /\ MessagesInOrder

-----------------------------------------------------------------------------
(* Lemmas *)

(* What is known of a well typed state, part by part.                      *)
LEMMA CallTyped ==
  ASSUME TypeOK, NEW p \in Posters, ppc[p] \in {"check", "push"}
  PROVE  call[p].task \in Tasks /\ call[p].delayed \in BOOLEAN /\ call[p].run_time_ms \in Nat
BY DEF TypeOK, Call

LEMMA MessagesTyped ==
  ASSUME TypeOK
  PROVE  /\ \A a \in DOMAIN messages_ : messages_[a] \in Tasks
         /\ \A m \in delayed_messages_ :
              m.task \in Tasks /\ m.run_time_ms \in Nat /\ m.message_number \in Nat
BY DEF TypeOK, Message

(* The messages that are due become a sequence of their tasks.             *)
LEMMA DueTyped ==
  ASSUME TypeOK, IsFiniteSet(delayed_messages_), NEW due \in DueOrders
  PROVE  LET tasks == [i \in DOMAIN due |-> due[i].task]
         IN  /\ Cardinality(Triggered) \in Nat
             /\ DOMAIN due = 1 .. Cardinality(Triggered)
             /\ \A i \in DOMAIN due : due[i] \in Triggered /\ due[i].task \in Tasks
             /\ tasks \in Seq(Tasks) /\ Len(tasks) = Cardinality(Triggered)
             /\ messages_ \o tasks \in Seq(Tasks)
<1> DEFINE n == Cardinality(Triggered)
           tasks == [i \in DOMAIN due |-> due[i].task]
<1>1. n \in Nat
  <2>1. IsFiniteSet(Triggered)
    BY FS_Subset DEF Triggered
  <2> QED
    BY <2>1, FS_CardinalityType
<1>2. due \in [1 .. n -> Triggered]
  BY DEF DueOrders
<1> HIDE DEF n
<1>3. \A i \in 1 .. n : due[i] \in Triggered /\ due[i].task \in Tasks
  BY <1>2, MessagesTyped DEF Triggered
<1>4. tasks \in [1 .. n -> Tasks]
  BY <1>2, <1>3
<1>5. tasks \in Seq(Tasks) /\ Len(tasks) = n
  BY <1>1, <1>4
<1> HIDE DEF tasks
<1>6. messages_ \o tasks \in Seq(Tasks)
  BY <1>5 DEF TypeOK
<1> QED
  BY <1>1, <1>2, <1>3, <1>5, <1>6 DEF n, tasks

LEMMA DelayNextTyped ==
  ASSUME TypeOK, Triggered = {}, NEW n \in DelayNext
  PROVE  /\ n \in Nat \cup {kForever}
         /\ \A m \in delayed_messages_ : n # kForever /\ msCurrent + n <= m.run_time_ms
<1>1. CASE delayed_messages_ = {}
  BY <1>1 DEF DelayNext
<1>2. CASE delayed_messages_ # {}
  <2>1. PICK top \in delayed_messages_ : IsTop(top) /\ n = top.run_time_ms - msCurrent
    BY <1>2 DEF DelayNext
  <2>2. /\ msCurrent \in Nat /\ top.run_time_ms \in Nat /\ ~(top.run_time_ms <= msCurrent)
    BY MessagesTyped DEF TypeOK, Triggered
  <2>3. ASSUME NEW m \in delayed_messages_ PROVE top.run_time_ms <= m.run_time_ms /\ m.run_time_ms \in Nat
    BY <2>1, <2>2, MessagesTyped DEF IsTop, Sooner
  <2> QED
    BY <2>1, <2>2, <2>3 DEF kForever
<1> QED
  BY <1>1, <1>2

-----------------------------------------------------------------------------
(* Every reachable state is well typed, and its delayed messages are       *)
(* finitely many.                                                          *)
Typed == TypeOK /\ IsFiniteSet(delayed_messages_)

THEOREM TypeCorrect == Spec => []Typed
<1>1. Init => Typed
  <2> SUFFICES ASSUME Init PROVE TypeOK /\ IsFiniteSet(delayed_messages_)
    BY DEF Typed
  <2>1. IsFiniteSet(delayed_messages_)
    BY FS_EmptySet DEF Init
  <2>2. messages_ \in Seq(Tasks) /\ delayed_messages_ \subseteq Message
    BY DEF Init
  <2>3. /\ call \in [Posters -> Call \cup {NoCall}]
        /\ ppc \in [Posters -> {"idle", "check", "push", "wakeup"}]
        /\ \A p \in Posters : ppc[p] \notin {"check", "push"}
    BY DEF Init
  <2>4. starts \in 0 .. MaxStarts
    BY ThreadAssumption DEF Init
  <2>5. run_task \in Tasks \cup {NoTask} /\ wpc # "run"
    BY DEF Init
  <2> HIDE DEF NoTask, Call, NoCall, Message
  <2> QED
    BY <2>1, <2>2, <2>3, <2>4, <2>5 DEF Init, TypeOK, kForever
<1>2. Typed /\ [Next]_vars => Typed'
  <2> SUFFICES ASSUME TypeOK, IsFiniteSet(delayed_messages_), [Next]_vars
               PROVE  TypeOK' /\ IsFiniteSet(delayed_messages_)'
    BY DEF Typed
  <2> USE ThreadAssumption DEF TypeOK, kForever
  <2>1. ASSUME NEW p \in Posters, NEW t \in Tasks, NEW b \in BOOLEAN, NEW d \in Nat,
               BeginCall(p, t, b, d)
        PROVE  TypeOK' /\ IsFiniteSet(delayed_messages_)'
    BY <2>1 DEF BeginCall, Call, queueVars, loopVars, getVars, ownerVars
  <2>2. ASSUME NEW p \in Posters, Refuse(p) PROVE TypeOK' /\ IsFiniteSet(delayed_messages_)'
    BY <2>2, CallTyped DEF Refuse, queueVars, loopVars, getVars, ownerVars
  <2>3. ASSUME NEW p \in Posters, Admit(p) PROVE TypeOK' /\ IsFiniteSet(delayed_messages_)'
    <3>1. call' \in [Posters -> Call \cup {NoCall}] /\ call'[p] \in Call
      <4>1. now \in Nat /\ call \in [Posters -> Call \cup {NoCall}]
        OBVIOUS
      <4>2. ppc[p] = "check" /\ call' = [call EXCEPT ![p].run_time_ms = now + @]
        BY <2>3 DEF Admit
      <4>3. call[p] \in Call
        BY <4>2
      <4> HIDE DEF TypeOK
      <4>4. [call[p] EXCEPT !.run_time_ms = now + @] \in Call
        BY <4>1, <4>3 DEF Call
      <4> QED
        BY <4>1, <4>2, <4>4
    <3>2. /\ ppc' \in [Posters -> {"idle", "check", "push", "wakeup"}]
          /\ \A q \in Posters : ppc'[q] \in {"check", "push"} => call'[q] \in Call
      BY <2>3, <3>1 DEF Admit
    <3>3. UNCHANGED <<queueVars, stop_, event_, now, loopVars, ownerVars, fate, accepted>>
      BY <2>3 DEF Admit
    <3> QED
      BY <3>1, <3>2, <3>3 DEF queueVars, loopVars, getVars, ownerVars
  <2>4. ASSUME NEW p \in Posters, Push(p) PROVE TypeOK' /\ IsFiniteSet(delayed_messages_)'
    <3>1. call[p].task \in Tasks /\ call[p].delayed \in BOOLEAN /\ call[p].run_time_ms \in Nat
      BY <2>4, CallTyped DEF Push
    <3>2. messages_' \in Seq(Tasks)
      <4>1. messages_ \in Seq(Tasks)
        OBVIOUS
      <4>2. messages_' = messages_ \/ messages_' = Append(messages_, call[p].task)
        BY <2>4 DEF Push
      <4> HIDE DEF TypeOK
      <4> QED
        BY <3>1, <4>1, <4>2
    <3>3. delayed_messages_' \subseteq Message /\ delayed_next_num_' \in Nat
      BY <2>4, <3>1 DEF Push, Message
    <3>4. IsFiniteSet(delayed_messages_)'
      <4>1. CASE call[p].delayed
        <5> DEFINE m == [run_time_ms |-> call[p].run_time_ms,
                         message_number |-> delayed_next_num_, task |-> call[p].task]
        <5>1. delayed_messages_' = delayed_messages_ \cup {m}
          BY <2>4, <4>1 DEF Push
        <5> HIDE DEF m
        <5> QED
          BY <5>1, FS_AddElement
      <4>2. CASE ~call[p].delayed
        BY <2>4, <4>2 DEF Push
      <4> QED
        BY <4>1, <4>2
    <3>5. /\ fate' \in [Tasks -> {"new", "calling", "refused", "queued", "running", "run",
                                  "destroyed"}]
          /\ ppc' \in [Posters -> {"idle", "check", "push", "wakeup"}]
          /\ call' \in [Posters -> Call \cup {NoCall}]
          /\ \A q \in Posters : ppc'[q] \in {"check", "push"} => call'[q] \in Call
      BY <2>4, <3>1 DEF Push
    <3> QED
      BY <2>4, <3>2, <3>3, <3>4, <3>5 DEF Push, loopVars, getVars, ownerVars
  <2>5. ASSUME NEW p \in Posters, WakeUp(p) PROVE TypeOK' /\ IsFiniteSet(delayed_messages_)'
    BY <2>5 DEF WakeUp, queueVars, loopVars, getVars, ownerVars
  <2>6. CASE BeginLoop
    BY <2>6 DEF BeginLoop, queueVars, posterVars, ownerVars
  <2>7. CASE BeginGet
    BY <2>7 DEF BeginGet, queueVars, posterVars, ownerVars
  <2>8. CASE TakeMessage
    <3>1. PICK due \in DueOrders :
            LET released == messages_ \o [i \in DOMAIN due |-> due[i].task]
            IN  /\ released # << >>
                /\ messages_' = Tail(released)
                /\ run_task' = Head(released)
                /\ fate' = [fate EXCEPT ![Head(released)] = "running"]
      BY <2>8 DEF TakeMessage
    <3> DEFINE released == messages_ \o [i \in DOMAIN due |-> due[i].task]
    <3>2. released \in Seq(Tasks) /\ released # << >>
      BY <3>1, DueTyped
    <3> HIDE DEF released
    <3>3. Tail(released) \in Seq(Tasks) /\ Head(released) \in Tasks
      BY <3>2
    <3>4. messages_' \in Seq(Tasks) /\ run_task' \in Tasks
          /\ fate' = [fate EXCEPT ![run_task'] = "running"]
      BY <3>1, <3>3 DEF released
    <3>5. IsFiniteSet(delayed_messages_)' /\ delayed_messages_' \subseteq Message
      BY <2>8, FS_Subset DEF TakeMessage
    <3> QED
      BY <2>8, <3>4, <3>5 DEF TakeMessage, LeaveGet, posterVars, ownerVars
  <2>9. CASE NothingReady
    <3>1. cmsNext' \in Nat \cup {kForever}
      BY <2>9, DelayNextTyped DEF NothingReady
    <3> QED
      BY <2>9, <3>1 DEF NothingReady, queueVars, posterVars, ownerVars
  <2>10. CASE CheckQuitting
    BY <2>10 DEF CheckQuitting, LeaveGet, queueVars, posterVars, ownerVars
  <2>11. CASE CheckNotQuitting
    BY <2>11 DEF CheckNotQuitting, Shorter, queueVars, posterVars, ownerVars
  <2>12. CASE BeginWait
    BY <2>12 DEF BeginWait, queueVars, posterVars, ownerVars
  <2>13. CASE EndWait
    <3>1. event_' \in BOOLEAN
      BY <2>13 DEF EndWait
    <3>2. /\ UNCHANGED <<queueVars, stop_, now, cmsLoop, msEnd, getVars, run_task,
                         posterVars, ownerVars, fate, accepted>>
          /\ wpc' = "awake"
      BY <2>13 DEF EndWait
    <3> QED
      BY <3>1, <3>2 DEF getVars, queueVars, posterVars, ownerVars
  <2>14. CASE Awake
    BY <2>14 DEF Awake, LeaveGet, queueVars, posterVars, ownerVars
  <2>15. CASE ReturnNull
    BY <2>15 DEF ReturnNull, getVars, queueVars, posterVars, ownerVars
  <2>16. CASE FinishTask
    BY <2>16 DEF FinishTask, queueVars, posterVars, ownerVars
  <2>17. CASE Start
    <3>1. starts' \in 0 .. MaxStarts
      <4>1. starts \in 0 .. MaxStarts
        OBVIOUS
      <4> HIDE DEF TypeOK
      <4> QED
        BY <2>17, <4>1 DEF Start
    <3> QED
      BY <2>17, <3>1 DEF Start, getVars, queueVars, posterVars
  <2>18. CASE Quit
    <3>1. Ready \subseteq Tasks
      BY MessagesTyped DEF Ready
    <3> QED
      BY <2>18, <3>1 DEF Quit, loopVars, getVars, queueVars, posterVars
  <2>19. CASE QuitWakeUp
    BY <2>19 DEF QuitWakeUp, loopVars, getVars, queueVars, posterVars
  <2>20. CASE Join
    BY <2>20 DEF Join, loopVars, getVars, queueVars, posterVars
  <2>21. CASE Destroy
    BY <2>21, FS_EmptySet DEF Destroy, loopVars, getVars, posterVars
  <2>22. CASE Tick
    BY <2>22 DEF Tick, loopVars, getVars, queueVars, posterVars, ownerVars
  <2>23. CASE UNCHANGED vars
    BY <2>23 DEF vars, loopVars, getVars, queueVars, posterVars, ownerVars
  <2> QED
    BY <2>1, <2>2, <2>3, <2>4, <2>5, <2>6, <2>7, <2>8, <2>9, <2>10, <2>11, <2>12, <2>13,
       <2>14, <2>15, <2>16, <2>17, <2>18, <2>19, <2>20, <2>21, <2>22, <2>23
    DEF Next, Post, Poster, Loop, PostTask, PostDelayedTask
<1> QED
  BY <1>1, <1>2, PTL DEF Spec

-----------------------------------------------------------------------------
(* The thread never waits on work that nobody will wake it for, however    *)
(* many threads post and whenever it is told to quit: whoever adds work    *)
(* or stores stop_ sets the event afterwards, and the loop looks again     *)
(* each time it has used the event up.                                     *)
THEOREM WakeUpNotLost == Spec => []NoLostWakeUp
<1>1. Init => ScanHolds
  BY DEF Init, ScanHolds
<1>2. Typed /\ ScanHolds /\ [Next]_vars => ScanHolds'
  <2> SUFFICES ASSUME TypeOK, ScanHolds, [Next]_vars PROVE ScanHolds'
    BY DEF Typed
  <2> USE DEF ScanHolds, WakeUpComing
  <2>1. ASSUME NEW p \in Posters, NEW t, NEW b, NEW d, BeginCall(p, t, b, d) PROVE ScanHolds'
    BY <2>1 DEF BeginCall, TypeOK, queueVars, loopVars, getVars, ownerVars
  <2>2. ASSUME NEW p \in Posters, Refuse(p) PROVE ScanHolds'
    BY <2>2 DEF Refuse, TypeOK, queueVars, loopVars, getVars, ownerVars
  <2>3. ASSUME NEW p \in Posters, Admit(p) PROVE ScanHolds'
    BY <2>3 DEF Admit, TypeOK, queueVars, loopVars, getVars, ownerVars
  <2>4. ASSUME NEW p \in Posters, Push(p) PROVE ScanHolds'
    BY <2>4 DEF Push, TypeOK, loopVars, getVars, ownerVars
  <2>5. ASSUME NEW p \in Posters, WakeUp(p) PROVE ScanHolds'
    BY <2>5 DEF WakeUp, loopVars, ownerVars
  <2>6. CASE BeginLoop
    BY <2>6 DEF BeginLoop, ownerVars
  <2>7. CASE BeginGet
    BY <2>7 DEF BeginGet, ownerVars
  <2>8. CASE TakeMessage
    BY <2>8 DEF TakeMessage, ownerVars
  <2>9. CASE NothingReady
    <3>1. \A m \in delayed_messages_ : cmsNext' # kForever /\ msCurrent + cmsNext' <= m.run_time_ms
      BY <2>9, DelayNextTyped DEF NothingReady
    <3> QED
      BY <2>9, <3>1 DEF NothingReady, queueVars, ownerVars
  <2>10. CASE CheckQuitting
    BY <2>10 DEF CheckQuitting, ownerVars
  <2>11. CASE CheckNotQuitting
    <3>1. ASSUME NEW m \in delayed_messages_, cmsNext # kForever,
                 msCurrent + cmsNext <= m.run_time_ms
          PROVE  cmsNext' # kForever /\ msCurrent + cmsNext' <= m.run_time_ms
      BY <2>11, <3>1, MessagesTyped DEF CheckNotQuitting, Shorter, TypeOK, kForever
    <3> QED
      BY <2>11, <3>1 DEF CheckNotQuitting, queueVars, posterVars, ownerVars
  <2>12. CASE BeginWait
    BY <2>12 DEF BeginWait, queueVars, posterVars, ownerVars
  <2>13. CASE EndWait
    BY <2>13 DEF EndWait, ownerVars
  <2>14. CASE Awake
    BY <2>14 DEF Awake, ownerVars
  <2>15. CASE ReturnNull
    BY <2>15 DEF ReturnNull, ownerVars
  <2>16. CASE FinishTask
    BY <2>16 DEF FinishTask, ownerVars
  <2>17. CASE Start
    BY <2>17 DEF Start
  <2>18. CASE Quit
    BY <2>18 DEF Quit
  <2>19. CASE QuitWakeUp
    BY <2>19 DEF QuitWakeUp
  <2>20. CASE Join
    BY <2>20 DEF Join, loopVars
  <2>21. CASE Destroy
    BY <2>21 DEF Destroy, loopVars
  <2>22. CASE Tick
    BY <2>22 DEF Tick, loopVars, getVars, queueVars, posterVars, ownerVars
  <2>23. CASE UNCHANGED vars
    BY <2>23 DEF vars, loopVars, getVars, queueVars, posterVars, ownerVars
  <2> QED
    BY <2>1, <2>2, <2>3, <2>4, <2>5, <2>6, <2>7, <2>8, <2>9, <2>10, <2>11, <2>12, <2>13,
       <2>14, <2>15, <2>16, <2>17, <2>18, <2>19, <2>20, <2>21, <2>22, <2>23
    DEF Next, Post, Poster, Loop, PostTask, PostDelayedTask
<1>3. ScanHolds => NoLostWakeUp
  BY DEF ScanHolds, NoLostWakeUp
<1> QED
  BY <1>1, <1>2, <1>3, TypeCorrect, PTL DEF Spec

-----------------------------------------------------------------------------
(* The order in which tasks start *)

(* The queue once the messages that are due have moved behind the others.  *)
ReleasedBy(due) == messages_ \o [i \in DOMAIN due |-> due[i].task]
Later == delayed_messages_ \ Triggered

LEMMA ReleasedTyped ==
  ASSUME Typed, NEW due \in DueOrders
  PROVE  LET released == ReleasedBy(due)
             last == Len(messages_)
         IN  /\ released \in Seq(Tasks)
             /\ Len(released) \in Nat /\ last \in Nat /\ last <= Len(released)
             /\ \A a \in 1 .. last : released[a] = messages_[a]
             /\ \A a \in 1 .. Len(released) : last < a =>
                  a - last \in DOMAIN due /\ released[a] = due[a - last].task
             /\ \A i \in DOMAIN due : released[last + i] = due[i].task
                                      /\ last + i \in 1 .. Len(released) /\ i \in Nat /\ i >= 1
             /\ \A m \in Triggered : \E i \in DOMAIN due : due[i] = m
             /\ \A i \in DOMAIN due : due[i] \in Triggered
             /\ \A i, j \in DOMAIN due : i < j => Sooner(due[i], due[j])
<1> DEFINE n == Cardinality(Triggered)
           tasks == [i \in DOMAIN due |-> due[i].task]
<1>1. n \in Nat /\ DOMAIN due = 1 .. n /\ tasks \in Seq(Tasks) /\ Len(tasks) = n
      /\ \A i \in DOMAIN due : due[i] \in Triggered
  BY DueTyped DEF Typed
<1>2. /\ \A m \in Triggered : \E i \in DOMAIN due : due[i] = m
      /\ \A i, j \in DOMAIN due : i < j => Sooner(due[i], due[j])
  BY DEF DueOrders
<1>3. \A i \in DOMAIN due : tasks[i] = due[i].task
  OBVIOUS
<1>4. messages_ \in Seq(Tasks)
  BY DEF Typed, TypeOK
<1>5. ReleasedBy(due) = messages_ \o tasks
  BY DEF ReleasedBy
<1> HIDE DEF n, tasks
<1>6. /\ messages_ \o tasks \in Seq(Tasks)
      /\ Len(messages_) \in Nat
      /\ Len(messages_ \o tasks) = Len(messages_) + n
      /\ \A a \in 1 .. Len(messages_) : (messages_ \o tasks)[a] = messages_[a]
      /\ \A a \in 1 .. Len(messages_) + n : Len(messages_) < a =>
           (messages_ \o tasks)[a] = tasks[a - Len(messages_)]
  BY <1>1, <1>4
<1> DEFINE released == messages_ \o tasks
           last == Len(messages_)
<1>7. \A a \in 1 .. Len(released) : last < a =>
        a - last \in DOMAIN due /\ released[a] = due[a - last].task
  <2> SUFFICES ASSUME NEW a \in 1 .. Len(released), last < a
               PROVE  a - last \in DOMAIN due /\ released[a] = due[a - last].task
    OBVIOUS
  <2>1. a - last \in 1 .. n /\ a \in 1 .. last + n
    BY <1>1, <1>6
  <2> QED
    BY <1>1, <1>3, <1>6, <2>1
<1>8. \A i \in DOMAIN due : released[last + i] = due[i].task
                           /\ last + i \in 1 .. Len(released) /\ i \in Nat /\ i >= 1
  <2> SUFFICES ASSUME NEW i \in DOMAIN due
               PROVE  released[last + i] = due[i].task
                      /\ last + i \in 1 .. Len(released) /\ i \in Nat /\ i >= 1
    OBVIOUS
  <2>1. i \in 1 .. n /\ last + i \in 1 .. last + n /\ last < last + i /\ (last + i) - last = i
    BY <1>1, <1>6
  <2>2. released[last + i] = tasks[i]
    BY <1>6, <2>1
  <2> QED
    BY <1>1, <1>3, <1>6, <2>1, <2>2
<1> HIDE DEF released, last
<1>9. released \in Seq(Tasks) /\ Len(released) \in Nat /\ last \in Nat /\ last <= Len(released)
      /\ \A a \in 1 .. last : released[a] = messages_[a]
  BY <1>1, <1>6 DEF released, last
<1> QED
  BY <1>1, <1>2, <1>5, <1>7, <1>8, <1>9 DEF released, last

(* A released queue keeps what the queue promised.                         *)
LEMMA ReleasedInOrder ==
  ASSUME Typed, OrderInv, NEW due \in DueOrders
  PROVE  LET released == ReleasedBy(due)
         IN  /\ \A a, b \in 1 .. Len(released) : released[a] = released[b] => a = b
             /\ \A a, b \in 1 .. Len(released) : a < b => MayPass(released[a], released[b])
             /\ \A a \in 1 .. Len(released), m \in Later :
                  MayPass(released[a], m.task) /\ released[a] # m.task
             /\ \A a \in 1 .. Len(released) : \A i \in DOMAIN accepted :
                  accepted[i].task = released[a] => accepted[i].at <= now
             /\ \A t \in Tasks : fate[t] = "queued" <=>
                  \/ \E a \in 1 .. Len(released) : released[a] = t
                  \/ \E m \in Later : m.task = t
<1> DEFINE released == ReleasedBy(due)
           last == Len(messages_)
           all == Len(released)
<1>1. /\ released \in Seq(Tasks)
      /\ all \in Nat /\ last \in Nat /\ last <= all
      /\ \A a \in 1 .. last : released[a] = messages_[a]
      /\ \A a \in 1 .. all : last < a =>
           a - last \in DOMAIN due /\ released[a] = due[a - last].task
      /\ \A i \in DOMAIN due : released[last + i] = due[i].task
                               /\ last + i \in 1 .. all /\ i \in Nat /\ i >= 1
      /\ \A m \in Triggered : \E i \in DOMAIN due : due[i] = m
      /\ \A i \in DOMAIN due : due[i] \in Triggered
      /\ \A i, j \in DOMAIN due : i < j => Sooner(due[i], due[j])
  BY ReleasedTyped
<1>2. DOMAIN messages_ = 1 .. last
  BY DEF Typed, TypeOK
<1> HIDE DEF released, last, all
<1>3. \A i \in DOMAIN accepted : accepted[i].at \in Nat /\ i \in Nat
  <2>1. \A i \in DOMAIN accepted : accepted[i] \in AcceptedRecord /\ i \in Nat
    BY DEF OrderInv, AcceptedOnce
  <2> QED
    BY <2>1 DEF AcceptedRecord
<1>4. msCurrent \in Nat /\ now \in Nat /\ msCurrent <= now
  BY DEF OrderInv, MessagesInOrder, Typed, TypeOK
<1>5. \A m \in delayed_messages_ : m.task \in Tasks /\ m.run_time_ms \in Nat
                                   /\ m.message_number \in Nat
  BY MessagesTyped DEF Typed
<1>6. ASSUME NEW a \in 1 .. all
      PROVE  \/ a \in 1 .. last /\ released[a] = messages_[a]
             \/ /\ last < a /\ a - last \in DOMAIN due
                /\ due[a - last] \in Triggered /\ released[a] = due[a - last].task
  BY <1>1
<1>7. ASSUME NEW a \in 1 .. all, NEW b \in 1 .. all, a < b
      PROVE  released[a] # released[b] /\ MayPass(released[a], released[b])
  <2>1. CASE b \in 1 .. last
    <3>1. a \in 1 .. last
      BY <1>1, <1>7, <2>1
    <3> QED
      BY <1>1, <1>2, <1>7, <2>1, <3>1 DEF OrderInv, QueuedOnce, MessagesInOrder
  <2>2. CASE a \in 1 .. last /\ b \notin 1 .. last
    <3>1. due[b - last] \in delayed_messages_ /\ released[b] = due[b - last].task
      BY <1>6, <2>2 DEF Triggered
    <3>2. released[a] = messages_[a] /\ messages_[a] \in Tasks
      BY <1>1, <1>2, <2>2, MessagesTyped DEF Typed
    <3> QED
      BY <1>2, <2>2, <3>1, <3>2
      DEF OrderInv, QueuedOnce, MessagesInOrder, InMessages, InDelayed
  <2>3. CASE a \notin 1 .. last /\ b \notin 1 .. last
    <3>1. PICK m \in Triggered, n \in Triggered :
            released[a] = m.task /\ released[b] = n.task /\ Sooner(m, n)
      <4>1. /\ a - last \in DOMAIN due /\ released[a] = due[a - last].task
            /\ b - last \in DOMAIN due /\ released[b] = due[b - last].task
            /\ a - last < b - last
        <5>1. last < a /\ last < b /\ a - last < b - last
          BY <1>1, <1>7, <2>3
        <5> QED
          BY <1>1, <5>1
      <4> QED
        BY <1>1, <4>1
    <3>2. m \in delayed_messages_ /\ n \in delayed_messages_ /\ m # n
      BY <1>5, <3>1 DEF Triggered, Sooner
    <3>3. m.task # n.task
      BY <3>2 DEF OrderInv, QueuedOnce
    <3>4. ASSUME NEW i \in DOMAIN accepted, NEW j \in DOMAIN accepted, j < i,
                 accepted[i].task = m.task, accepted[j].task = n.task
          PROVE  MayOvertake(accepted[i], accepted[j])
      <4>1. /\ accepted[j].delayed /\ accepted[j].at = n.run_time_ms
            /\ accepted[i].at = m.run_time_ms
            /\ n.message_number < m.message_number
        BY <3>2, <3>4 DEF OrderInv, DelayedRecorded
      <4> QED
        BY <1>3, <1>5, <3>1, <3>2, <4>1 DEF Sooner, MayOvertake
    <3> QED
      BY <3>1, <3>3, <3>4 DEF MayPass
  <2> QED
    BY <1>1, <1>7, <2>1, <2>2, <2>3
<1>8. ASSUME NEW a \in 1 .. all, NEW m \in Later
      PROVE  MayPass(released[a], m.task) /\ released[a] # m.task
  <2>1. m \in delayed_messages_ /\ m \notin Triggered /\ ~(m.run_time_ms <= msCurrent)
    BY <1>8 DEF Later, Triggered
  <2>2. CASE a \in 1 .. last
    <3>1. released[a] = messages_[a] /\ messages_[a] \in Tasks
      BY <1>1, <1>2, <2>2, MessagesTyped DEF Typed
    <3> QED
      BY <1>2, <2>1, <2>2, <3>1
      DEF OrderInv, QueuedOnce, MessagesInOrder, InMessages, InDelayed
  <2>3. CASE a \notin 1 .. last
    <3>1. PICK n \in Triggered : released[a] = n.task
      BY <1>6, <2>3
    <3>2. n \in delayed_messages_ /\ n.run_time_ms <= msCurrent /\ n # m
      BY <2>1, <3>1 DEF Triggered
    <3>3. n.task # m.task
      BY <2>1, <3>2 DEF OrderInv, QueuedOnce
    <3>4. ASSUME NEW i \in DOMAIN accepted, NEW j \in DOMAIN accepted, j < i,
                 accepted[i].task = n.task, accepted[j].task = m.task
          PROVE  MayOvertake(accepted[i], accepted[j])
      <4>1. /\ accepted[j].delayed /\ accepted[j].at = m.run_time_ms
            /\ accepted[i].at = n.run_time_ms
        BY <2>1, <3>2, <3>4 DEF OrderInv, DelayedRecorded
      <4> QED
        BY <1>3, <1>4, <1>5, <2>1, <3>2, <4>1 DEF MayOvertake
    <3> QED
      BY <3>1, <3>3, <3>4 DEF MayPass
  <2> QED
    BY <2>2, <2>3
<1>9. ASSUME NEW a \in 1 .. all, NEW i \in DOMAIN accepted, accepted[i].task = released[a]
      PROVE  accepted[i].at <= now
  <2>1. CASE a \in 1 .. last
    BY <1>1, <1>2, <1>9, <2>1 DEF OrderInv, MessagesInOrder
  <2>2. CASE a \notin 1 .. last
    <3>1. PICK n \in Triggered : released[a] = n.task
      BY <1>6, <2>2
    <3>2. n \in delayed_messages_ /\ n.run_time_ms <= msCurrent
      BY <3>1 DEF Triggered
    <3>3. accepted[i].at = n.run_time_ms
      BY <1>9, <3>1, <3>2 DEF OrderInv, DelayedRecorded
    <3> QED
      BY <1>4, <1>5, <3>2, <3>3
  <2> QED
    BY <2>1, <2>2
<1>10. ASSUME NEW t \in Tasks
       PROVE  fate[t] = "queued" <=> \/ \E a \in 1 .. all : released[a] = t
                                     \/ \E m \in Later : m.task = t
  <2>1. fate[t] = "queued" <=> \/ \E a \in 1 .. last : messages_[a] = t
                               \/ \E m \in delayed_messages_ : m.task = t
    BY <1>2 DEF OrderInv, QueuedOnce, InMessages, InDelayed
  <2>2. ASSUME NEW a \in 1 .. last, messages_[a] = t PROVE \E b \in 1 .. all : released[b] = t
    BY <1>1, <2>2
  <2>3. ASSUME NEW m \in Triggered, m.task = t PROVE \E b \in 1 .. all : released[b] = t
    <3>1. PICK i \in DOMAIN due : due[i] = m
      BY <1>1
    <3>2. released[last + i] = t /\ last + i \in 1 .. all
      BY <1>1, <2>3, <3>1
    <3> QED
      BY <3>2
  <2>4. ASSUME NEW a \in 1 .. all, released[a] = t
        PROVE  \/ \E b \in 1 .. last : messages_[b] = t
               \/ \E m \in delayed_messages_ : m.task = t
    BY <1>6, <2>4 DEF Triggered
  <2>5. \A m \in delayed_messages_ : m \in Triggered \/ m \in Later
    BY DEF Later
  <2>6. Later \subseteq delayed_messages_
    BY DEF Later
  <2> QED
    BY <2>1, <2>2, <2>3, <2>4, <2>5, <2>6
<1>11. \A a, b \in 1 .. all : released[a] = released[b] => a = b
  <2> SUFFICES ASSUME NEW a \in 1 .. all, NEW b \in 1 .. all, a # b
               PROVE  released[a] # released[b]
    OBVIOUS
  <2>1. a < b \/ b < a
    BY <1>1
  <2> QED
    BY <2>1, <1>7
<1> QED
  BY <1>7, <1>8, <1>9, <1>10, <1>11 DEF released, all

(* What the history says, entry by entry.                                  *)
LEMMA AcceptedTyped ==
  ASSUME AcceptedOnce
  PROVE  /\ Len(accepted) \in Nat /\ DOMAIN accepted = 1 .. Len(accepted)
         /\ \A i \in DOMAIN accepted :
              /\ i \in Nat /\ accepted[i] \in AcceptedRecord
              /\ accepted[i].task \in Tasks /\ accepted[i].at \in Nat
<1>1. Len(accepted) \in Nat /\ DOMAIN accepted = 1 .. Len(accepted)
  BY DEF AcceptedOnce
<1>2. \A i \in DOMAIN accepted : i \in Nat /\ accepted[i] \in AcceptedRecord
  BY DEF AcceptedOnce
<1> QED
  BY <1>1, <1>2 DEF AcceptedRecord

(* Steps that leave the queues, the calls and the history alone.           *)
LEMMA OrderKept ==
  ASSUME Typed, OrderInv,
         UNCHANGED <<messages_, delayed_messages_, delayed_next_num_, fate, accepted, call>>,
         wpc' = "run" => wpc = "run" /\ run_task' = run_task,
         now' \in Nat, now <= now', msCurrent' <= now',
         \A p \in Posters : ppc'[p] \in {"check", "push"} => ppc'[p] = ppc[p]
  PROVE  OrderInv' /\ StartIsInOrder
<1>1. CallsHoldTasks'
  <2>1. ASSUME NEW p \in Posters, ~call[p].delayed, ppc[p] = "push"
        PROVE  call[p].run_time_ms <= now'
    <3>1. call[p].run_time_ms \in Nat /\ call[p].run_time_ms <= now /\ now \in Nat
      BY <2>1, CallTyped DEF Typed, TypeOK, OrderInv, CallsHoldTasks
    <3> QED
      BY <3>1
  <2> QED
    BY <2>1 DEF OrderInv, CallsHoldTasks
<1>2. QueuedOnce'
  BY DEF OrderInv, QueuedOnce, InMessages, InDelayed
<1>3. AcceptedOnce' /\ DelayedRecorded'
  BY DEF OrderInv, AcceptedOnce, DelayedRecorded
<1>4. MessagesInOrder'
  <2>1. \A i \in DOMAIN accepted : accepted[i].at <= now => accepted[i].at <= now'
    BY AcceptedTyped DEF Typed, TypeOK, OrderInv
  <2> QED
    BY <2>1 DEF OrderInv, MessagesInOrder, MayPass, MayOvertake
<1>5. StartIsInOrder
  BY DEF StartIsInOrder, Starts
<1> QED
  BY <1>1, <1>2, <1>3, <1>4, <1>5 DEF OrderInv

(* Steps that move one task outside the queues.                            *)
LEMMA OutsideKept ==
  ASSUME Typed, OrderInv, NEW t \in Tasks, NEW f,
         UNCHANGED <<messages_, delayed_messages_, delayed_next_num_, accepted, now>>,
         msCurrent' = msCurrent \/ msCurrent' = 0,
         fate' = [fate EXCEPT ![t] = f],
         \/ fate[t] \in {"new", "calling"} /\ f \in {"calling", "refused"}
            /\ UNCHANGED <<wpc, run_task>>
         \/ fate[t] = "running" /\ f = "run" /\ wpc' # "run"
  PROVE  QueuedOnce' /\ AcceptedOnce' /\ DelayedRecorded' /\ MessagesInOrder' /\ StartIsInOrder
<1>1. \A u \in Tasks : fate'[u] = IF u = t THEN f ELSE fate[u]
  BY DEF Typed, TypeOK
<1>2. QueuedOnce'
  <2>1. \A u \in Tasks : fate'[u] = "queued" <=> fate[u] = "queued"
    BY <1>1
  <2>2. wpc' = "run" => fate'[run_task'] = "running"
    BY <1>1 DEF OrderInv, QueuedOnce, Typed, TypeOK
  <2> QED
    BY <2>1, <2>2 DEF OrderInv, QueuedOnce, InMessages, InDelayed
<1>3. AcceptedOnce'
  BY <1>1, AcceptedTyped DEF OrderInv, AcceptedOnce
<1>4. DelayedRecorded'
  BY DEF OrderInv, DelayedRecorded
<1>5. MessagesInOrder'
  <2>1. msCurrent' <= now
    BY DEF OrderInv, MessagesInOrder, Typed, TypeOK
  <2> QED
    BY <2>1 DEF OrderInv, MessagesInOrder, MayPass, MayOvertake
<1>6. StartIsInOrder
  BY <1>1, AcceptedTyped DEF StartIsInOrder, Starts, OrderInv
<1> QED
  BY <1>2, <1>3, <1>4, <1>5, <1>6

LEMMA BeginCallInOrder ==
  ASSUME Typed, OrderInv, NEW p \in Posters, NEW t \in Tasks, NEW b \in BOOLEAN, NEW d,
         BeginCall(p, t, b, d), b \/ d = 0
  PROVE  OrderInv' /\ StartIsInOrder
<1>1. /\ ppc' = [ppc EXCEPT ![p] = "check"] /\ fate[t] = "new"
      /\ call' = [call EXCEPT ![p] = [task |-> t, delayed |-> b, run_time_ms |-> d]]
      /\ fate' = [fate EXCEPT ![t] = "calling"]
  BY DEF BeginCall
<1>2. \A q \in Posters : ppc'[q] = (IF q = p THEN "check" ELSE ppc[q])
        /\ call'[q] = IF q = p THEN [task |-> t, delayed |-> b, run_time_ms |-> d] ELSE call[q]
  BY <1>1 DEF Typed, TypeOK
<1>3. \A q \in Posters : ppc[q] \in {"check", "push"} => call[q].task \in Tasks /\ call[q].task # t
  BY <1>1, CallTyped DEF OrderInv, CallsHoldTasks, Typed
<1>4. \A u \in Tasks : fate'[u] = IF u = t THEN "calling" ELSE fate[u]
  BY <1>1 DEF Typed, TypeOK
<1>5. now' = now
  BY DEF BeginCall
<1>6. CallsHoldTasks'
  BY <1>2, <1>3, <1>4, <1>5 DEF OrderInv, CallsHoldTasks
<1>7. QueuedOnce' /\ AcceptedOnce' /\ DelayedRecorded' /\ MessagesInOrder' /\ StartIsInOrder
  BY <1>1, OutsideKept DEF BeginCall, queueVars, loopVars, getVars
<1> QED
  BY <1>6, <1>7 DEF OrderInv

LEMMA RefuseInOrder ==
  ASSUME Typed, OrderInv, NEW p \in Posters, Refuse(p)
  PROVE  OrderInv' /\ StartIsInOrder
<1> DEFINE t == call[p].task
<1>1. t \in Tasks /\ fate[t] = "calling"
  BY CallTyped DEF Refuse, Typed, OrderInv, CallsHoldTasks
<1>2. /\ ppc' = [ppc EXCEPT ![p] = "idle"] /\ ppc[p] = "check"
      /\ call' = [call EXCEPT ![p] = NoCall]
      /\ fate' = [fate EXCEPT ![t] = "refused"]
      /\ now' = now
  BY DEF Refuse
<1>3. \A q \in Posters : ppc'[q] = (IF q = p THEN "idle" ELSE ppc[q])
        /\ call'[q] = IF q = p THEN NoCall ELSE call[q]
  BY <1>2 DEF Typed, TypeOK
<1>4. \A q \in Posters \ {p} : ppc[q] \in {"check", "push"} => call[q].task \in Tasks /\ call[q].task # t
  BY <1>2, CallTyped DEF OrderInv, CallsHoldTasks, Typed
<1>5. \A u \in Tasks : fate'[u] = IF u = t THEN "refused" ELSE fate[u]
  BY <1>2 DEF Typed, TypeOK
<1> HIDE DEF t
<1>6. CallsHoldTasks'
  BY <1>2, <1>3, <1>4, <1>5 DEF OrderInv, CallsHoldTasks
<1>7. QueuedOnce' /\ AcceptedOnce' /\ DelayedRecorded' /\ MessagesInOrder' /\ StartIsInOrder
  BY <1>1, <1>2, OutsideKept DEF Refuse, queueVars, loopVars, getVars
<1> QED
  BY <1>6, <1>7 DEF OrderInv

LEMMA AdmitInOrder ==
  ASSUME Typed, OrderInv, NEW p \in Posters, Admit(p)
  PROVE  OrderInv' /\ StartIsInOrder
<1>1. /\ ppc' = [ppc EXCEPT ![p] = "push"] /\ ppc[p] = "check"
      /\ call' = [call EXCEPT ![p].run_time_ms = now + @]
      /\ now' = now /\ fate' = fate
  BY DEF Admit
<1>2. call[p] \in Call /\ now \in Nat
  BY <1>1 DEF Typed, TypeOK
<1>3. /\ \A q \in Posters \ {p} : ppc'[q] = ppc[q] /\ call'[q] = call[q]
      /\ ppc'[p] = "push" /\ call'[p].task = call[p].task
      /\ call'[p].delayed = call[p].delayed
      /\ call'[p].run_time_ms = now + call[p].run_time_ms
  BY <1>1, <1>2 DEF Typed, TypeOK, Call
<1>4. ~call[p].delayed => call'[p].run_time_ms <= now
  BY <1>1, <1>2, <1>3 DEF OrderInv, CallsHoldTasks
<1>5. CallsHoldTasks'
  BY <1>1, <1>3, <1>4 DEF OrderInv, CallsHoldTasks
<1>6. QueuedOnce' /\ AcceptedOnce' /\ DelayedRecorded' /\ MessagesInOrder'
  BY DEF Admit, queueVars, loopVars, getVars, OrderInv, QueuedOnce, InMessages, InDelayed,
         AcceptedOnce, DelayedRecorded, MessagesInOrder, MayPass, MayOvertake
<1>7. StartIsInOrder
  BY <1>1 DEF StartIsInOrder, Starts
<1> QED
  BY <1>5, <1>6, <1>7 DEF OrderInv

LEMMA PushInOrder ==
  ASSUME Typed, OrderInv, NEW p \in Posters, Push(p)
  PROVE  OrderInv' /\ StartIsInOrder
<1> DEFINE x == call[p].task
           n == Len(accepted)
           entry == [task |-> x, delayed |-> call[p].delayed, at |-> call[p].run_time_ms]
<1>1. /\ x \in Tasks /\ call[p].delayed \in BOOLEAN /\ call[p].run_time_ms \in Nat
      /\ fate[x] = "calling" /\ ppc[p] = "push"
  BY CallTyped DEF Push, Typed, OrderInv, CallsHoldTasks
<1>2. /\ ppc' = [ppc EXCEPT ![p] = "wakeup"]
      /\ call' = [call EXCEPT ![p] = NoCall]
      /\ fate' = [fate EXCEPT ![x] = "queued"]
      /\ accepted' = Append(accepted, entry)
      /\ now' = now /\ msCurrent' = msCurrent /\ wpc' = wpc /\ run_task' = run_task
  BY DEF Push, loopVars, getVars
<1>3. \A u \in Tasks : fate'[u] = IF u = x THEN "queued" ELSE fate[u]
  BY <1>2 DEF Typed, TypeOK
<1>4. /\ n \in Nat /\ DOMAIN accepted = 1 .. n
      /\ \A i \in 1 .. n : i \in Nat /\ accepted[i] \in AcceptedRecord
                           /\ accepted[i].task \in Tasks /\ accepted[i].at \in Nat
  BY AcceptedTyped DEF OrderInv
<1>5. \A i \in 1 .. n : accepted[i].task # x
  BY <1>1, <1>4 DEF OrderInv, AcceptedOnce
<1>6. entry \in AcceptedRecord
  BY <1>1 DEF AcceptedRecord
<1>7. /\ accepted' \in Seq(AcceptedRecord)
      /\ DOMAIN accepted' = 1 .. n + 1
      /\ \A i \in 1 .. n : accepted'[i] = accepted[i]
      /\ accepted'[n + 1] = entry
  <2>1. accepted \in Seq(AcceptedRecord)
    BY DEF OrderInv, AcceptedOnce
  <2> HIDE DEF entry
  <2> QED
    BY <1>2, <1>6, <2>1
<1>8. /\ entry.task = x /\ entry.delayed = call[p].delayed /\ entry.at = call[p].run_time_ms
  OBVIOUS
<1>9. /\ \A a \in DOMAIN messages_ : messages_[a] \in Tasks /\ messages_[a] # x
      /\ \A m \in delayed_messages_ :
           m.task \in Tasks /\ m.task # x /\ m.run_time_ms \in Nat /\ m.message_number \in Nat
  BY <1>1, MessagesTyped DEF OrderInv, QueuedOnce, InMessages, InDelayed, Typed
<1> HIDE DEF x, n, entry
<1>10. \A i \in 1 .. n + 1 : i \in 1 .. n \/ i = n + 1
  BY <1>4
<1>11. CallsHoldTasks'
  <2>1. \A q \in Posters : /\ ppc'[q] = (IF q = p THEN "wakeup" ELSE ppc[q])
                           /\ call'[q] = IF q = p THEN NoCall ELSE call[q]
    BY <1>2 DEF Typed, TypeOK
  <2>2. \A q \in Posters \ {p} : ppc[q] \in {"check", "push"} =>
          call[q].task \in Tasks /\ call[q].task # x
    BY <1>1, CallTyped DEF OrderInv, CallsHoldTasks, Typed, x
  <2> QED
    BY <1>2, <1>3, <2>1, <2>2 DEF OrderInv, CallsHoldTasks
<1>12. AcceptedOnce'
  <2>1. \A i, j \in 1 .. n + 1 : accepted'[i].task = accepted'[j].task => i = j
    BY <1>4, <1>5, <1>7, <1>8, <1>10 DEF OrderInv, AcceptedOnce
  <2>2. \A i \in 1 .. n + 1 : fate'[accepted'[i].task] \notin {"new", "calling", "refused"}
    <3>1. \A i \in 1 .. n : fate'[accepted'[i].task] \notin {"new", "calling", "refused"}
      BY <1>3, <1>4, <1>5, <1>7 DEF OrderInv, AcceptedOnce
    <3>2. fate'[accepted'[n + 1].task] = "queued"
      BY <1>1, <1>3, <1>7, <1>8
    <3> QED
      BY <1>10, <3>1, <3>2
  <2> QED
    BY <1>7, <2>1, <2>2 DEF AcceptedOnce
<1>13. StartIsInOrder
  BY <1>3, <1>4 DEF StartIsInOrder, Starts
<1> DEFINE Passes(t, u) ==
             \A i, j \in 1 .. n + 1 :
               accepted'[i].task = t /\ accepted'[j].task = u /\ j < i =>
                 MayOvertake(accepted'[i], accepted'[j])
<1>14. ASSUME NEW t \in Tasks, NEW u \in Tasks, MayPass(t, u), t # x
       PROVE  Passes(t, u)
  <2> SUFFICES ASSUME NEW i \in 1 .. n + 1, NEW j \in 1 .. n + 1, j < i,
                      accepted'[i].task = t, accepted'[j].task = u
               PROVE  MayOvertake(accepted'[i], accepted'[j])
    OBVIOUS
  <2>1. i \in 1 .. n
    BY <1>7, <1>8, <1>10, <1>14
  <2>2. j \in 1 .. n
    BY <1>4, <1>10, <2>1
  <2> QED
    BY <1>4, <1>7, <1>14, <2>1, <2>2 DEF MayPass
<1>15. ASSUME NEW t \in Tasks, t # x PROVE Passes(t, x)
  <2> SUFFICES ASSUME NEW i \in 1 .. n + 1, NEW j \in 1 .. n + 1, j < i,
                      accepted'[i].task = t, accepted'[j].task = x
               PROVE  FALSE
    OBVIOUS
  <2>1. i \in 1 .. n
    BY <1>7, <1>8, <1>10, <1>15
  <2>2. j \in 1 .. n
    BY <1>4, <1>10, <2>1
  <2> QED
    BY <1>5, <1>7, <2>2
<1> HIDE DEF Passes
<1>16. CASE ~call[p].delayed
  <2>1. /\ messages_' = Append(messages_, x)
        /\ UNCHANGED <<delayed_messages_, delayed_next_num_>>
    BY <1>16 DEF Push, x
  <2> DEFINE k == Len(messages_)
  <2>2. /\ k \in Nat /\ DOMAIN messages_ = 1 .. k
        /\ DOMAIN messages_' = 1 .. k + 1
        /\ \A a \in 1 .. k : messages_'[a] = messages_[a]
        /\ messages_'[k + 1] = x
    BY <1>1, <2>1 DEF Typed, TypeOK
  <2> HIDE DEF k
  <2>3. \A a \in 1 .. k + 1 : a \in 1 .. k \/ a = k + 1
    BY <2>2
  <2>4. \A t \in Tasks : InMessages(t)' <=> InMessages(t) \/ t = x
    BY <2>2, <2>3 DEF InMessages
  <2>5. \A t \in Tasks : InDelayed(t)' <=> InDelayed(t)
    BY <2>1 DEF InDelayed
  <2>6. QueuedOnce'
    <3>1. \A a, b \in 1 .. k + 1 : messages_'[a] = messages_'[b] => a = b
      BY <1>9, <2>2, <2>3 DEF OrderInv, QueuedOnce
    <3>2. ~InMessages(x) /\ ~InDelayed(x)
      BY <1>1 DEF OrderInv, QueuedOnce
    <3>3. wpc' = "run" => fate'[run_task'] = "running"
      BY <1>1, <1>2, <1>3 DEF OrderInv, QueuedOnce, Typed, TypeOK
    <3>4. /\ \A t \in Tasks : fate'[t] = "queued" <=> InMessages(t)' \/ InDelayed(t)'
          /\ \A t \in Tasks : ~(InMessages(t)' /\ InDelayed(t)')
      BY <1>3, <2>4, <2>5, <3>2 DEF OrderInv, QueuedOnce
    <3>5. \A m, m2 \in delayed_messages_' : m.task = m2.task => m = m2
      BY <2>1 DEF OrderInv, QueuedOnce
    <3> QED
      BY <2>2, <3>1, <3>3, <3>4, <3>5 DEF QueuedOnce
  <2>7. DelayedRecorded'
    <3>1. \A m \in delayed_messages_ : \A i \in 1 .. n + 1 :
            accepted'[i].task = m.task => i \in 1 .. n
      BY <1>8, <1>7, <1>9, <1>10
    <3>2. \A m \in delayed_messages_ : \A i \in 1 .. n + 1 :
            accepted'[i].task = m.task => accepted'[i].delayed /\ accepted'[i].at = m.run_time_ms
      BY <1>4, <1>7, <3>1 DEF OrderInv, DelayedRecorded
    <3>3. \A m, m2 \in delayed_messages_ : \A i, j \in 1 .. n + 1 :
            accepted'[i].task = m.task /\ accepted'[j].task = m2.task /\ i < j =>
              m.message_number < m2.message_number
      BY <1>4, <1>7, <3>1 DEF OrderInv, DelayedRecorded
    <3> QED
      BY <1>7, <2>1, <3>2, <3>3 DEF OrderInv, DelayedRecorded
  <2>8. MessagesInOrder'
    <3>1. ASSUME NEW a \in 1 .. k + 1, NEW b \in 1 .. k + 1, a < b
          PROVE  Passes(messages_'[a], messages_'[b])
      <4>1. a \in 1 .. k /\ messages_[a] \in Tasks /\ messages_[a] # x /\ messages_'[a] = messages_[a]
        BY <1>9, <2>2, <2>3, <3>1
      <4>2. CASE b = k + 1
        BY <1>1, <1>15, <2>2, <4>1, <4>2
      <4>3. CASE b \in 1 .. k
        <5>1. messages_[b] \in Tasks /\ messages_'[b] = messages_[b]
          BY <1>9, <2>2, <4>3
        <5>2. MayPass(messages_[a], messages_[b])
          BY <2>2, <3>1, <4>1, <4>3 DEF OrderInv, MessagesInOrder
        <5> QED
          BY <1>14, <4>1, <5>1, <5>2
      <4> QED
        BY <2>3, <4>2, <4>3
    <3>2. ASSUME NEW a \in 1 .. k + 1, NEW m \in delayed_messages_
          PROVE  Passes(messages_'[a], m.task)
      <4>1. CASE a = k + 1
        <5> SUFFICES ASSUME NEW i \in 1 .. n + 1, NEW j \in 1 .. n + 1, j < i,
                            accepted'[i].task = x, accepted'[j].task = m.task
                     PROVE  MayOvertake(accepted'[i], accepted'[j])
          BY <2>2, <4>1 DEF Passes
        <5>1. i = n + 1 /\ j \in 1 .. n
          BY <1>5, <1>7, <1>8, <1>9, <1>10
        <5>2. accepted[j].delayed
          BY <1>4, <1>7, <5>1 DEF OrderInv, DelayedRecorded
        <5> QED
          BY <1>7, <1>8, <1>16, <5>1, <5>2 DEF MayOvertake
      <4>2. CASE a \in 1 .. k
        <5>1. messages_[a] \in Tasks /\ messages_[a] # x /\ messages_'[a] = messages_[a]
              /\ m.task \in Tasks
          BY <1>9, <2>2, <4>2
        <5>2. MayPass(messages_[a], m.task)
          BY <2>2, <4>2 DEF OrderInv, MessagesInOrder
        <5> QED
          BY <1>14, <5>1, <5>2
      <4> QED
        BY <2>3, <4>1, <4>2
    <3>3. ASSUME NEW a \in 1 .. k + 1, NEW i \in 1 .. n + 1, accepted'[i].task = messages_'[a]
          PROVE  accepted'[i].at <= now
      <4>1. call[p].run_time_ms <= now
        BY <1>1, <1>16 DEF OrderInv, CallsHoldTasks
      <4>2. CASE i = n + 1
        BY <1>7, <1>8, <4>1, <4>2
      <4>3. CASE i \in 1 .. n
        <5>1. a \in 1 .. k
          BY <1>5, <1>7, <2>2, <2>3, <3>3, <4>3
        <5> QED
          BY <1>4, <1>7, <2>2, <3>3, <4>3, <5>1 DEF OrderInv, MessagesInOrder
      <4> QED
        BY <1>10, <4>2, <4>3
    <3> QED
      <4>1. (\A a, b \in DOMAIN messages_ : a < b => MayPass(messages_[a], messages_[b]))'
        BY <1>7, <2>2, <3>1 DEF Passes, MayPass, MayOvertake
      <4>2. (\A a \in DOMAIN messages_ : \A m \in delayed_messages_ : MayPass(messages_[a], m.task))'
        BY <1>7, <2>1, <2>2, <3>2 DEF Passes, MayPass, MayOvertake
      <4> QED
        BY <1>2, <1>7, <2>2, <3>3, <4>1, <4>2 DEF OrderInv, MessagesInOrder
  <2> QED
    BY <1>11, <1>12, <1>13, <2>6, <2>7, <2>8 DEF OrderInv
<1>17. CASE call[p].delayed
  <2> DEFINE d == [run_time_ms |-> call[p].run_time_ms,
                   message_number |-> delayed_next_num_, task |-> x]
  <2>1. /\ delayed_messages_' = delayed_messages_ \cup {d}
        /\ delayed_next_num_' = delayed_next_num_ + 1
        /\ messages_' = messages_
    BY <1>17 DEF Push, x
  <2>2. d.task = x /\ d.run_time_ms = call[p].run_time_ms /\ d.message_number = delayed_next_num_
    OBVIOUS
  <2>3. delayed_next_num_ \in Nat
    BY DEF Typed, TypeOK
  <2> HIDE DEF d
  <2>4. \A t \in Tasks : InMessages(t)' <=> InMessages(t)
    BY <2>1 DEF InMessages
  <2>5. \A t \in Tasks : InDelayed(t)' <=> InDelayed(t) \/ t = x
    BY <2>1, <2>2 DEF InDelayed
  <2>6. QueuedOnce'
    <3>1. ~InMessages(x) /\ ~InDelayed(x)
      BY <1>1 DEF OrderInv, QueuedOnce
    <3>2. wpc' = "run" => fate'[run_task'] = "running"
      BY <1>1, <1>2, <1>3 DEF OrderInv, QueuedOnce, Typed, TypeOK
    <3>3. /\ \A t \in Tasks : fate'[t] = "queued" <=> InMessages(t)' \/ InDelayed(t)'
          /\ \A t \in Tasks : ~(InMessages(t)' /\ InDelayed(t)')
      BY <1>3, <2>4, <2>5, <3>1 DEF OrderInv, QueuedOnce
    <3>4. \A m, m2 \in delayed_messages_' : m.task = m2.task => m = m2
      BY <1>9, <2>1, <2>2 DEF OrderInv, QueuedOnce
    <3> QED
      BY <2>1, <3>2, <3>3, <3>4 DEF OrderInv, QueuedOnce
  <2>7. DelayedRecorded'
    <3>1. IsFiniteSet(delayed_messages_')
      BY <2>1, FS_AddElement DEF OrderInv, DelayedRecorded
    <3>2. \A m \in delayed_messages_' : m.message_number < delayed_next_num_'
      BY <1>9, <2>1, <2>2, <2>3 DEF OrderInv, DelayedRecorded
    <3>3. ASSUME NEW m \in delayed_messages_', NEW i \in 1 .. n + 1, accepted'[i].task = m.task
          PROVE  accepted'[i].delayed /\ accepted'[i].at = m.run_time_ms
      <4>1. CASE m = d
        <5>1. i = n + 1
          BY <1>5, <1>7, <1>10, <2>2, <3>3, <4>1
        <5> QED
          BY <1>7, <1>8, <1>17, <2>2, <4>1, <5>1
      <4>2. CASE m \in delayed_messages_
        <5>1. i \in 1 .. n
          BY <1>7, <1>8, <1>9, <1>10, <3>3, <4>2
        <5> QED
          BY <1>4, <1>7, <3>3, <4>2, <5>1 DEF OrderInv, DelayedRecorded
      <4> QED
        BY <2>1, <4>1, <4>2
    <3>4. ASSUME NEW m \in delayed_messages_', NEW m2 \in delayed_messages_',
                 NEW i \in 1 .. n + 1, NEW j \in 1 .. n + 1,
                 accepted'[i].task = m.task, accepted'[j].task = m2.task, i < j
          PROVE  m.message_number < m2.message_number
      <4>1. i \in 1 .. n
        BY <1>4, <1>10, <3>4
      <4>2. m \in delayed_messages_
        BY <1>5, <1>7, <2>1, <2>2, <3>4, <4>1
      <4>3. CASE m2 = d
        BY <2>2, <4>2, <4>3 DEF OrderInv, DelayedRecorded
      <4>4. CASE m2 \in delayed_messages_
        <5>1. j \in 1 .. n
          BY <1>7, <1>8, <1>9, <1>10, <3>4, <4>4
        <5> QED
          BY <1>4, <1>7, <3>4, <4>1, <4>2, <4>4, <5>1 DEF OrderInv, DelayedRecorded
      <4> QED
        BY <2>1, <3>4, <4>3, <4>4
    <3> QED
      BY <1>7, <3>1, <3>2, <3>3, <3>4 DEF DelayedRecorded
  <2>8. MessagesInOrder'
    <3>1. ASSUME NEW a \in DOMAIN messages_, NEW b \in DOMAIN messages_, a < b
          PROVE  Passes(messages_[a], messages_[b])
      BY <1>9, <1>14, <2>1, <3>1 DEF OrderInv, MessagesInOrder
    <3>2. ASSUME NEW a \in DOMAIN messages_, NEW m \in delayed_messages_'
          PROVE  Passes(messages_[a], m.task)
      <4>1. CASE m = d
        BY <1>9, <1>15, <2>1, <2>2, <4>1
      <4>2. CASE m \in delayed_messages_
        BY <1>9, <1>14, <2>1, <4>2 DEF OrderInv, MessagesInOrder
      <4> QED
        BY <2>1, <4>1, <4>2
    <3>3. ASSUME NEW a \in DOMAIN messages_, NEW i \in 1 .. n + 1, accepted'[i].task = messages_[a]
          PROVE  accepted'[i].at <= now
      <4>1. i \in 1 .. n
        BY <1>7, <1>8, <1>9, <1>10, <3>3
      <4> QED
        BY <1>4, <1>7, <3>3, <4>1 DEF OrderInv, MessagesInOrder
    <3>4. (msCurrent <= now)'
      BY <1>2 DEF OrderInv, MessagesInOrder
    <3> QED
      <4>1. (\A a, b \in DOMAIN messages_ : a < b => MayPass(messages_[a], messages_[b]))'
        BY <1>7, <2>1, <3>1 DEF Passes, MayPass, MayOvertake
      <4>2. (\A a \in DOMAIN messages_ : \A m \in delayed_messages_ : MayPass(messages_[a], m.task))'
        BY <1>7, <2>1, <3>2 DEF Passes, MayPass, MayOvertake
      <4> QED
        BY <1>2, <1>7, <2>1, <3>3, <3>4, <4>1, <4>2 DEF MessagesInOrder
  <2> QED
    BY <1>11, <1>12, <1>13, <2>6, <2>7, <2>8 DEF OrderInv
<1> QED
  BY <1>16, <1>17

LEMMA TakeMessageInOrder ==
  ASSUME Typed, OrderInv, TakeMessage
  PROVE  OrderInv' /\ StartIsInOrder
<1>1. PICK due \in DueOrders :
        LET released == messages_ \o [i \in DOMAIN due |-> due[i].task]
        IN  /\ released # << >>
            /\ messages_' = Tail(released)
            /\ run_task' = Head(released)
            /\ fate' = [fate EXCEPT ![Head(released)] = "running"]
  BY DEF TakeMessage
<1> DEFINE released == ReleasedBy(due)
           x == Head(released)
           k == Len(released)
<1>2. /\ \A a, b \in 1 .. k : released[a] = released[b] => a = b
      /\ \A a, b \in 1 .. k : a < b => MayPass(released[a], released[b])
      /\ \A a \in 1 .. k, m \in Later : MayPass(released[a], m.task) /\ released[a] # m.task
      /\ \A a \in 1 .. k : \A i \in DOMAIN accepted :
           accepted[i].task = released[a] => accepted[i].at <= now
      /\ \A t \in Tasks : fate[t] = "queued" <=> \/ \E a \in 1 .. k : released[a] = t
                                                 \/ \E m \in Later : m.task = t
  BY ReleasedInOrder
<1>3. /\ released \in Seq(Tasks) /\ released # << >>
      /\ messages_' = Tail(released) /\ run_task' = x
      /\ fate' = [fate EXCEPT ![x] = "running"]
  BY <1>1, ReleasedTyped DEF ReleasedBy
<1>4. /\ delayed_messages_' = Later /\ Later \subseteq delayed_messages_
      /\ accepted' = accepted /\ now' = now /\ msCurrent' = 0
      /\ UNCHANGED <<delayed_next_num_, ppc, call>>
  BY DEF TakeMessage, LeaveGet, Later, posterVars
<1> HIDE DEF released
<1>5. /\ k \in Nat /\ k >= 1 /\ x = released[1] /\ x \in Tasks
      /\ DOMAIN messages_' = 1 .. k - 1
      /\ \A a \in 1 .. k - 1 : messages_'[a] = released[a + 1] /\ a + 1 \in 1 .. k /\ a + 1 # 1
  BY <1>3
<1>6. \A t \in Tasks : fate'[t] = IF t = x THEN "running" ELSE fate[t]
  BY <1>3, <1>5 DEF Typed, TypeOK
<1>7. \A a \in 1 .. k : released[a] \in Tasks
  BY <1>3
<1>8. now \in Nat
  BY DEF Typed, TypeOK
<1> HIDE DEF x, k
<1>9. 1 \in 1 .. k /\ \A a \in 1 .. k : a = 1 \/ (a > 1 /\ a - 1 \in 1 .. k - 1 /\ (a - 1) + 1 = a)
  BY <1>5
<1>10. fate[x] = "queued"
  BY <1>2, <1>5, <1>9
<1>11. CallsHoldTasks'
  <2>1. \A p \in Posters : ppc[p] \in {"check", "push"} => call[p].task \in Tasks
    BY CallTyped DEF Typed
  <2> QED
    BY <1>4, <1>6, <1>10, <2>1 DEF OrderInv, CallsHoldTasks
<1>12. QueuedOnce'
  <2>1. wpc' = "run" => fate'[run_task'] = "running"
    BY <1>3, <1>5, <1>6
  <2>2. \A a, b \in 1 .. k - 1 : messages_'[a] = messages_'[b] => a = b
    BY <1>2, <1>5
  <2>3. \A m, n \in Later : m.task = n.task => m = n
    BY <1>4 DEF OrderInv, QueuedOnce
  <2>4. ASSUME NEW t \in Tasks
        PROVE  /\ fate'[t] = "queued" <=> InMessages(t)' \/ InDelayed(t)'
               /\ ~(InMessages(t)' /\ InDelayed(t)')
    <3>1. InMessages(t)' <=> t # x /\ \E a \in 1 .. k : released[a] = t
      <4>1. ASSUME NEW a \in 1 .. k - 1, messages_'[a] = t
            PROVE  t # x /\ \E b \in 1 .. k : released[b] = t
        BY <1>2, <1>5, <1>9, <4>1
      <4>2. ASSUME NEW b \in 1 .. k, released[b] = t, t # x
            PROVE  \E a \in 1 .. k - 1 : messages_'[a] = t
        <5>1. b # 1
          BY <1>5, <4>2
        <5>2. b - 1 \in 1 .. k - 1 /\ messages_'[b - 1] = released[b]
          BY <1>5, <1>9, <5>1
        <5> QED
          BY <4>2, <5>2
      <4> QED
        BY <1>5, <4>1, <4>2 DEF InMessages
    <3>2. InDelayed(t)' <=> \E m \in Later : m.task = t
      BY <1>4 DEF InDelayed
    <3>3. x # t \/ ~\E m \in Later : m.task = t
      BY <1>2, <1>5, <1>9
    <3> QED
      BY <1>2, <1>6, <3>1, <3>2, <3>3
  <2> QED
    BY <1>4, <1>5, <2>1, <2>2, <2>3, <2>4 DEF QueuedOnce
<1>13. AcceptedOnce'
  BY <1>4, <1>6, AcceptedTyped DEF OrderInv, AcceptedOnce
<1>14. DelayedRecorded'
  <2>1. IsFiniteSet(Later)
    BY <1>4, FS_Subset DEF OrderInv, DelayedRecorded
  <2> QED
    BY <1>4, <2>1 DEF OrderInv, DelayedRecorded
<1>15. MessagesInOrder'
  <2>1. \A a, b \in 1 .. k - 1 : a < b => MayPass(messages_'[a], messages_'[b])
    <3> SUFFICES ASSUME NEW a \in 1 .. k - 1, NEW b \in 1 .. k - 1, a < b
                 PROVE  MayPass(messages_'[a], messages_'[b])
      OBVIOUS
    <3>1. a + 1 \in 1 .. k /\ b + 1 \in 1 .. k /\ a + 1 < b + 1
      BY <1>5
    <3>2. MayPass(released[a + 1], released[b + 1])
      BY <1>2, <3>1
    <3> QED
      BY <1>5, <3>2
  <2>2. \A a \in 1 .. k - 1, m \in Later : MayPass(messages_'[a], m.task)
    BY <1>2, <1>5
  <2>3. \A a \in 1 .. k - 1 : \A i \in DOMAIN accepted :
          accepted[i].task = messages_'[a] => accepted[i].at <= now
    BY <1>2, <1>5
  <2> QED
    BY <1>4, <1>5, <1>8, <2>1, <2>2, <2>3 DEF MessagesInOrder, MayPass, MayOvertake
<1>16. StartIsInOrder
  <2> SUFFICES ASSUME NEW i \in DOMAIN accepted, Starts(accepted[i].task)
               PROVE  /\ now >= accepted[i].at
                      /\ \A j \in 1 .. i - 1 : fate[accepted[j].task] = "queued" =>
                           MayOvertake(accepted[i], accepted[j])
    BY DEF StartIsInOrder
  <2>1. accepted[i].task = x /\ accepted[i].at \in Nat
    BY <1>6, AcceptedTyped DEF Starts, OrderInv
  <2>2. now >= accepted[i].at
    BY <1>2, <1>5, <1>8, <1>9, <2>1
  <2>3. ASSUME NEW j \in 1 .. i - 1, fate[accepted[j].task] = "queued"
        PROVE  MayOvertake(accepted[i], accepted[j])
    <3>1. j \in DOMAIN accepted /\ j < i /\ accepted[j].task \in Tasks
      BY AcceptedTyped DEF OrderInv
    <3>2. accepted[j].task # x
      BY <2>1, <3>1, AcceptedTyped DEF OrderInv, AcceptedOnce
    <3>3. MayPass(x, accepted[j].task)
      <4>1. CASE \E a \in 1 .. k : released[a] = accepted[j].task
        <5>1. PICK a \in 1 .. k : released[a] = accepted[j].task
          BY <4>1
        <5>2. 1 < a
          BY <1>5, <1>9, <3>2, <5>1
        <5> QED
          BY <1>2, <1>5, <1>9, <5>1, <5>2
      <4>2. CASE \E m \in Later : m.task = accepted[j].task
        BY <1>2, <1>5, <1>9, <4>2
      <4> QED
        BY <1>2, <2>3, <3>1, <4>1, <4>2
    <3> QED
      BY <2>1, <3>1, <3>3 DEF MayPass
  <2> QED
    BY <2>2, <2>3
<1> QED
  BY <1>11, <1>12, <1>13, <1>14, <1>15, <1>16 DEF OrderInv

LEMMA DestroyInOrder ==
  ASSUME Typed, OrderInv, Destroy
  PROVE  OrderInv' /\ StartIsInOrder
<1>1. /\ messages_' = << >> /\ delayed_messages_' = {}
      /\ fate' = [t \in Tasks |-> IF fate[t] = "queued" THEN "destroyed" ELSE fate[t]]
      /\ UNCHANGED <<delayed_next_num_, now, wpc, run_task, msCurrent, ppc, call, accepted>>
  BY DEF Destroy, loopVars, getVars, posterVars
<1>2. \A t \in Tasks : fate'[t] = IF fate[t] = "queued" THEN "destroyed" ELSE fate[t]
  BY <1>1
<1>3. CallsHoldTasks'
  <2>1. \A p \in Posters : ppc[p] \in {"check", "push"} => call[p].task \in Tasks
    BY CallTyped DEF Typed
  <2> QED
    BY <1>1, <1>2, <2>1 DEF OrderInv, CallsHoldTasks
<1>4. QueuedOnce'
  <2>1. wpc' = "run" => fate'[run_task'] = "running"
    BY <1>1, <1>2 DEF OrderInv, QueuedOnce, Typed, TypeOK
  <2>2. DOMAIN messages_' = {}
    BY <1>1
  <2> QED
    BY <1>1, <1>2, <2>1, <2>2 DEF QueuedOnce, InMessages, InDelayed
<1>5. AcceptedOnce'
  BY <1>1, <1>2, AcceptedTyped DEF OrderInv, AcceptedOnce
<1>6. DelayedRecorded'
  BY <1>1, FS_EmptySet DEF DelayedRecorded
<1>7. MessagesInOrder'
  <2>1. DOMAIN messages_' = {}
    BY <1>1
  <2> QED
    BY <1>1, <2>1 DEF OrderInv, MessagesInOrder
<1>8. StartIsInOrder
  BY <1>2, AcceptedTyped DEF StartIsInOrder, Starts, OrderInv
<1> QED
  BY <1>3, <1>4, <1>5, <1>6, <1>7, <1>8 DEF OrderInv

LEMMA NextInOrder ==
  ASSUME Typed, OrderInv, [Next]_vars
  PROVE  OrderInv' /\ StartIsInOrder
<1>1. now \in Nat /\ msCurrent \in Nat /\ msCurrent <= now
  BY DEF Typed, TypeOK, OrderInv, MessagesInOrder
<1>2. ASSUME NEW p \in Posters, NEW t \in Tasks, NEW b \in BOOLEAN, NEW d,
             BeginCall(p, t, b, d), b \/ d = 0
      PROVE  OrderInv' /\ StartIsInOrder
  BY <1>2, BeginCallInOrder
<1>3. ASSUME NEW p \in Posters, Poster(p) PROVE OrderInv' /\ StartIsInOrder
  <2>1. CASE WakeUp(p)
    BY <1>1, <2>1, OrderKept DEF WakeUp, queueVars, loopVars, getVars, Typed, TypeOK
  <2> QED
    BY <1>3, <2>1, RefuseInOrder, AdmitInOrder, PushInOrder DEF Poster
<1>4. CASE BeginLoop
  BY <1>1, <1>4, OrderKept DEF BeginLoop, queueVars, posterVars
<1>5. CASE BeginGet
  BY <1>1, <1>5, OrderKept DEF BeginGet, queueVars, posterVars
<1>6. CASE NothingReady
  BY <1>1, <1>6, OrderKept DEF NothingReady, queueVars, posterVars
<1>7. CASE CheckQuitting
  BY <1>1, <1>7, OrderKept DEF CheckQuitting, LeaveGet, queueVars, posterVars
<1>8. CASE CheckNotQuitting
  BY <1>1, <1>8, OrderKept DEF CheckNotQuitting, queueVars, posterVars
<1>9. CASE BeginWait
  BY <1>1, <1>9, OrderKept DEF BeginWait, queueVars, posterVars
<1>10. CASE EndWait
  BY <1>1, <1>10, OrderKept DEF EndWait, getVars, queueVars, posterVars
<1>11. CASE Awake
  BY <1>1, <1>11, OrderKept DEF Awake, LeaveGet, queueVars, posterVars
<1>12. CASE ReturnNull
  BY <1>1, <1>12, OrderKept DEF ReturnNull, getVars, queueVars, posterVars
<1>13. CASE FinishTask
  <2>1. run_task \in Tasks /\ fate[run_task] = "running"
    BY <1>13 DEF FinishTask, Typed, TypeOK, OrderInv, QueuedOnce
  <2>2. QueuedOnce' /\ AcceptedOnce' /\ DelayedRecorded' /\ MessagesInOrder' /\ StartIsInOrder
    BY <1>13, <2>1, OutsideKept DEF FinishTask, queueVars
  <2>3. CallsHoldTasks'
    <3>1. \A p \in Posters : ppc[p] \in {"check", "push"} =>
            call[p].task \in Tasks /\ call[p].task # run_task
      BY <2>1, CallTyped DEF Typed, OrderInv, CallsHoldTasks
    <3>2. \A u \in Tasks : u # run_task => fate'[u] = fate[u]
      BY <1>13, <2>1 DEF FinishTask, Typed, TypeOK
    <3> QED
      BY <1>13, <3>1, <3>2 DEF FinishTask, posterVars, OrderInv, CallsHoldTasks
  <2> QED
    BY <2>2, <2>3 DEF OrderInv
<1>14. CASE Start
  BY <1>1, <1>14, OrderKept DEF Start, getVars, queueVars, posterVars
<1>15. CASE Quit
  BY <1>1, <1>15, OrderKept DEF Quit, loopVars, getVars, queueVars, posterVars
<1>16. CASE QuitWakeUp
  BY <1>1, <1>16, OrderKept DEF QuitWakeUp, loopVars, getVars, queueVars, posterVars
<1>17. CASE Join
  BY <1>1, <1>17, OrderKept DEF Join, loopVars, getVars, queueVars, posterVars
<1>18. CASE Tick
  BY <1>1, <1>18, OrderKept DEF Tick, loopVars, getVars, queueVars, posterVars
<1>19. CASE UNCHANGED vars
  BY <1>1, <1>19, OrderKept DEF vars, loopVars, getVars, queueVars, posterVars
<1> QED
  BY <1>2, <1>3, <1>4, <1>5, <1>6, <1>7, <1>8, <1>9, <1>10, <1>11, <1>12, <1>13, <1>14,
     <1>15, <1>16, <1>17, <1>18, <1>19, TakeMessageInOrder, DestroyInOrder
  DEF Next, Post, Loop, PostTask, PostDelayedTask

(* The queues and the history of what was accepted agree in every          *)
(* reachable state.                                                        *)
THEOREM QueuesAgree == Spec => []OrderInv
<1>1. Init => OrderInv
  <2> SUFFICES ASSUME Init PROVE OrderInv
    OBVIOUS
  <2>1. CallsHoldTasks
    BY DEF Init, CallsHoldTasks
  <2>2. QueuedOnce
    BY DEF Init, QueuedOnce, InMessages, InDelayed
  <2>3. AcceptedOnce
    BY DEF Init, AcceptedOnce
  <2>4. DelayedRecorded
    BY FS_EmptySet DEF Init, DelayedRecorded
  <2>5. MessagesInOrder
    BY DEF Init, MessagesInOrder
  <2> QED
    BY <2>1, <2>2, <2>3, <2>4, <2>5 DEF OrderInv
<1>2. Typed /\ OrderInv /\ [Next]_vars => OrderInv'
  BY NextInOrder
<1> QED
  BY <1>1, <1>2, TypeCorrect, PTL DEF Spec

(* No task starts before it is due, an immediate task overtakes only       *)
(* delayed ones, and a delayed one only those that are due later.          *)
THEOREM StartsAreInOrder == Spec => StartsInOrder
<1>1. Typed /\ OrderInv /\ [Next]_vars => [StartIsInOrder]_vars
  BY NextInOrder
<1> QED
  BY <1>1, TypeCorrect, QueuesAgree, PTL DEF Spec, StartsInOrder
================================================================================
