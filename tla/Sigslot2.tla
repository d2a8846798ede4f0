------------------------------- MODULE Sigslot2 -------------------------------
(***************************************************************************)
(* One signal of sigslot2 (rtc_base/third_party/sigslot/sigslot2.hpp) and  *)
(* the receivers connected to it: connect, disconnect, emit over direct,   *)
(* queued, blocking and automatic connections, single shots, and receivers *)
(* that die meanwhile.                                                     *)
(*                                                                         *)
(* emit holds the signal's mutex while it calls the slots, and a slot may  *)
(* use the signal again.  The mutex is a CRITICAL_SECTION on Windows, which*)
(* its owner may enter again, and a plain pthread mutex elsewhere.         *)
(*                                                                         *)
(* Every actor has a stack of the calls it is in.  A critical section is   *)
(* one step unless it calls out of it.                                     *)
(***************************************************************************)
EXTENDS Integers, Sequences, SequencesExt

CONSTANTS Threads,    \* OS threads of the program
          RtcThread,  \* the rtc::Thread that queued slots run on
          Receivers,  \* the HasSlots objects
          Conns,      \* the numbers of connections: bounds how often connect succeeds
          Kinds,      \* the arguments the program gives to connect
          MaxCalls    \* bound: how many calls the program makes

CONSTANTS NoReceiver, NoThread, NoConn

Types == {"auto", "direct", "queued", "blocking"}
Kind == [receiver : Receivers \cup {NoReceiver}, type : Types,
         thread : {RtcThread, NoThread}, unique : BOOLEAN, single : BOOLEAN,
         kept : BOOLEAN]   \* whether the program keeps the shared_ptr

Sig == "signal"

ASSUME SigslotAssumption ==
  /\ RtcThread \notin Threads
  /\ NoReceiver \notin Receivers /\ Sig \notin Receivers
  /\ NoThread \notin Threads \cup {RtcThread}
  /\ Conns \subseteq Nat /\ NoConn \notin Conns
  /\ Kinds \subseteq Kind
  /\ MaxCalls \in Nat

VARIABLES
  recursive,         \* the build: may a mutex be entered again by its owner?
  lock,              \* the mutexes of the signal and of the receivers
  m_connectionList,  \* the connections in it, numbered in its order
  m_currentIterator, \* the connection it stands on, or NoConn at the end
  m_unique,
  conn,              \* each connection: its kind, type, m_hasEmitted, m_hasFired
  senders,           \* entries of the signal in each receiver's m_senderList
  held,              \* receivers the program holds a shared_ptr to
  destroyed,         \* receivers whose destructor has begun
  tasks,             \* of the rtc::Thread: [c, caller]
  stack,             \* the calls each actor is in, the innermost last
  calls,             \* how many calls were made
  fires,             \* history: how often each slot was called
  partial,           \* history: receivers disconnected with connections left
  reentered          \* history: a slot has emitted the signal that called it

listVars == <<m_connectionList, m_currentIterator, m_unique>>
histVars == <<fires, partial, reentered>>
vars == <<recursive, lock, listVars, conn, senders, held, destroyed, tasks, stack, calls, histVars>>

Actors == Threads \cup {RtcThread}
Locks == {Sig} \cup Receivers
Unlocked == [owner |-> NoThread, depth |-> 0]
NoKind == [receiver |-> NoReceiver, type |-> "none", thread |-> NoThread,
           single |-> FALSE, kept |-> FALSE, emitted |-> FALSE, fired |-> FALSE]

Init ==
  /\ recursive \in BOOLEAN
  /\ lock = [l \in Locks |-> Unlocked]
  /\ m_connectionList = {}
  /\ m_currentIterator = NoConn
  /\ m_unique = FALSE
  /\ conn = [c \in Conns |-> NoKind]
  /\ senders = [r \in Receivers |-> 0]
  /\ held = Receivers
  /\ destroyed = {}
  /\ tasks = << >>
  /\ stack = [p \in Actors |-> << >>]
  /\ calls = 0
  /\ fires = [c \in Conns |-> 0]
  /\ partial = {}
  /\ reentered = FALSE

-----------------------------------------------------------------------------
(* Mutexes *)

Free(l, p) == lock[l].depth = 0 \/ (recursive /\ lock[l].owner = p)
Locked(l, p) == [lock EXCEPT ![l] = [owner |-> p, depth |-> @.depth + 1]]
Released(l) ==
  [lock EXCEPT ![l] = IF @.depth = 1 THEN Unlocked ELSE [owner |-> @.owner, depth |-> @.depth - 1]]

(* Frames *)

Frame(at, c, r, n, due) == [at |-> at, c |-> c, r |-> r, n |-> n, due |-> due]
At(at) == Frame(at, NoConn, NoReceiver, 0, {})
Top(p) == Last(stack[p])
IsAt(p, at) == stack[p] # << >> /\ Top(p).at = at
Popped(p) == [stack EXCEPT ![p] = Front(@)]
Pushed(p, f) == [stack EXCEPT ![p] = Append(@, f)]
Changed(p, f) == [stack EXCEPT ![p] = Append(Front(@), f)]
GoTo(p, at) == stack' = Changed(p, [Top(p) EXCEPT !.at = at])

(* Lifetimes: a call that was given a receiver, or runs a slot of it, keeps *)
(* it alive; a connection lives in the list or with the program.           *)
InUse(r, st) == \E p \in Actors : \E i \in DOMAIN st[p] : st[p][i].r = r
Alive(r) == r \notin destroyed
ConnAlive(c) == conn[c].kept \/ c \in m_connectionList

(* The innermost call of p returns; the last user of a receiver that the   *)
(* program has let go of destroys it, and ~HasSlots disconnects it.        *)
Return(p) ==
  LET r == Top(p).r
      last == r \in Receivers \ (held \cup destroyed) /\ ~InUse(r, Popped(p))
  IN  /\ stack' = IF last THEN Changed(p, Frame("leave", NoConn, r, 0, {})) ELSE Popped(p)
      /\ destroyed' = IF last THEN destroyed \cup {r} ELSE destroyed

Expired(c) ==
  /\ conn[c].receiver # NoReceiver
  /\ ~Alive(conn[c].receiver) \/ (conn[c].single /\ conn[c].fired)

(* The first connection of a list from number n on, or its end.            *)
From(list, n) ==
  LET rest == {c \in list : c >= n}
  IN  IF rest = {} THEN NoConn ELSE CHOOSE c \in rest : \A d \in rest : c <= d

(* Erasing moves the iterator on if it stands on what is erased.           *)
Erase(gone) ==
  /\ m_connectionList' = m_connectionList \ gone
  /\ m_currentIterator' = IF m_currentIterator \in gone
                            THEN From(m_connectionList \ gone, m_currentIterator)
                            ELSE m_currentIterator

-----------------------------------------------------------------------------
(* Calls of the program, from a thread of its own or from a slot *)

MayCall(p) == calls < MaxCalls /\ (stack[p] = << >> \/ IsAt(p, "slot"))

Call(p, f) ==
  /\ MayCall(p)
  /\ calls' = calls + 1
  /\ stack' = Pushed(p, f)
  /\ UNCHANGED <<recursive, lock, listVars, conn, senders, held, destroyed, tasks, histVars>>

(* There are connections left for this call and those that are waiting.    *)
MayConnect == Cardinality({c \in Conns : conn[c].type = "none"}) > Cardinality({p \in Actors : IsAt(p, "connect")})

Connect(p, k) ==
  /\ MayConnect
  /\ k.receiver # NoReceiver => k.receiver \in held
  /\ Call(p, Frame("connect", NoConn, k.receiver, 0, {k}))

Disconnect(p, r) == r \in held /\ Call(p, Frame("disconnect", NoConn, r, 0, {}))
DisconnectConn(p, c) ==
  /\ conn[c].type # "none"
  /\ conn[c].kept
  /\ Call(p, Frame("disconnectConn", c, NoReceiver, 0, {}))
DisconnectAll(p) == Call(p, At("disconnectAll"))
Emit(p) == Call(p, At("emit"))

(* A receiver disconnects itself from every signal (HasSlots::disconnectAll). *)
Leave(p, r) == r \in held /\ Call(p, Frame("leave", NoConn, r, 0, {}))

(* The program lets go of a receiver; whoever lets go last destroys it.    *)
Drop(p, r) ==
  /\ MayCall(p)
  /\ r \in held
  /\ held' = held \ {r}
  /\ calls' = calls + 1
  /\ IF InUse(r, stack)
       THEN UNCHANGED <<destroyed, stack>>
       ELSE /\ destroyed' = destroyed \cup {r}
            /\ stack' = Pushed(p, Frame("leave", NoConn, r, 0, {}))
  /\ UNCHANGED <<recursive, lock, listVars, conn, senders, tasks, histVars>>

-----------------------------------------------------------------------------
(* Signal::connect: the signal's mutex is held while the receiver, under   *)
(* its own, takes note of the signal.                                      *)

IsValid(k) == k.type \in {"queued", "blocking"} => k.thread # NoThread

(* The next number is for the new connection, which comes last.            *)
NewConn(c, k) ==
  /\ conn[c].type = "none" /\ \A d \in Conns : (conn[d].type = "none") = (c <= d)
  /\ conn' = [conn EXCEPT ![c] = [receiver |-> k.receiver, type |-> k.type,
                                  thread |-> k.thread, single |-> k.single,
                                  kept |-> k.kept, emitted |-> FALSE, fired |-> FALSE]]
  /\ m_connectionList' = m_connectionList \cup {c}

Refused(k) == (k.unique \/ m_unique) /\ (k.receiver = NoReceiver \/ m_connectionList # {})

ConnectEnter(p) ==
  /\ IsAt(p, "connect") /\ Free(Sig, p)
  /\ \E k \in Top(p).due :
       /\ m_unique' = IF Refused(k) THEN m_unique ELSE k.unique \/ m_unique
       /\ IF Refused(k) \/ ~IsValid(k)
            THEN UNCHANGED <<m_connectionList, conn>>
            ELSE \E c \in Conns : NewConn(c, k)
       /\ IF Refused(k) \/ ~IsValid(k) \/ k.receiver = NoReceiver
            THEN Return(p) /\ UNCHANGED lock
            ELSE lock' = Locked(Sig, p) /\ GoTo(p, "addSender") /\ UNCHANGED destroyed
  /\ UNCHANGED <<recursive, m_currentIterator, senders, held, tasks, calls, histVars>>

(* Mutant: the receiver takes no note of the signal. *)
AddSender_Nothing(p) ==
  /\ IsAt(p, "addSender") /\ Free(Top(p).r, p)
  /\ lock' = Released(Sig)
  /\ Return(p)
  /\ UNCHANGED <<recursive, listVars, conn, senders, held, tasks, calls, histVars>>

AddSender(p) ==
  /\ IsAt(p, "addSender") /\ Free(Top(p).r, p)
  /\ senders' = [senders EXCEPT ![Top(p).r] = @ + 1]
  /\ lock' = Released(Sig)
  /\ Return(p)
  /\ UNCHANGED <<recursive, listVars, conn, held, tasks, calls, histVars>>

-----------------------------------------------------------------------------
(* SignalBase::disconnect and disconnectAll *)

Of(r) == {c \in m_connectionList : conn[c].receiver = r}

(* Only the first connection of the receiver goes, but the receiver then   *)
(* forgets the signal altogether.                                          *)
DisconnectEnter(p) ==
  LET r == Top(p).r
      first == {c \in Of(r) : \A d \in Of(r) : c <= d}
  IN  /\ IsAt(p, "disconnect") /\ Free(Sig, p)
      /\ Erase(first)
      /\ IF first = {}
           THEN Return(p) /\ UNCHANGED <<lock, partial>>
           ELSE /\ lock' = Locked(Sig, p)
                /\ GoTo(p, "dropSender")
                /\ partial' = IF first = Of(r) THEN partial ELSE partial \cup {r}
                /\ UNCHANGED destroyed
      /\ UNCHANGED <<recursive, m_unique, conn, senders, held, tasks, calls, fires, reentered>>

DropSender(p) ==
  /\ IsAt(p, "dropSender") /\ Free(Top(p).r, p)
  /\ senders' = [senders EXCEPT ![Top(p).r] = 0]
  /\ lock' = Released(Sig)
  /\ Return(p)
  /\ UNCHANGED <<recursive, listVars, conn, held, tasks, calls, histVars>>

DisconnectConnEnter(p) ==
  /\ IsAt(p, "disconnectConn") /\ Free(Sig, p)
  /\ Erase({Top(p).c} \cap m_connectionList)
  /\ Return(p)
  /\ UNCHANGED <<recursive, lock, m_unique, conn, senders, held, tasks, calls, histVars>>

DisconnectAllEnter(p) ==
  /\ IsAt(p, "disconnectAll") /\ Free(Sig, p)
  /\ lock' = Locked(Sig, p)
  /\ GoTo(p, "clear")
  /\ UNCHANGED <<recursive, listVars, conn, senders, held, destroyed, tasks, calls, histVars>>

FrontConn == From(m_connectionList, 0)
Told == {conn[FrontConn].receiver} \cap {r \in Receivers : Alive(r)}

(* Mutant: the front connection goes only with a live receiver. *)
Clear_OnlyLive(p) ==
  /\ IsAt(p, "clear") /\ m_connectionList # {}
  /\ Told # {} /\ \A r \in Told : Free(r, p)
  /\ senders' = [r \in Receivers |-> IF r \in Told THEN 0 ELSE senders[r]]
  /\ m_connectionList' = m_connectionList \ {FrontConn}
  /\ UNCHANGED <<recursive, lock, m_currentIterator, m_unique, conn, held, destroyed,
                 tasks, stack, calls, histVars>>

(* One turn of the loop: the front connection goes once its receiver, if   *)
(* it has one that lives, has forgotten the signal.                        *)
Clear(p) ==
  /\ IsAt(p, "clear") /\ m_connectionList # {}
  /\ \A r \in Told : Free(r, p)
  /\ senders' = [r \in Receivers |-> IF r \in Told THEN 0 ELSE senders[r]]
  /\ m_connectionList' = m_connectionList \ {FrontConn}
  /\ UNCHANGED <<recursive, lock, m_currentIterator, m_unique, conn, held, destroyed,
                 tasks, stack, calls, histVars>>

Cleared(p) ==
  /\ IsAt(p, "clear") /\ m_connectionList = {}
  /\ m_currentIterator' = NoConn
  /\ lock' = Released(Sig)
  /\ Return(p)
  /\ UNCHANGED <<recursive, m_connectionList, m_unique, conn, senders, held, tasks, calls, histVars>>

-----------------------------------------------------------------------------
(* HasSlots::disconnectAll, which ~HasSlots calls too: the receiver's      *)
(* mutex is held while each signal it knows erases its connections.        *)

LeaveEnter(p) ==
  LET r == Top(p).r
  IN  /\ IsAt(p, "leave") /\ Free(r, p)
      /\ senders' = [senders EXCEPT ![r] = 0]
      /\ IF senders[r] = 0
           THEN Return(p) /\ UNCHANGED lock
           ELSE /\ lock' = Locked(r, p)
                /\ stack' = Changed(p, [Top(p) EXCEPT !.at = "leaving", !.n = senders[r]])
                /\ UNCHANGED destroyed
      /\ UNCHANGED <<recursive, listVars, conn, held, tasks, calls, histVars>>

(* SignalBase::doDisconnect, once for every entry of the list of senders:  *)
(* what has expired goes with the receiver's own.                          *)
Leaving(p) ==
  LET f == Top(p)
  IN  /\ IsAt(p, "leaving") /\ Free(Sig, p)
      /\ Erase({c \in m_connectionList :
                  Expired(c) \/ (conn[c].receiver = f.r /\ Alive(f.r))})
      /\ IF f.n > 1
           THEN stack' = Changed(p, [f EXCEPT !.n = @ - 1]) /\ UNCHANGED <<lock, destroyed>>
           ELSE Return(p) /\ lock' = Released(f.r)
      /\ UNCHANGED <<recursive, m_unique, conn, senders, held, tasks, calls, histVars>>

-----------------------------------------------------------------------------
(* Signal::emit and Connection::emit *)

EmitEnter(p) ==
  /\ IsAt(p, "emit") /\ Free(Sig, p)
  /\ lock' = Locked(Sig, p)
  /\ m_currentIterator' = From(m_connectionList, 0)
  /\ stack' = Changed(p, Frame("next", NoConn, NoReceiver, 0, m_connectionList))
  /\ reentered' = (reentered \/ lock[Sig].owner = p)
  /\ UNCHANGED <<recursive, m_connectionList, m_unique, conn, senders, held, destroyed,
                 tasks, calls, fires, partial>>

EmitReturn(p) ==
  /\ IsAt(p, "next") /\ m_currentIterator = NoConn
  /\ lock' = Released(Sig)
  /\ Return(p)
  /\ UNCHANGED <<recursive, listVars, conn, senders, held, tasks, calls, histVars>>

(* An automatic connection is what its first emission finds, for good.     *)
Resolved(c, p) ==
  IF conn[c].type # "auto" THEN conn[c].type
  ELSE IF conn[c].thread \in {NoThread, p} THEN "direct" ELSE "queued"

(* Whether an emission passes over the connection.                         *)
Skipped(c) == (conn[c].single /\ conn[c].emitted) \/ Expired(c)

Slot(c) == Frame("slot", c, conn[c].receiver, 0, {})

(* Mutant: the slot is bound to the raw receiver. *)
Runs_Raw(c) == TRUE

Runs(c) == conn[c].receiver = NoReceiver \/ Alive(conn[c].receiver)
Fired(c) == [fires EXCEPT ![c] = @ + 1]

(* The loop takes the connection the iterator stands on, moves the         *)
(* iterator, and then calls, posts or waits for the slot.                  *)
EmitNext(p) ==
  LET c == m_currentIterator
      f == [Top(p) EXCEPT !.c = c, !.due = @ \ {c}]
      type == Resolved(c, p)
      inline == type = "direct" \/ (type = "blocking" /\ p = RtcThread)
      to(at) == Changed(p, [f EXCEPT !.at = at])
  IN  /\ IsAt(p, "next") /\ c # NoConn
      /\ m_currentIterator' = From(m_connectionList, c + 1)
      /\ IF Skipped(c)
           THEN stack' = to("next") /\ UNCHANGED <<conn, tasks, fires>>
           ELSE /\ conn' = [conn EXCEPT ![c].type = type]
                /\ stack' = IF inline
                              THEN [to("calling") EXCEPT ![p] = Append(@, Slot(c))]
                              ELSE to(IF type = "queued" THEN "posted" ELSE "blocked")
                /\ fires' = IF inline THEN Fired(c) ELSE fires
                /\ tasks' = IF inline THEN tasks
                            ELSE Append(tasks, [c |-> c, caller |-> IF type = "queued" THEN NoThread ELSE p])
      /\ UNCHANGED <<recursive, lock, m_connectionList, m_unique, senders, held, destroyed,
                     calls, partial, reentered>>

(* After the call: a single shot has fired unless its slot is only posted, *)
(* and was emitted.  The code looks at the connection through a reference  *)
(* into its node of the list, which is freed memory if the slot erased it: *)
(* see ConnectionsInUseStay.                                               *)
Emitted(p) ==
  LET c == Top(p).c
      fired == IsAt(p, "calling") /\ conn[c].single
  IN  /\ IsAt(p, "calling") \/ IsAt(p, "posted")
      /\ conn' = [conn EXCEPT ![c].fired = @ \/ fired,
                              ![c].emitted = @ \/ (conn[c].single /\ c \in m_connectionList)]
      /\ GoTo(p, "next")
      /\ UNCHANGED <<recursive, lock, listVars, senders, held, destroyed, tasks, calls, histVars>>

SlotReturn(p) ==
  /\ IsAt(p, "slot")
  /\ Return(p)
  /\ UNCHANGED <<recursive, lock, listVars, conn, senders, held, tasks, calls, histVars>>

-----------------------------------------------------------------------------
(* The rtc::Thread runs a slot that was posted to it: the queued ones look *)
(* again at the connection, which may be gone or have expired.             *)

Wanted(t) ==
  IF t.caller = NoThread THEN ConnAlive(t.c) /\ ~Expired(t.c) ELSE Runs(t.c)

RunTask ==
  LET t == Head(tasks)
      task == Frame(IF t.caller = NoThread THEN "task" ELSE "call", t.c, NoReceiver, 0, {t.caller})
  IN  /\ tasks # << >> /\ stack[RtcThread] = << >>
      /\ tasks' = Tail(tasks)
      /\ stack' = [stack EXCEPT ![RtcThread] = <<task>> \o IF Wanted(t) THEN <<Slot(t.c)>> ELSE << >>]
      /\ fires' = IF Wanted(t) THEN Fired(t.c) ELSE fires
      /\ UNCHANGED <<recursive, lock, listVars, conn, senders, held, destroyed, calls,
                     partial, reentered>>

TaskDone ==
  LET p == RtcThread
      c == Top(p).c
  IN  \/ /\ IsAt(p, "task")
         /\ conn' = [conn EXCEPT ![c].fired = @ \/ conn[c].single]
         /\ stack' = Popped(p)
         /\ UNCHANGED <<recursive, lock, listVars, senders, held, destroyed, tasks, calls, histVars>>
      \/ /\ IsAt(p, "call")
         /\ \E caller \in Top(p).due :
              stack' = [Popped(p) EXCEPT ![caller] =
                          Append(Front(@), [Top(caller) EXCEPT !.at = "calling"])]
         /\ UNCHANGED <<recursive, lock, listVars, conn, senders, held, destroyed, tasks, calls, histVars>>

-----------------------------------------------------------------------------

ProgramCall(p) ==
  \/ \E k \in Kinds : Connect(p, k)
  \/ \E r \in Receivers : Disconnect(p, r) \/ Leave(p, r) \/ Drop(p, r)
  \/ \E c \in Conns : DisconnectConn(p, c)
  \/ DisconnectAll(p) \/ Emit(p)

Step(p) ==
  \/ ConnectEnter(p) \/ AddSender(p)
  \/ DisconnectEnter(p) \/ DropSender(p) \/ DisconnectConnEnter(p)
  \/ DisconnectAllEnter(p) \/ Clear(p) \/ Cleared(p)
  \/ LeaveEnter(p) \/ Leaving(p)
  \/ EmitEnter(p) \/ EmitReturn(p) \/ EmitNext(p) \/ Emitted(p)
  \/ SlotReturn(p)

Next ==
  \/ \E p \in Actors : ProgramCall(p) \/ Step(p)
  \/ RunTask \/ TaskDone

Spec == Init /\ [][Next]_vars

(* A call that has begun goes on, and the rtc::Thread runs what is posted; *)
(* no call need ever be made.                                              *)
Fairness == (\A p \in Actors : WF_vars(Step(p))) /\ WF_vars(RunTask \/ TaskDone)
FairSpec == Spec /\ Fairness

-----------------------------------------------------------------------------
(* Properties *)

(* An emission reaches every connection that was there when it began and   *)
(* is still there when it returns, whatever its slots connect and          *)
(* disconnect meanwhile, unless a slot emits the signal again: the inner   *)
(* emission then leaves the outer one's iterator at the end.               *)
EmissionComplete ==
  [][\A p \in Actors :
       EmitReturn(p) => reentered \/ Top(p).due \cap m_connectionList = {}]_vars

(* The slot of a single shot is called at most once, also when its         *)
(* receiver runs it later than the next emission.                          *)
SingleShotOnce ==
  \A c \in Conns : conn[c].single /\ fires[c] > 1 => reentered

(* "Used to handle a slot being disconnected while a signal is firing"      *)
(* (sigslot2.hpp:659): an emission comes back to a connection that still    *)
(* is in the list.  It does not where a slot, or the end of the receiver   *)
(* whose last user it was, takes its own connection away: the iterator has *)
(* moved on, but the emission still refers to the node.                    *)
ConnectionsInUseStay == [][\A p \in Actors : Emitted(p) => Top(p).c \in m_connectionList]_vars

(* That is the only way a connection goes while its slot is called, posted *)
(* or waited for: in a build whose mutexes may be entered again, by a call *)
(* that its own slot has made or ended in, never by another thread.        *)
ErasedBySlotOnly ==
  [][\A p \in Actors : \A i \in DOMAIN stack[p] :
       /\ stack[p][i].at \in {"calling", "posted", "blocked"}
       /\ stack[p][i].c \in m_connectionList \ m_connectionList'
       => /\ recursive /\ stack[p][i].at = "calling"
          /\ Top(p).at \in {"disconnect", "disconnectConn", "clear", "leaving"}]_vars

(* A slot is never called on a receiver whose destructor has begun.        *)
DeadReceiverNotCalled ==
  [][\A c \in Conns : fires'[c] > fires[c] /\ conn[c].receiver # NoReceiver
                        => Alive(conn[c].receiver)]_vars

(* A receiver whose destructor is done has no connection left in the       *)
(* signal, unless a disconnect made it forget the signal while it still    *)
(* had others, or the signal is about to drop them all.                    *)
DeadLeaveNoTrace ==
  \A r \in destroyed \ partial :
    InUse(r, stack) \/ Of(r) = {} \/ \E p \in Actors : IsAt(p, "clear")

(* Every call returns and every posted slot is run or given up, unless     *)
(* some calls wait for each other in a circle: for mutexes, or for the     *)
(* rtc::Thread to run a slot.                                              *)
Wants(p) ==
  IF stack[p] = << >> THEN {}
  ELSE LET f == Top(p)
       IN  CASE f.at \in {"connect", "disconnect", "disconnectConn", "disconnectAll",
                          "leaving", "emit"} -> {Sig}
             [] f.at \in {"addSender", "dropSender", "leave"} -> {f.r}
             [] f.at = "clear" /\ m_connectionList # {} -> Told
             [] OTHER -> {}
WaitsFor(p) ==
  {lock[l].owner : l \in {k \in Wants(p) : ~Free(k, p)}}
    \cup IF IsAt(p, "blocked") THEN {RtcThread} ELSE {}
Stuck == \E S \in SUBSET Actors \ {{}} : \A p \in S : WaitsFor(p) \cap S # {}
CallsReturn ==
  /\ \A p \in Actors : []<>(stack[p] = << >> \/ IsAt(p, "slot") \/ Stuck)
  /\ []<>(tasks = << >> \/ Stuck)
===============================================================================
