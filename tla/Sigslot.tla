----------------------------------- MODULE Sigslot -----------------------------------
(***************************************************************************)
(* sigslot.h with its default policy, single_threaded: signals that call   *)
(* the slots connected to them, and receivers (has_slots) that disconnect  *)
(* themselves when they die.  A slot may do anything the program may do:   *)
(* connect, disconnect, emit, copy and destroy.  A signal is not destroyed *)
(* while it is emitting.                                                   *)
(***************************************************************************)
EXTENDS Integers, Sequences, FiniteSets, SequencesExt

CONSTANTS Signals, Receivers,
          MaxConnections,  \* bound: connections ever made
          MaxDepth,        \* bound: emissions within each other
          MaxEmissions     \* bound: emissions

VARIABLES
  alive,               \* the signals and receivers that exist
  m_connected_slots,   \* of each signal: the receivers, by the number of the connection
  m_current_iterator,  \* of each signal: a number; 0 is end()
  m_senders,           \* of each receiver: set of signals
  stack,               \* the emissions in progress, the innermost last
  newest,              \* of each signal: the last number; a list is in the order of numbers
  made,                \* history: connections made
  emissions,           \* history: emissions begun
  twice                \* history: <<s, r>> of which disconnect left another connection

vars == <<alive, m_connected_slots, m_current_iterator, m_senders, stack, newest, made, emissions, twice>>

ConnectionsOf(s) == DOMAIN m_connected_slots[s]
NumbersOf(s, r) == {n \in ConnectionsOf(s) : m_connected_slots[s][n] = r}

(* The first of the numbers from n on, or the end.                         *)
From(numbers, n) ==
  LET rest == {m \in numbers : m >= n}
  IN  IF rest = {} THEN 0 ELSE CHOOSE m \in rest : \A k \in rest : m <= k

(* What a slot does is done while its call is the innermost.               *)
Running == stack # << >> => Last(stack).calling

Init ==
  /\ alive \in {Signals \cup R : R \in SUBSET Receivers}
  /\ m_connected_slots = [s \in Signals |-> [n \in {} |-> 0]]
  /\ m_current_iterator = [s \in Signals |-> 0]
  /\ m_senders = [r \in Receivers |-> {}]
  /\ newest = [s \in Signals |-> 0]
  /\ stack = << >> /\ made = 0 /\ emissions = 0 /\ twice = {}

-----------------------------------------------------------------------------
(* A list with the numbers in `more' added, which are r's.                 *)
Extended(s, more, r) ==
  [n \in ConnectionsOf(s) \cup more |-> IF n \in more THEN r ELSE m_connected_slots[s][n]]

Connect(s, r) ==
  /\ Running /\ {s, r} \subseteq alive /\ made < MaxConnections
  /\ made' = made + 1 /\ newest' = [newest EXCEPT ![s] = @ + 1]
  /\ m_connected_slots' = [m_connected_slots EXCEPT ![s] = Extended(s, {newest[s] + 1}, r)]
  /\ m_senders' = [m_senders EXCEPT ![r] = @ \cup {s}]
  /\ UNCHANGED <<alive, m_current_iterator, stack, emissions, twice>>

Kept(s, gone) == [n \in ConnectionsOf(s) \ gone |-> m_connected_slots[s][n]]

(* Mutant: the iterator stays where it was. *)
Moved_Not(s, gone) == m_current_iterator[s]

(* The connections of s with the numbers in gone are erased one after the  *)
(* other; the iterator moves on to the next that stays.                    *)
Moved(s, gone) ==
  IF m_current_iterator[s] \in gone THEN From(ConnectionsOf(s) \ gone, m_current_iterator[s])
                                    ELSE m_current_iterator[s]

(* The first connection to r goes, and with it s from the senders of r.    *)
Disconnect(s, r) ==
  LET those == NumbersOf(s, r)
      first == {n \in those : \A other \in those : n <= other}
  IN  /\ Running /\ s \in alive /\ r \in alive
      /\ m_connected_slots' = [m_connected_slots EXCEPT ![s] = Kept(s, first)]
      /\ m_current_iterator' = [m_current_iterator EXCEPT ![s] = Moved(s, first)]
      /\ m_senders' = IF those = {} THEN m_senders ELSE [m_senders EXCEPT ![r] = @ \ {s}]
      /\ twice' = IF those = first THEN twice ELSE twice \cup {<<s, r>>}
      /\ UNCHANGED <<alive, stack, newest, made, emissions>>

(* disconnect_all of a signal, by itself or in its destructor.             *)
DisconnectAll(s, dies) ==
  /\ Running /\ s \in alive
  /\ dies => \A i \in DOMAIN stack : stack[i].signal # s
  /\ alive' = IF dies THEN alive \ {s} ELSE alive
  /\ m_connected_slots' = [m_connected_slots EXCEPT ![s] = Kept(s, ConnectionsOf(s))]
  /\ m_current_iterator' = [m_current_iterator EXCEPT ![s] = 0]
  /\ m_senders' = [r \in Receivers |-> IF NumbersOf(s, r) # {} THEN m_senders[r] \ {s} ELSE m_senders[r]]
  /\ UNCHANGED <<stack, newest, made, emissions, twice>>

(* What a signal that was told by its receiver r erases.                   *)
do_slot_disconnect(s, r) == IF s \in m_senders[r] THEN NumbersOf(s, r) ELSE {}

(* disconnect_all of a receiver, by itself or in its destructor: each of   *)
(* its senders erases all connections to it.                               *)
DisconnectReceiver(r, dies) ==
  /\ Running /\ r \in alive
  /\ alive' = IF dies THEN alive \ {r} ELSE alive
  /\ m_connected_slots' = [s \in Signals |-> Kept(s, do_slot_disconnect(s, r))]
  /\ m_current_iterator' = [s \in Signals |-> Moved(s, do_slot_disconnect(s, r))]
  /\ m_senders' = [m_senders EXCEPT ![r] = {}]
  /\ UNCHANGED <<stack, newest, made, emissions, twice>>

(* The numbers of the connections that a signal makes for a copy of r.     *)
do_slot_duplicate(s, r) ==
  IF s \in m_senders[r] THEN newest[s] + 1 .. newest[s] + Cardinality(NumbersOf(s, r)) ELSE {}

(* A copy of r is connected wherever r is.                                 *)
CopyReceiver(r, copy) ==
  /\ Running /\ r \in alive /\ copy \notin alive
  /\ \A s \in Signals : NumbersOf(s, copy) = {}
  /\ alive' = alive \cup {copy}
  /\ m_connected_slots' = [s \in Signals |-> Extended(s, do_slot_duplicate(s, r), copy)]
  /\ newest' = [s \in Signals |-> newest[s] + Cardinality(do_slot_duplicate(s, r))]
  /\ m_senders' = [m_senders EXCEPT ![copy] = m_senders[r]]
  /\ made' = made + SumFunction([s \in Signals |-> Cardinality(do_slot_duplicate(s, r))])
  /\ made' <= MaxConnections
  /\ UNCHANGED <<m_current_iterator, stack, emissions, twice>>

(* A copy of s has the same connections.                                   *)
CopySignal(s, copy) ==
  /\ Running /\ s \in alive /\ copy \notin alive
  /\ \A n \in ConnectionsOf(s) : m_connected_slots[s][n] \in alive
  /\ alive' = alive \cup {copy}
  /\ m_connected_slots' = [m_connected_slots EXCEPT ![copy] = m_connected_slots[s]]
  /\ m_current_iterator' = [m_current_iterator EXCEPT ![copy] = 0]
  /\ m_senders' = [r \in Receivers |-> IF NumbersOf(s, r) # {} THEN m_senders[r] \cup {copy} ELSE m_senders[r]]
  /\ newest' = [newest EXCEPT ![copy] = newest[s]]
  /\ made' = made + Cardinality(ConnectionsOf(s)) /\ made' <= MaxConnections
  /\ UNCHANGED <<stack, emissions, twice>>

-----------------------------------------------------------------------------
(* emit: the iterator is one, of the signal, even if emissions are nested; *)
(* broken tells that one within this one has moved it.                     *)
Emit(s) ==
  /\ Running /\ s \in alive /\ Len(stack) < MaxDepth /\ emissions < MaxEmissions
  /\ emissions' = emissions + 1
  /\ m_current_iterator' = [m_current_iterator EXCEPT ![s] = From(ConnectionsOf(s), 0)]
  /\ stack' = Append([i \in DOMAIN stack |-> [stack[i] EXCEPT !.broken = @ \/ stack[i].signal = s]],
                     [signal |-> s, calling |-> FALSE, calls |-> << >>, broken |-> FALSE,
                      began |-> ConnectionsOf(s), last |-> newest[s]])
  /\ UNCHANGED <<alive, m_connected_slots, m_senders, newest, made, twice>>

CallNext ==
  /\ stack # << >> /\ ~Last(stack).calling
  /\ LET s == Last(stack).signal
         n == m_current_iterator[s]
     IN  /\ n # 0
         /\ m_current_iterator' = [m_current_iterator EXCEPT ![s] = From(ConnectionsOf(s), n + 1)]
         /\ stack' = [stack EXCEPT ![Len(stack)].calling = TRUE, ![Len(stack)].calls = Append(@, n)]
  /\ UNCHANGED <<alive, m_connected_slots, m_senders, newest, made, emissions, twice>>

SlotReturns ==
  /\ stack # << >> /\ Last(stack).calling
  /\ stack' = [stack EXCEPT ![Len(stack)].calling = FALSE]
  /\ UNCHANGED <<alive, m_connected_slots, m_current_iterator, m_senders, newest, made, emissions, twice>>

EmitEnds ==
  /\ stack # << >> /\ ~Last(stack).calling /\ m_current_iterator[Last(stack).signal] = 0
  /\ stack' = Front(stack)
  /\ UNCHANGED <<alive, m_connected_slots, m_current_iterator, m_senders, newest, made, emissions, twice>>

Next ==
  \/ \E s \in Signals, r \in Receivers : Connect(s, r) \/ Disconnect(s, r)
  \/ \E s \in Signals, dies \in BOOLEAN : DisconnectAll(s, dies)
  \/ \E r \in Receivers, dies \in BOOLEAN : DisconnectReceiver(r, dies)
  \/ \E r, copy \in Receivers : CopyReceiver(r, copy)
  \/ \E s, copy \in Signals : CopySignal(s, copy)
  \/ \E s \in Signals : Emit(s)
  \/ CallNext \/ SlotReturns \/ EmitEnds

Spec == Init /\ [][Next]_vars

-----------------------------------------------------------------------------
(* Both ends know of a connection, and no iterator points to one that was  *)
(* erased.  A receiver that is connected to a signal twice is the          *)
(* exception: disconnect erases one connection, and the receiver forgets   *)
(* the signal that still points to it.                                     *)
EndsAgree ==
  \A s \in Signals :
    /\ m_current_iterator[s] \in {0} \cup ConnectionsOf(s)
    /\ \A r \in Receivers : <<s, r>> \notin twice =>
         (NumbersOf(s, r) # {} <=> s \in m_senders[r])
    /\ \A n \in ConnectionsOf(s) :
         LET r == m_connected_slots[s][n] IN r \in alive \/ <<s, r>> \in twice

(* An emission calls, in their order and once, the slots connected when it *)
(* began that nobody disconnected before their turn, and beyond those only *)
(* ones connected since; unless one of them emitted the signal again, which*)
(* leaves the rest to that emission.                                       *)
EmissionsComplete ==
  \A i \in DOMAIN stack :
    LET e == stack[i]
    IN  ~e.broken =>
          /\ \A k, l \in DOMAIN e.calls : k < l => e.calls[k] < e.calls[l]
          /\ \A k \in DOMAIN e.calls : e.calls[k] \in e.began \/ e.calls[k] > e.last
          /\ m_current_iterator[e.signal] = 0 =>
               e.began \cap ConnectionsOf(e.signal) \subseteq ToSet(e.calls)

SlotsCalledRight == EndsAgree /\ EmissionsComplete
==================================================================================
