------------------------------- MODULE MCSignals -------------------------------
(***************************************************************************)
(* The two signal libraries, each on its own: `subject' says which one a   *)
(* behaviour is about.  Of sigslot2, two threads, one of them an           *)
(* rtc::Thread, and one receiver; it is extended, sigslot is an instance.  *)
(***************************************************************************)
EXTENDS Sigslot2

CONSTANTS main, r1, none,
          Signals, PlainReceivers, MaxConnections, MaxDepth, MaxEmissions

VARIABLES subject, alive, m_connected_slots, m_current_iterator, m_senders, emitting,
          newest, made, emissions, twice

ASSUME PlainAssumption == Signals \cap PlainReceivers = {}

P == INSTANCE Sigslot WITH Receivers <- PlainReceivers, stack <- emitting

plainVars == <<alive, m_connected_slots, m_current_iterator, m_senders, emitting,
               newest, made, emissions, twice>>

MCKind(r, type, thread, unique, single) ==
  [receiver |-> r, type |-> type, thread |-> thread, unique |-> unique,
   single |-> single, kept |-> FALSE]

MCKinds ==
  {MCKind(r1, "blocking", main, FALSE, FALSE), MCKind(r1, "auto", main, TRUE, FALSE),
   [MCKind(none, "queued", main, FALSE, TRUE) EXCEPT !.kept = TRUE]}

(* An emission calls every slot it has to, a single shot once and a dead   *)
(* receiver never, and only a slot itself takes away the connection it is  *)
(* called through (Signal::emit).                                          *)
SlotsCalledAsDue ==
  EmissionComplete /\ []SingleShotOnce /\ DeadReceiverNotCalled /\ ErasedBySlotOnly

(* An emission of sigslot calls what is connected, and nothing that is gone.*)
SlotsCalledRight == P!SlotsCalledRight

-----------------------------------------------------------------------------
MCInit ==
  /\ Init /\ P!Init
  /\ \/ subject = "sigslot" /\ ~recursive
     \/ subject = "sigslot2" /\ alive = Signals

MCNext ==
  \/ subject = "sigslot" /\ P!Next /\ UNCHANGED <<subject, vars>>
  \/ subject = "sigslot2" /\ Next /\ UNCHANGED <<subject, plainVars>>

(* The fairness of Sigslot2, whose actions do nothing in the other case:   *)
(* they only continue what was begun.                                      *)
MCSpec == MCInit /\ [][MCNext]_<<subject, vars, plainVars>> /\ Fairness
===============================================================================
