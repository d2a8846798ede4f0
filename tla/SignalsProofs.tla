---------------------------- MODULE SignalsProofs ----------------------------
(***************************************************************************)
(* Theorems about the two signal libraries of MCSignals, for any number of *)
(* signals, receivers, connections and threads and any calls: an emission  *)
(* calls every slot it has to and no other, and what dies leaves nothing   *)
(* behind.  Sigslot comes first, then Sigslot2; each has its invariant, a  *)
(* lemma for every action and what follows from it.                        *)
(***************************************************************************)
EXTENDS MCSignals, FiniteSetTheorems, WellFoundedInduction, TLAPS

(* What holds of a set that is not empty: it has a smallest number.        *)
LEMMA Least ==
  ASSUME NEW S, S \subseteq Nat, S # {}
  PROVE  \E x \in S : \A y \in S : x <= y
<1> DEFINE Upto == {0 .. n : n \in S}
<1>1. Upto \subseteq FiniteSubsetsOf(Nat) /\ Upto # {}
  <2>1. ASSUME NEW n \in S PROVE 0 .. n \in FiniteSubsetsOf(Nat)
    BY FS_Interval DEF FiniteSubsetsOf
  <2> QED
    BY <2>1
<1>2. PICK U \in Upto : \A V \in Upto : <<V, U>> \notin StrictSubsetOrdering(Nat)
  <2> HIDE DEF Upto
  <2> QED
    BY <1>1, FS_StrictSubsetOrderingWellFounded, WFMin
<1>3. PICK x \in S : U = 0 .. x
  OBVIOUS
<1>4. ASSUME NEW y \in S PROVE x <= y
  <2>1. ~ (0 .. y \subseteq 0 .. x /\ 0 .. y # 0 .. x)
    <3>1. <<0 .. y, 0 .. x>> \notin StrictSubsetOrdering(Nat)
      BY <1>2, <1>3
    <3>2. 0 .. y \in SUBSET Nat /\ 0 .. x \in SUBSET Nat
      OBVIOUS
    <3> QED
      BY <3>1, <3>2 DEF StrictSubsetOrdering
  <2>2. CASE y < x
    <3>1. 0 .. y \subseteq 0 .. x /\ x \in 0 .. x /\ x \notin 0 .. y
      BY <2>2
    <3> QED
      BY <2>1, <3>1
  <2> QED
    BY <2>2
<1> QED
  BY <1>4

-----------------------------------------------------------------------------
(* Sigslot: one thread, and emissions within emissions.                    *)

(* What From finds in a set of numbers.                                    *)
LEMMA FromIsFirst ==
  ASSUME NEW N \in SUBSET Nat, NEW n \in Nat
  PROVE  \/ P!From(N, n) = 0 /\ \A m \in N : m < n
         \/ P!From(N, n) \in N /\ n <= P!From(N, n) /\ \A m \in N : n <= m => P!From(N, n) <= m
<1> DEFINE rest == {m \in N : m >= n}
<1>1. CASE rest = {}
  <2>1. P!From(N, n) = 0
    BY <1>1 DEF P!From
  <2> QED
    BY <1>1, <2>1
<1>2. CASE rest # {}
  <2>1. \E m \in rest : \A k \in rest : m <= k
    BY <1>2, Least
  <2>2. P!From(N, n) = CHOOSE m \in rest : \A k \in rest : m <= k
    BY <1>2 DEF P!From
  <2>3. P!From(N, n) \in rest /\ \A k \in rest : P!From(N, n) <= k
    BY <2>1, <2>2
  <2> QED
    BY <2>3
<1> QED
  BY <1>1, <1>2

(* The invariant.  Lists are numbered, and every number was given out.     *)
Emission == [signal : Signals, calling : BOOLEAN, calls : Seq(Nat), broken : BOOLEAN,
             began : SUBSET Nat, last : Nat]

Typed ==
  /\ alive \subseteq Signals \cup PlainReceivers
  /\ m_connected_slots \in [Signals -> UNION {[N -> PlainReceivers] : N \in SUBSET Nat}]
  /\ newest \in [Signals -> Nat]
  /\ \A s \in Signals : P!ConnectionsOf(s) \subseteq 1 .. newest[s]
  /\ m_current_iterator \in [Signals -> Nat]
  /\ m_senders \in [PlainReceivers -> SUBSET Signals]
  /\ emitting \in Seq(Emission)

(* A receiver knows the signals that are connected to it, but for those    *)
(* that it is connected to twice; and so for what has died.                *)
Ends ==
  \A s \in Signals :
    /\ m_current_iterator[s] \in {0} \cup P!ConnectionsOf(s)
    /\ s \notin alive => P!ConnectionsOf(s) = {}
    /\ \A r \in PlainReceivers :
         /\ s \in m_senders[r] => P!NumbersOf(s, r) # {}
         /\ P!NumbersOf(s, r) # {} => s \in m_senders[r] \/ <<s, r>> \in twice
         /\ P!NumbersOf(s, r) # {} => r \in alive \/ <<s, r>> \in twice

(* What was called of an emission lies before the iterator, in order; what *)
(* was there when it began was called or still lies before it; and what    *)
(* came since has a higher number.                                         *)
Calls(e) ==
  LET it == m_current_iterator[e.signal]
  IN  /\ \A k, l \in DOMAIN e.calls : k < l => e.calls[k] < e.calls[l]
      /\ \A k \in DOMAIN e.calls : /\ e.calls[k] \in e.began \/ e.calls[k] > e.last
                                   /\ it = 0 \/ e.calls[k] < it
      /\ \A n \in P!ConnectionsOf(e.signal) :
           IF n \in e.began THEN n \in P!ToSet(e.calls) \/ (it # 0 /\ it <= n) ELSE n > e.last
      /\ e.last <= newest[e.signal] /\ \A n \in e.began : n <= e.last

(* An emission that no other has disturbed is the only one of its signal   *)
(* from there to the top of the stack.                                     *)
Emissions ==
  \A i \in DOMAIN emitting :
    /\ emitting[i].signal \in alive
    /\ ~emitting[i].broken =>
         /\ Calls(emitting[i])
         /\ \A j \in DOMAIN emitting : i < j => emitting[j].signal # emitting[i].signal

SlotInv == Typed /\ Ends /\ Emissions

LEMMA SlotInvInitially == ASSUME P!Init PROVE SlotInv
<1> DEFINE empty == [n \in {} |-> 0]
<1>1. \A s \in Signals : m_connected_slots[s] = empty /\ P!ConnectionsOf(s) = {}
  BY DEF P!Init, P!ConnectionsOf
<1>2. empty \in [{} -> PlainReceivers] /\ {} \in SUBSET Nat
  OBVIOUS
<1>3. empty \in UNION {[N -> PlainReceivers] : N \in SUBSET Nat}
  BY <1>2
<1>4. m_connected_slots \in [Signals -> UNION {[N -> PlainReceivers] : N \in SUBSET Nat}]
  BY <1>3 DEF P!Init
<1>5. Typed
  <2>1. alive \subseteq Signals \cup PlainReceivers
    BY DEF P!Init
  <2>2. newest \in [Signals -> Nat] /\ m_current_iterator \in [Signals -> Nat]
    BY DEF P!Init
  <2>3. m_senders \in [PlainReceivers -> SUBSET Signals] /\ emitting \in Seq(Emission)
    BY DEF P!Init
  <2> QED
    BY <1>1, <1>4, <2>1, <2>2, <2>3 DEF Typed
<1>6. Ends
  <2>1. \A s \in Signals : m_current_iterator[s] = 0 /\ \A r \in PlainReceivers : m_senders[r] = {}
    BY DEF P!Init
  <2> QED
    BY <1>1, <2>1 DEF Ends, P!NumbersOf
<1>7. Emissions
  BY DEF P!Init, Emissions
<1> QED
  BY <1>5, <1>6, <1>7 DEF SlotInv

(* What an emission may see of a signal whose list is changed.             *)
Forward(s) ==
  /\ newest[s] <= newest'[s]
  /\ \A n \in P!ConnectionsOf(s)' : n \in P!ConnectionsOf(s) \/ n > newest[s]
  /\ m_current_iterator[s] = 0 => m_current_iterator'[s] = 0
  /\ m_current_iterator[s] # 0 => m_current_iterator'[s] = 0 \/ m_current_iterator[s] <= m_current_iterator'[s]
  /\ \A n \in P!ConnectionsOf(s)' :
       n \in P!ConnectionsOf(s) /\ m_current_iterator[s] # 0 /\ m_current_iterator[s] <= n =>
         m_current_iterator'[s] # 0 /\ m_current_iterator'[s] <= n

LEMMA ForwardKeepsCalls ==
  ASSUME Typed, Typed', NEW e \in Emission, Calls(e), Forward(e.signal)
  PROVE  Calls(e)'
<1> DEFINE s == e.signal
           it == m_current_iterator[s]
           jt == m_current_iterator'[s]
<1>1. s \in Signals /\ e.calls \in Seq(Nat) /\ e.last \in Nat /\ e.began \subseteq Nat
  BY DEF Emission
<1>2. it \in Nat /\ jt \in Nat /\ newest[s] \in Nat /\ newest'[s] \in Nat
  BY <1>1 DEF Typed
<1>3. \A n \in P!ConnectionsOf(s)' : n \in Nat
  BY <1>1, <1>2 DEF Typed
<1>4. \A k \in DOMAIN e.calls : e.calls[k] \in Nat
  BY <1>1
<1>5. \A k \in DOMAIN e.calls : jt = 0 \/ e.calls[k] < jt
  <2>1. ASSUME NEW k \in DOMAIN e.calls PROVE jt = 0 \/ e.calls[k] < jt
    <3>1. it = 0 \/ e.calls[k] < it
      BY DEF Calls
    <3>2. (it = 0 => jt = 0) /\ (it # 0 => jt = 0 \/ it <= jt)
      BY DEF Forward
    <3> QED
      BY <1>2, <1>4, <3>1, <3>2
  <2> QED
    BY <2>1
<1>6. ASSUME NEW n \in P!ConnectionsOf(s)'
      PROVE IF n \in e.began THEN n \in P!ToSet(e.calls) \/ (jt # 0 /\ jt <= n) ELSE n > e.last
  <2>1. n \in P!ConnectionsOf(s) \/ n > newest[s]
    BY DEF Forward
  <2>2. CASE n \in P!ConnectionsOf(s)
    <3>1. IF n \in e.began THEN n \in P!ToSet(e.calls) \/ (it # 0 /\ it <= n) ELSE n > e.last
      BY <2>2 DEF Calls
    <3>2. it # 0 /\ it <= n => jt # 0 /\ jt <= n
      BY <2>2 DEF Forward
    <3> QED
      BY <3>1, <3>2
  <2>3. CASE n > newest[s]
    <3>1. e.last <= newest[s]
      BY DEF Calls
    <3>2. n > e.last
      BY <1>1, <1>2, <1>3, <2>3, <3>1
    <3>3. n \notin e.began
      BY <1>1, <1>3, <3>2 DEF Calls
    <3> QED
      BY <3>2, <3>3
  <2> QED
    BY <2>1, <2>2, <2>3
<1>7. e.last <= newest'[s]
  BY <1>1, <1>2 DEF Calls, Forward
<1> QED
  BY <1>5, <1>6, <1>7 DEF Calls

LEMMA ForwardKeepsEmissions ==
  ASSUME SlotInv, Typed', UNCHANGED emitting,
         \A i \in DOMAIN emitting : emitting[i].signal \in alive' /\ Forward(emitting[i].signal)
  PROVE  Emissions'
<1>1. ASSUME NEW i \in DOMAIN emitting, ~emitting[i].broken PROVE Calls(emitting[i])'
  <2> DEFINE e == emitting[i]
  <2>1. e \in Emission
    BY DEF SlotInv, Typed
  <2>2. Calls(e) /\ Forward(e.signal)
    BY <1>1 DEF SlotInv, Emissions
  <2>3. Calls(e)'
    <3> HIDE DEF e
    <3>1. Typed
      BY DEF SlotInv
    <3>2. e' = e
      BY DEF e
    <3> QED
      BY <2>1, <2>2, <3>1, <3>2, ForwardKeepsCalls
  <2> QED
    BY <2>3
<1> QED
  BY <1>1 DEF SlotInv, Emissions

LEMMA StackIs ==
  ASSUME SlotInv, NEW i \in DOMAIN emitting
  PROVE  emitting[i] \in Emission /\ emitting[i].signal \in Signals /\ emitting[i].signal \in alive
<1>1. emitting[i] \in Emission
  BY DEF SlotInv, Typed
<1> QED
  BY <1>1 DEF SlotInv, Emissions, Emission

LEMMA ListsOf ==
  ASSUME Typed, NEW s \in Signals
  PROVE  /\ P!ConnectionsOf(s) \subseteq Nat \ {0}
         /\ m_connected_slots[s] \in [P!ConnectionsOf(s) -> PlainReceivers]
         /\ newest[s] \in Nat /\ m_current_iterator[s] \in Nat
<1>1. m_connected_slots[s] \in UNION {[N -> PlainReceivers] : N \in SUBSET Nat}
  BY DEF Typed
<1>2. PICK N \in SUBSET Nat : m_connected_slots[s] \in [N -> PlainReceivers]
  BY <1>1
<1>3. P!ConnectionsOf(s) = N
  BY <1>2 DEF P!ConnectionsOf
<1>4. newest[s] \in Nat /\ m_current_iterator[s] \in Nat
  BY DEF Typed
<1>5. P!ConnectionsOf(s) \subseteq 1 .. newest[s]
  BY DEF Typed
<1> QED
  BY <1>2, <1>3, <1>4, <1>5

(* What is in a list that was extended, or that lost connections.          *)
LEMMA ExtendedIs ==
  ASSUME Typed, NEW s \in Signals, NEW r \in PlainReceivers, NEW more \in SUBSET Nat
  PROVE  /\ P!Extended(s, more, r) \in UNION {[N -> PlainReceivers] : N \in SUBSET Nat}
         /\ DOMAIN P!Extended(s, more, r) = P!ConnectionsOf(s) \cup more
         /\ \A n \in DOMAIN P!Extended(s, more, r) :
              P!Extended(s, more, r)[n] = IF n \in more THEN r ELSE m_connected_slots[s][n]
<1> DEFINE L == P!Extended(s, more, r)
           N == P!ConnectionsOf(s) \cup more
<1>1. N \in SUBSET Nat /\ m_connected_slots[s] \in [P!ConnectionsOf(s) -> PlainReceivers]
  BY ListsOf
<1>2. L = [n \in N |-> IF n \in more THEN r ELSE m_connected_slots[s][n]]
  BY DEF P!Extended
<1>3. L \in [N -> PlainReceivers]
  BY <1>1, <1>2
<1> QED
  BY <1>1, <1>2, <1>3

LEMMA KeptIs ==
  ASSUME Typed, NEW s \in Signals, NEW gone
  PROVE  /\ P!Kept(s, gone) \in UNION {[N -> PlainReceivers] : N \in SUBSET Nat}
         /\ DOMAIN P!Kept(s, gone) = P!ConnectionsOf(s) \ gone
         /\ \A n \in DOMAIN P!Kept(s, gone) : P!Kept(s, gone)[n] = m_connected_slots[s][n]
<1> DEFINE L == P!Kept(s, gone)
           N == P!ConnectionsOf(s) \ gone
<1>1. N \in SUBSET Nat /\ m_connected_slots[s] \in [P!ConnectionsOf(s) -> PlainReceivers]
  BY ListsOf
<1>2. L = [n \in N |-> m_connected_slots[s][n]]
  BY DEF P!Kept
<1>3. L \in [N -> PlainReceivers]
  BY <1>1, <1>2
<1> QED
  BY <1>1, <1>2, <1>3

LEMMA MovedIs ==
  ASSUME Typed, NEW s \in Signals, NEW gone,
         m_current_iterator[s] \in {0} \cup P!ConnectionsOf(s), 0 \notin gone
  PROVE  /\ P!Moved(s, gone) \in {0} \cup (P!ConnectionsOf(s) \ gone)
         /\ m_current_iterator[s] = 0 => P!Moved(s, gone) = 0
         /\ m_current_iterator[s] # 0 => P!Moved(s, gone) = 0 \/ m_current_iterator[s] <= P!Moved(s, gone)
         /\ \A n \in P!ConnectionsOf(s) \ gone :
              m_current_iterator[s] # 0 /\ m_current_iterator[s] <= n =>
                P!Moved(s, gone) # 0 /\ P!Moved(s, gone) <= n
<1> DEFINE it == m_current_iterator[s]
           N == P!ConnectionsOf(s) \ gone
<1>1. P!ConnectionsOf(s) \subseteq Nat \ {0} /\ it \in Nat
  BY ListsOf
<1>2. CASE it \in gone
  <2>1. P!Moved(s, gone) = P!From(N, it)
    BY <1>2 DEF P!Moved
  <2>2. \/ P!From(N, it) = 0 /\ \A m \in N : m < it
        \/ P!From(N, it) \in N /\ it <= P!From(N, it) /\ \A m \in N : it <= m => P!From(N, it) <= m
    BY <1>1, FromIsFirst
  <2> HIDE DEF N
  <2>3. N \subseteq Nat \ {0}
    BY <1>1 DEF N
  <2>4. it # 0
    BY <1>2
  <2>5. CASE P!From(N, it) = 0 /\ \A m \in N : m < it
    BY <1>1, <2>1, <2>3, <2>4, <2>5 DEF N
  <2>6. CASE P!From(N, it) \in N /\ it <= P!From(N, it) /\ \A m \in N : it <= m => P!From(N, it) <= m
    BY <1>1, <2>1, <2>3, <2>4, <2>6 DEF N
  <2> QED
    BY <2>2, <2>5, <2>6
<1>3. CASE it \notin gone
  <2>1. P!Moved(s, gone) = it
    BY <1>3 DEF P!Moved
  <2> QED
    BY <1>1, <1>3, <2>1
<1> QED
  BY <1>2, <1>3

(* A change of lists in which connections go, and the iterator with them.  *)
LEMMA ErasingGoesForward ==
  ASSUME Typed, Ends, UNCHANGED newest, NEW s \in Signals, NEW gone, gone \subseteq P!ConnectionsOf(s),
         m_connected_slots'[s] = P!Kept(s, gone),
         m_current_iterator'[s] = P!Moved(s, gone)
  PROVE  Forward(s) /\ m_current_iterator'[s] \in {0} \cup P!ConnectionsOf(s)'
<1>1. P!ConnectionsOf(s)' = P!ConnectionsOf(s) \ gone
  BY KeptIs DEF P!ConnectionsOf
<1>2. m_current_iterator[s] \in {0} \cup P!ConnectionsOf(s) /\ newest[s] \in Nat
  BY ListsOf DEF Ends
<1>3. 0 \notin gone
  BY ListsOf
<1>4. /\ P!Moved(s, gone) \in {0} \cup (P!ConnectionsOf(s) \ gone)
      /\ m_current_iterator[s] = 0 => P!Moved(s, gone) = 0
      /\ m_current_iterator[s] # 0 => P!Moved(s, gone) = 0 \/ m_current_iterator[s] <= P!Moved(s, gone)
      /\ \A n \in P!ConnectionsOf(s) \ gone :
           m_current_iterator[s] # 0 /\ m_current_iterator[s] <= n =>
             P!Moved(s, gone) # 0 /\ P!Moved(s, gone) <= n
  BY <1>2, <1>3, MovedIs
<1> QED
  BY <1>1, <1>2, <1>4 DEF Forward

LEMMA NumbersKept ==
  ASSUME Typed, NEW s \in Signals, NEW gone, NEW r, m_connected_slots'[s] = P!Kept(s, gone)
  PROVE  P!ConnectionsOf(s)' = P!ConnectionsOf(s) \ gone /\ P!NumbersOf(s, r)' = P!NumbersOf(s, r) \ gone
<1>0. P!ConnectionsOf(s)' = DOMAIN P!Kept(s, gone)
  BY DEF P!ConnectionsOf
<1>1. P!ConnectionsOf(s)' = P!ConnectionsOf(s) \ gone
  BY <1>0, KeptIs
<1>2. \A n \in P!ConnectionsOf(s)' : m_connected_slots'[s][n] = m_connected_slots[s][n]
  <2>1. \A n \in DOMAIN P!Kept(s, gone) : P!Kept(s, gone)[n] = m_connected_slots[s][n]
    BY KeptIs
  <2> QED
    BY <1>0, <2>1
<1> QED
  BY <1>1, <1>2 DEF P!NumbersOf

LEMMA NumbersExtended ==
  ASSUME Typed, NEW s \in Signals, NEW q \in PlainReceivers, NEW more \in SUBSET Nat,
         \A n \in more : n > newest[s],
         m_connected_slots'[s] = P!Extended(s, more, q), NEW r
  PROVE  /\ P!ConnectionsOf(s)' = P!ConnectionsOf(s) \cup more
         /\ P!NumbersOf(s, r)' = P!NumbersOf(s, r) \cup IF r = q THEN more ELSE {}
<1>0. P!ConnectionsOf(s)' = DOMAIN P!Extended(s, more, q)
  BY DEF P!ConnectionsOf
<1>1. P!ConnectionsOf(s)' = P!ConnectionsOf(s) \cup more
  BY <1>0, ExtendedIs
<1>2. \A n \in P!ConnectionsOf(s)' :
        m_connected_slots'[s][n] = IF n \in more THEN q ELSE m_connected_slots[s][n]
  <2>1. \A n \in DOMAIN P!Extended(s, more, q) :
          P!Extended(s, more, q)[n] = IF n \in more THEN q ELSE m_connected_slots[s][n]
    BY DEF P!Extended
  <2> QED
    BY <1>0, <2>1
<1>3. P!ConnectionsOf(s) \cap more = {}
  <2>1. \A n \in P!ConnectionsOf(s) : n <= newest[s] /\ n \in Nat
    BY ListsOf DEF Typed
  <2> QED
    BY <2>1, ListsOf
<1> QED
  BY <1>1, <1>2, <1>3 DEF P!NumbersOf

LEMMA ConnectKeeps ==
  ASSUME SlotInv, NEW s \in Signals, NEW r \in PlainReceivers, P!Connect(s, r)
  PROVE  SlotInv'
<1> DEFINE new == newest[s] + 1
<1>1. Typed /\ Ends /\ s \in alive /\ r \in alive
  BY DEF SlotInv, P!Connect
<1>2. newest[s] \in Nat /\ new \in Nat /\ {new} \in SUBSET Nat /\ \A n \in {new} : n > newest[s]
  BY <1>1, ListsOf
<1>3. m_connected_slots' = [m_connected_slots EXCEPT ![s] = P!Extended(s, {new}, r)]
  BY DEF P!Connect
<1>4. /\ m_connected_slots'[s] = P!Extended(s, {new}, r)
      /\ \A z \in Signals : z # s => m_connected_slots'[z] = m_connected_slots[z]
  BY <1>1, <1>3 DEF Typed
<1>5. P!ConnectionsOf(s)' = P!ConnectionsOf(s) \cup {new}
  <2> HIDE DEF new
  <2> QED
    BY <1>1, <1>2, <1>4, NumbersExtended
<1>6. \A q \in PlainReceivers : P!NumbersOf(s, q)' = P!NumbersOf(s, q) \cup IF q = r THEN {new} ELSE {}
  BY <1>1, <1>2, <1>4, NumbersExtended
<1>7. \A z \in Signals : z # s => /\ P!ConnectionsOf(z)' = P!ConnectionsOf(z)
                                   /\ \A q \in PlainReceivers : P!NumbersOf(z, q)' = P!NumbersOf(z, q)
  BY <1>4 DEF P!ConnectionsOf, P!NumbersOf
<1>8. newest' = [newest EXCEPT ![s] = new] /\ m_senders' = [m_senders EXCEPT ![r] = @ \cup {s}]
      /\ UNCHANGED <<alive, m_current_iterator, emitting, twice>>
  BY DEF P!Connect
<1>9. Typed'
  <2>1. m_connected_slots' \in [Signals -> UNION {[N -> PlainReceivers] : N \in SUBSET Nat}]
    <3>1. P!Extended(s, {new}, r) \in UNION {[N -> PlainReceivers] : N \in SUBSET Nat}
      <4> HIDE DEF new
      <4> QED
        BY <1>1, <1>2, ExtendedIs
    <3> QED
      BY <1>1, <1>3, <3>1 DEF Typed
  <2>2. newest' \in [Signals -> Nat] /\ m_senders' \in [PlainReceivers -> SUBSET Signals]
    BY <1>1, <1>2, <1>8 DEF Typed
  <2>3. \A z \in Signals : P!ConnectionsOf(z)' \subseteq 1 .. newest'[z]
    <3>1. ASSUME NEW z \in Signals, z # s PROVE P!ConnectionsOf(z)' \subseteq 1 .. newest'[z]
      BY <1>1, <1>7, <1>8, <3>1 DEF Typed
    <3>2. P!ConnectionsOf(s)' \subseteq 1 .. newest'[s]
      <4>1. P!ConnectionsOf(s) \subseteq 1 .. newest[s] /\ newest'[s] = new
        BY <1>1, <1>8 DEF Typed
      <4> QED
        BY <1>2, <1>5, <4>1
    <3> QED
      BY <3>1, <3>2
  <2> QED
    BY <1>1, <1>8, <2>1, <2>2, <2>3 DEF Typed
<1>10. Ends'
  <2>1. \A q \in PlainReceivers : m_senders'[q] = IF q = r THEN m_senders[q] \cup {s} ELSE m_senders[q]
    BY <1>1, <1>8 DEF Typed
  <2>2. ASSUME NEW z \in Signals, z # s
        PROVE  /\ m_current_iterator'[z] \in {0} \cup P!ConnectionsOf(z)'
               /\ z \notin alive' => P!ConnectionsOf(z)' = {}
               /\ \A q \in PlainReceivers :
                    /\ z \in m_senders'[q] => P!NumbersOf(z, q)' # {}
                    /\ P!NumbersOf(z, q)' # {} => z \in m_senders'[q] \/ <<z, q>> \in twice'
                    /\ P!NumbersOf(z, q)' # {} => q \in alive' \/ <<z, q>> \in twice'
    BY <1>1, <1>7, <1>8, <2>1, <2>2 DEF Ends
  <2>3. /\ m_current_iterator'[s] \in {0} \cup P!ConnectionsOf(s)'
        /\ s \notin alive' => P!ConnectionsOf(s)' = {}
    BY <1>1, <1>5, <1>8 DEF Ends
  <2>4. ASSUME NEW q \in PlainReceivers
        PROVE  /\ s \in m_senders'[q] => P!NumbersOf(s, q)' # {}
               /\ P!NumbersOf(s, q)' # {} => s \in m_senders'[q] \/ <<s, q>> \in twice'
               /\ P!NumbersOf(s, q)' # {} => q \in alive' \/ <<s, q>> \in twice'
    BY <1>1, <1>6, <1>8, <2>1 DEF Ends
  <2> QED
    BY <2>2, <2>3, <2>4 DEF Ends
<1>11. Emissions'
  <2>1. ASSUME NEW z \in Signals PROVE Forward(z)
    <3>1. newest'[z] = (IF z = s THEN new ELSE newest[z]) /\ m_current_iterator'[z] = m_current_iterator[z]
      BY <1>1, <1>8 DEF Typed
    <3>2. newest[z] \in Nat /\ m_current_iterator[z] \in Nat
      BY <1>1, ListsOf
    <3>3. \A n \in P!ConnectionsOf(z)' : n \in P!ConnectionsOf(z) \/ n > newest[z]
      BY <1>2, <1>5, <1>7
    <3> QED
      BY <1>2, <3>1, <3>2, <3>3 DEF Forward
  <2>2. \A i \in DOMAIN emitting : emitting[i].signal \in alive' /\ emitting[i].signal \in Signals
    BY <1>8, StackIs
  <2> QED
    BY <1>8, <1>9, <2>1, <2>2, ForwardKeepsEmissions
<1> QED
  BY <1>9, <1>10, <1>11 DEF SlotInv

LEMMA DisconnectKeeps ==
  ASSUME SlotInv, NEW s \in Signals, NEW r \in PlainReceivers, P!Disconnect(s, r)
  PROVE  SlotInv'
<1> DEFINE those == P!NumbersOf(s, r)
           first == {n \in those : \A other \in those : n <= other}
<1>1. Typed /\ Ends
  BY DEF SlotInv
<1>2. those \subseteq P!ConnectionsOf(s) /\ first \subseteq those
  BY DEF P!NumbersOf
<1>3. /\ m_connected_slots' = [m_connected_slots EXCEPT ![s] = P!Kept(s, first)]
      /\ m_current_iterator' = [m_current_iterator EXCEPT ![s] = P!Moved(s, first)]
      /\ m_senders' = IF those = {} THEN m_senders ELSE [m_senders EXCEPT ![r] = @ \ {s}]
      /\ twice' = IF those = first THEN twice ELSE twice \cup {<<s, r>>}
      /\ UNCHANGED <<alive, emitting, newest>>
  BY DEF P!Disconnect
<1> HIDE DEF first, those
<1>4. /\ m_connected_slots'[s] = P!Kept(s, first) /\ m_current_iterator'[s] = P!Moved(s, first)
      /\ \A z \in Signals : z # s => m_connected_slots'[z] = m_connected_slots[z]
                                     /\ m_current_iterator'[z] = m_current_iterator[z]
  BY <1>1, <1>3 DEF Typed
<1>5. Forward(s) /\ m_current_iterator'[s] \in {0} \cup P!ConnectionsOf(s)'
  BY <1>1, <1>2, <1>3, <1>4, ErasingGoesForward
<1>6. P!ConnectionsOf(s)' = P!ConnectionsOf(s) \ first
      /\ \A q \in PlainReceivers : P!NumbersOf(s, q)' = P!NumbersOf(s, q) \ first
  BY <1>1, <1>4, NumbersKept
<1>7. \A z \in Signals : z # s => /\ P!ConnectionsOf(z)' = P!ConnectionsOf(z)
                                   /\ \A q \in PlainReceivers : P!NumbersOf(z, q)' = P!NumbersOf(z, q)
  BY <1>4 DEF P!ConnectionsOf, P!NumbersOf
<1>8. \A q \in PlainReceivers : m_senders'[q] = IF q = r /\ those # {} THEN m_senders[q] \ {s} ELSE m_senders[q]
  BY <1>1, <1>3 DEF Typed
<1>9. Typed'
  <2>1. m_connected_slots' \in [Signals -> UNION {[N -> PlainReceivers] : N \in SUBSET Nat}]
    BY <1>1, <1>3, KeptIs DEF Typed
  <2>2. m_senders' \in [PlainReceivers -> SUBSET Signals]
    BY <1>1, <1>3 DEF Typed
  <2>3. \A z \in Signals : P!ConnectionsOf(z)' \subseteq 1 .. newest'[z]
    BY <1>1, <1>3, <1>6, <1>7 DEF Typed
  <2>4. m_current_iterator' \in [Signals -> Nat]
    <3>1. P!Moved(s, first) \in Nat
      BY <1>1, <1>4, <1>5, <1>6, ListsOf
    <3> QED
      BY <1>1, <1>3, <3>1 DEF Typed
  <2> QED
    BY <1>1, <1>3, <2>1, <2>2, <2>3, <2>4 DEF Typed
<1>10. Ends'
  <2>1. ASSUME NEW z \in Signals, z # s
        PROVE  /\ m_current_iterator'[z] \in {0} \cup P!ConnectionsOf(z)'
               /\ z \notin alive' => P!ConnectionsOf(z)' = {}
               /\ \A q \in PlainReceivers :
                    /\ z \in m_senders'[q] => P!NumbersOf(z, q)' # {}
                    /\ P!NumbersOf(z, q)' # {} => z \in m_senders'[q] \/ <<z, q>> \in twice'
                    /\ P!NumbersOf(z, q)' # {} => q \in alive' \/ <<z, q>> \in twice'
    BY <1>1, <1>3, <1>4, <1>7, <1>8, <2>1 DEF Ends
  <2>2. /\ m_current_iterator'[s] \in {0} \cup P!ConnectionsOf(s)'
        /\ s \notin alive' => P!ConnectionsOf(s)' = {}
    BY <1>1, <1>3, <1>5, <1>6 DEF Ends
  <2>3. ASSUME NEW q \in PlainReceivers, q # r
        PROVE  /\ s \in m_senders'[q] => P!NumbersOf(s, q)' # {}
               /\ P!NumbersOf(s, q)' # {} => s \in m_senders'[q] \/ <<s, q>> \in twice'
               /\ P!NumbersOf(s, q)' # {} => q \in alive' \/ <<s, q>> \in twice'
    <3>1. P!NumbersOf(s, q)' = P!NumbersOf(s, q)
      <4>1. P!NumbersOf(s, q) \cap first = {}
        BY <1>2, <2>3 DEF P!NumbersOf, those
      <4> QED
        BY <1>6, <4>1
    <3> QED
      BY <1>1, <1>3, <1>8, <2>3, <3>1 DEF Ends
  <2>4. /\ s \in m_senders'[r] => P!NumbersOf(s, r)' # {}
        /\ P!NumbersOf(s, r)' # {} => s \in m_senders'[r] \/ <<s, r>> \in twice'
        /\ P!NumbersOf(s, r)' # {} => r \in alive' \/ <<s, r>> \in twice'
    <3>1. P!NumbersOf(s, r)' = those \ first
      BY <1>6 DEF those
    <3>2. CASE those = {}
      BY <1>1, <1>3, <1>8, <3>1, <3>2 DEF Ends, those
    <3>3. CASE those # {}
      <4>1. s \notin m_senders'[r]
        BY <1>8, <3>3
      <4>2. those \ first # {} => <<s, r>> \in twice'
        BY <1>2, <1>3
      <4> QED
        BY <3>1, <4>1, <4>2
    <3> QED
      BY <3>2, <3>3
  <2> QED
    BY <2>1, <2>2, <2>3, <2>4 DEF Ends
<1>11. Emissions'
  <2>1. ASSUME NEW z \in Signals PROVE Forward(z)
    <3>1. CASE z = s
      BY <1>5, <3>1
    <3>2. CASE z # s
      <4>1. newest[z] \in Nat /\ m_current_iterator[z] \in Nat
        BY <1>1, ListsOf
      <4> QED
        BY <1>3, <1>4, <1>7, <3>2, <4>1 DEF Forward
    <3> QED
      BY <3>1, <3>2
  <2>2. \A i \in DOMAIN emitting : emitting[i].signal \in alive' /\ emitting[i].signal \in Signals
    BY <1>3, StackIs
  <2> QED
    BY <1>3, <1>9, <2>1, <2>2, ForwardKeepsEmissions
<1> QED
  BY <1>9, <1>10, <1>11 DEF SlotInv

LEMMA DisconnectAllKeeps ==
  ASSUME SlotInv, Signals \cap PlainReceivers = {}, NEW s \in Signals, NEW dies \in BOOLEAN,
         P!DisconnectAll(s, dies)
  PROVE  SlotInv'
<1>1. Typed /\ Ends
  BY DEF SlotInv
<1>2. /\ alive' = IF dies THEN alive \ {s} ELSE alive
      /\ m_connected_slots' = [m_connected_slots EXCEPT ![s] = P!Kept(s, P!ConnectionsOf(s))]
      /\ m_current_iterator' = [m_current_iterator EXCEPT ![s] = 0]
      /\ m_senders' = [r \in PlainReceivers |-> IF P!NumbersOf(s, r) # {} THEN m_senders[r] \ {s} ELSE m_senders[r]]
      /\ UNCHANGED <<emitting, newest, twice>>
  BY DEF P!DisconnectAll
<1>3. /\ m_connected_slots'[s] = P!Kept(s, P!ConnectionsOf(s)) /\ m_current_iterator'[s] = 0
      /\ \A z \in Signals : z # s => m_connected_slots'[z] = m_connected_slots[z]
                                     /\ m_current_iterator'[z] = m_current_iterator[z]
  BY <1>1, <1>2 DEF Typed
<1>4. P!ConnectionsOf(s)' = {} /\ \A q \in PlainReceivers : P!NumbersOf(s, q)' = {}
  <2>1. P!ConnectionsOf(s)' = P!ConnectionsOf(s) \ P!ConnectionsOf(s)
    BY <1>1, <1>3, NumbersKept
  <2> QED
    BY <2>1 DEF P!NumbersOf
<1>5. \A z \in Signals : z # s => /\ P!ConnectionsOf(z)' = P!ConnectionsOf(z)
                                   /\ \A q \in PlainReceivers : P!NumbersOf(z, q)' = P!NumbersOf(z, q)
  BY <1>3 DEF P!ConnectionsOf, P!NumbersOf
<1>6. \A q \in PlainReceivers : m_senders'[q] = IF P!NumbersOf(s, q) # {} THEN m_senders[q] \ {s} ELSE m_senders[q]
  BY <1>2
<1>7. Typed'
  <2>1. m_connected_slots' \in [Signals -> UNION {[N -> PlainReceivers] : N \in SUBSET Nat}]
    BY <1>1, <1>2, KeptIs DEF Typed
  <2>2. m_senders' \in [PlainReceivers -> SUBSET Signals]
    BY <1>1, <1>2 DEF Typed
  <2>3. \A z \in Signals : P!ConnectionsOf(z)' \subseteq 1 .. newest'[z]
    BY <1>1, <1>2, <1>4, <1>5 DEF Typed
  <2>4. m_current_iterator' \in [Signals -> Nat] /\ alive' \subseteq Signals \cup PlainReceivers
    BY <1>1, <1>2 DEF Typed
  <2> QED
    BY <1>1, <1>2, <2>1, <2>2, <2>3, <2>4 DEF Typed
<1>8. Ends'
  <2>1. \A r \in PlainReceivers : r \in alive => r \in alive'
    BY <1>2
  <2>2. ASSUME NEW z \in Signals, z # s
        PROVE  /\ m_current_iterator'[z] \in {0} \cup P!ConnectionsOf(z)'
               /\ z \notin alive' => P!ConnectionsOf(z)' = {}
               /\ \A q \in PlainReceivers :
                    /\ z \in m_senders'[q] => P!NumbersOf(z, q)' # {}
                    /\ P!NumbersOf(z, q)' # {} => z \in m_senders'[q] \/ <<z, q>> \in twice'
                    /\ P!NumbersOf(z, q)' # {} => q \in alive' \/ <<z, q>> \in twice'
    BY <1>1, <1>2, <1>3, <1>5, <1>6, <2>1, <2>2 DEF Ends
  <2>3. \A q \in PlainReceivers : s \notin m_senders'[q]
    BY <1>1, <1>6 DEF Ends
  <2> QED
    BY <1>3, <1>4, <2>2, <2>3 DEF Ends
<1>9. Emissions'
  <2>1. ASSUME NEW z \in Signals PROVE Forward(z)
    <3>1. newest[z] \in Nat /\ m_current_iterator[z] \in Nat /\ newest'[z] = newest[z]
      BY <1>1, <1>2, ListsOf
    <3>2. CASE z = s
      BY <1>3, <1>4, <3>1, <3>2 DEF Forward
    <3>3. CASE z # s
      BY <1>3, <1>5, <3>1, <3>3 DEF Forward
    <3> QED
      BY <3>2, <3>3
  <2>2. ASSUME NEW i \in DOMAIN emitting PROVE emitting[i].signal \in alive' /\ emitting[i].signal \in Signals
    <3>1. dies => emitting[i].signal # s
      BY DEF P!DisconnectAll
    <3> QED
      BY <1>2, <3>1, StackIs
  <2> QED
    BY <1>2, <1>7, <2>1, <2>2, ForwardKeepsEmissions
<1> QED
  BY <1>7, <1>8, <1>9 DEF SlotInv

LEMMA DisconnectReceiverKeeps ==
  ASSUME SlotInv, Signals \cap PlainReceivers = {}, NEW r \in PlainReceivers, NEW dies \in BOOLEAN,
         P!DisconnectReceiver(r, dies)
  PROVE  SlotInv'
<1> DEFINE gone(z) == P!do_slot_disconnect(z, r)
<1>1. Typed /\ Ends
  BY DEF SlotInv
<1>2. /\ alive' = IF dies THEN alive \ {r} ELSE alive
      /\ m_connected_slots' = [z \in Signals |-> P!Kept(z, gone(z))]
      /\ m_current_iterator' = [z \in Signals |-> P!Moved(z, gone(z))]
      /\ m_senders' = [m_senders EXCEPT ![r] = {}]
      /\ UNCHANGED <<emitting, newest, twice>>
  BY DEF P!DisconnectReceiver
<1>3. \A z \in Signals : /\ gone(z) = IF z \in m_senders[r] THEN P!NumbersOf(z, r) ELSE {}
                         /\ gone(z) \subseteq P!ConnectionsOf(z)
  BY DEF P!do_slot_disconnect, P!NumbersOf
<1> HIDE DEF gone
<1>4. \A z \in Signals : m_connected_slots'[z] = P!Kept(z, gone(z)) /\ m_current_iterator'[z] = P!Moved(z, gone(z))
  BY <1>2
<1>5. ASSUME NEW z \in Signals
      PROVE  /\ Forward(z) /\ m_current_iterator'[z] \in {0} \cup P!ConnectionsOf(z)'
             /\ P!ConnectionsOf(z)' = P!ConnectionsOf(z) \ gone(z)
             /\ \A q \in PlainReceivers : P!NumbersOf(z, q)' = P!NumbersOf(z, q) \ gone(z)
  <2>1. m_connected_slots'[z] = P!Kept(z, gone(z)) /\ m_current_iterator'[z] = P!Moved(z, gone(z))
    BY <1>4
  <2>2. Forward(z) /\ m_current_iterator'[z] \in {0} \cup P!ConnectionsOf(z)'
    BY <1>1, <1>2, <1>3, <2>1, ErasingGoesForward
  <2> QED
    BY <1>1, <2>1, <2>2, NumbersKept
<1>6. \A q \in PlainReceivers : m_senders'[q] = IF q = r THEN {} ELSE m_senders[q]
  BY <1>1, <1>2 DEF Typed
<1>7. Typed'
  <2>1. m_connected_slots' \in [Signals -> UNION {[N -> PlainReceivers] : N \in SUBSET Nat}]
    BY <1>1, <1>2, KeptIs
  <2>2. m_senders' \in [PlainReceivers -> SUBSET Signals]
    BY <1>1, <1>2 DEF Typed
  <2>3. \A z \in Signals : P!ConnectionsOf(z)' \subseteq 1 .. newest'[z]
    BY <1>1, <1>2, <1>5 DEF Typed
  <2>4. \A z \in Signals : P!Moved(z, gone(z)) \in Nat
    BY <1>1, <1>4, <1>5, ListsOf
  <2>5. m_current_iterator' \in [Signals -> Nat] /\ alive' \subseteq Signals \cup PlainReceivers
    BY <1>1, <1>2, <2>4 DEF Typed
  <2> QED
    BY <1>1, <1>2, <2>1, <2>2, <2>3, <2>5 DEF Typed
<1>8. Ends'
  <2>1. ASSUME NEW z \in Signals, z \notin alive' PROVE P!ConnectionsOf(z)' = {}
    <3>1. z \notin alive
      BY <1>2, <2>1
    <3> QED
      BY <1>1, <1>5, <3>1 DEF Ends
  <2>2. ASSUME NEW z \in Signals, NEW q \in PlainReceivers
        PROVE  /\ z \in m_senders'[q] => P!NumbersOf(z, q)' # {}
               /\ P!NumbersOf(z, q)' # {} => z \in m_senders'[q] \/ <<z, q>> \in twice'
               /\ P!NumbersOf(z, q)' # {} => q \in alive' \/ <<z, q>> \in twice'
    <3>1. P!NumbersOf(z, q)' = P!NumbersOf(z, q) \ gone(z)
      BY <1>5
    <3>2. CASE q = r
      <4>1. CASE z \in m_senders[r]
        <5>1. P!NumbersOf(z, q)' = {}
          BY <1>3, <3>1, <3>2, <4>1
        <5> QED
          BY <1>6, <3>2, <5>1
      <4>2. CASE z \notin m_senders[r]
        <5>1. P!NumbersOf(z, q) # {} => <<z, q>> \in twice
          BY <1>1, <3>2, <4>2 DEF Ends
        <5> QED
          BY <1>2, <1>6, <3>1, <3>2, <5>1
      <4> QED
        BY <4>1, <4>2
    <3>3. CASE q # r
      <4>1. P!NumbersOf(z, q)' = P!NumbersOf(z, q)
        <5>1. gone(z) \cap P!NumbersOf(z, q) = {}
          BY <1>3, <3>3 DEF P!NumbersOf
        <5> QED
          BY <3>1, <5>1
      <4> QED
        BY <1>1, <1>2, <1>6, <3>3, <4>1 DEF Ends
    <3> QED
      BY <3>2, <3>3
  <2> QED
    BY <1>5, <2>1, <2>2 DEF Ends
<1>9. Emissions'
  <2>1. ASSUME NEW i \in DOMAIN emitting PROVE emitting[i].signal \in alive' /\ Forward(emitting[i].signal)
    BY <1>2, <1>5, StackIs
  <2> QED
    BY <1>2, <1>7, <2>1, ForwardKeepsEmissions
<1> QED
  BY <1>7, <1>8, <1>9 DEF SlotInv

(* The numbers made for a copy are new.                                    *)
LEMMA CountedAlike ==
  ASSUME NEW S
  PROVE  P!Cardinality(S) = Cardinality(S)
BY DEF P!Cardinality, Cardinality

LEMMA DuplicateIs ==
  ASSUME SlotInv, NEW s \in Signals, NEW r \in PlainReceivers
  PROVE  /\ P!do_slot_duplicate(s, r) \in SUBSET Nat
         /\ Cardinality(P!do_slot_duplicate(s, r)) \in Nat
         /\ P!do_slot_duplicate(s, r) \subseteq newest[s] + 1 .. newest[s] + Cardinality(P!do_slot_duplicate(s, r))
         /\ s \in m_senders[r] => P!do_slot_duplicate(s, r) # {}
         /\ s \notin m_senders[r] => P!do_slot_duplicate(s, r) = {}
<1> DEFINE those == P!NumbersOf(s, r)
           c == Cardinality(those)
<1>1. Typed /\ Ends /\ newest[s] \in Nat
  BY ListsOf DEF SlotInv
<1>2. those \subseteq 1 .. newest[s]
  BY <1>1 DEF Typed, P!NumbersOf
<1>3. IsFiniteSet(those) /\ c \in Nat
  <2>1. IsFiniteSet(1 .. newest[s])
    <3>1. 1 \in Int /\ newest[s] \in Int
      BY <1>1
    <3> QED
      BY <3>1, FS_Interval
  <2>2. IsFiniteSet(those)
    BY <1>2, <2>1, FS_Subset
  <2> QED
    BY <2>2, FS_CardinalityType
<1>4. CASE s \notin m_senders[r]
  <2>1. P!do_slot_duplicate(s, r) = {}
    BY <1>4 DEF P!do_slot_duplicate
  <2> QED
    BY <1>1, <1>4, <2>1, FS_EmptySet
<1>5. CASE s \in m_senders[r]
  <2>1. P!do_slot_duplicate(s, r) = newest[s] + 1 .. newest[s] + c
    BY <1>5, CountedAlike DEF P!do_slot_duplicate
  <2>2. those # {}
    BY <1>1, <1>5 DEF Ends
  <2>3. c # 0
    BY <1>3, <2>2, FS_EmptySet
  <2> HIDE DEF c
  <2>4. Cardinality(newest[s] + 1 .. newest[s] + c) = c
    <3>1. newest[s] + 1 \in Int /\ newest[s] + c \in Int /\ newest[s] + 1 <= newest[s] + c
      BY <1>1, <1>3, <2>3
    <3>2. Cardinality(newest[s] + 1 .. newest[s] + c) = (newest[s] + c) - (newest[s] + 1) + 1
      BY <3>1, FS_Interval
    <3> QED
      BY <1>1, <1>3, <3>2
  <2>5. /\ newest[s] + 1 .. newest[s] + c \in SUBSET Nat
        /\ newest[s] + 1 \in newest[s] + 1 .. newest[s] + c
    BY <1>1, <1>3, <2>3
  <2> QED
    BY <1>3, <1>5, <2>1, <2>4, <2>5
<1> QED
  BY <1>4, <1>5

LEMMA CopyReceiverKeeps ==
  ASSUME SlotInv, Signals \cap PlainReceivers = {}, NEW r \in PlainReceivers, NEW copy \in PlainReceivers,
         P!CopyReceiver(r, copy)
  PROVE  SlotInv'
<1> DEFINE more(z) == P!do_slot_duplicate(z, r)
<1>1. Typed /\ Ends /\ r \in alive /\ copy \notin alive
  BY DEF SlotInv, P!CopyReceiver
<1>2. /\ alive' = alive \cup {copy}
      /\ m_connected_slots' = [z \in Signals |-> P!Extended(z, more(z), copy)]
      /\ newest' = [z \in Signals |-> newest[z] + Cardinality(more(z))]
      /\ m_senders' = [m_senders EXCEPT ![copy] = m_senders[r]]
      /\ UNCHANGED <<m_current_iterator, emitting, twice>>
      /\ \A z \in Signals : P!NumbersOf(z, copy) = {}
  BY CountedAlike DEF P!CopyReceiver
<1>3. \A z \in Signals :
        /\ more(z) \in SUBSET Nat /\ Cardinality(more(z)) \in Nat
        /\ more(z) \subseteq newest[z] + 1 .. newest[z] + Cardinality(more(z))
        /\ z \in m_senders[r] => more(z) # {}
        /\ z \notin m_senders[r] => more(z) = {}
  BY DuplicateIs
<1> HIDE DEF more
<1>4. ASSUME NEW z \in Signals
      PROVE  /\ newest[z] \in Nat /\ m_current_iterator[z] \in Nat
             /\ newest'[z] = newest[z] + Cardinality(more(z)) /\ \A n \in more(z) : n > newest[z]
             /\ P!ConnectionsOf(z)' = P!ConnectionsOf(z) \cup more(z)
             /\ \A q \in PlainReceivers : P!NumbersOf(z, q)' = P!NumbersOf(z, q) \cup IF q = copy THEN more(z) ELSE {}
  <2>1. newest[z] \in Nat /\ m_current_iterator[z] \in Nat
    BY <1>1, ListsOf
  <2>2. \A n \in more(z) : n > newest[z]
    BY <1>3, <2>1
  <2>3. m_connected_slots'[z] = P!Extended(z, more(z), copy) /\ newest'[z] = newest[z] + Cardinality(more(z))
    BY <1>2
  <2>4. P!ConnectionsOf(z)' = P!ConnectionsOf(z) \cup more(z)
    BY <1>1, <1>3, <2>2, <2>3, NumbersExtended
  <2>5. \A q \in PlainReceivers : P!NumbersOf(z, q)' = P!NumbersOf(z, q) \cup IF q = copy THEN more(z) ELSE {}
    BY <1>1, <1>3, <2>2, <2>3, NumbersExtended
  <2> QED
    BY <2>1, <2>2, <2>3, <2>4, <2>5
<1>5. \A q \in PlainReceivers : m_senders'[q] = IF q = copy THEN m_senders[r] ELSE m_senders[q]
  BY <1>1, <1>2 DEF Typed
<1>6. Typed'
  <2>1. m_connected_slots' \in [Signals -> UNION {[N -> PlainReceivers] : N \in SUBSET Nat}]
    <3>1. ASSUME NEW z \in Signals
          PROVE  P!Extended(z, more(z), copy) \in UNION {[N -> PlainReceivers] : N \in SUBSET Nat}
      <4>1. more(z) \in SUBSET Nat
        BY <1>3
      <4> QED
        BY <1>1, <4>1, ExtendedIs
    <3> QED
      BY <1>2, <3>1
  <2>2. newest' \in [Signals -> Nat] /\ m_senders' \in [PlainReceivers -> SUBSET Signals]
    <3>1. \A z \in Signals : newest[z] + Cardinality(more(z)) \in Nat
      BY <1>3, <1>4
    <3> QED
      BY <1>1, <1>2, <3>1 DEF Typed
  <2>3. ASSUME NEW z \in Signals PROVE P!ConnectionsOf(z)' \subseteq 1 .. newest'[z]
    <3>1. P!ConnectionsOf(z) \subseteq 1 .. newest[z]
      BY <1>1 DEF Typed
    <3> QED
      BY <1>3, <1>4, <3>1
  <2> QED
    BY <1>1, <1>2, <2>1, <2>2, <2>3 DEF Typed
<1>7. Ends'
  <2>1. ASSUME NEW z \in Signals, NEW q \in PlainReceivers
        PROVE  /\ z \in m_senders'[q] => P!NumbersOf(z, q)' # {}
               /\ P!NumbersOf(z, q)' # {} => z \in m_senders'[q] \/ <<z, q>> \in twice'
               /\ P!NumbersOf(z, q)' # {} => q \in alive' \/ <<z, q>> \in twice'
    <3>1. CASE q = copy
      <4>1. P!NumbersOf(z, q)' = more(z)
        BY <1>2, <1>4, <3>1
      <4> QED
        BY <1>2, <1>3, <1>5, <3>1, <4>1
    <3>2. CASE q # copy
      <4>1. P!NumbersOf(z, q)' = P!NumbersOf(z, q)
        BY <1>4, <3>2
      <4> QED
        BY <1>1, <1>2, <1>5, <3>2, <4>1 DEF Ends
    <3> QED
      BY <3>1, <3>2
  <2>2. ASSUME NEW z \in Signals
        PROVE  m_current_iterator'[z] \in {0} \cup P!ConnectionsOf(z)'
    BY <1>1, <1>2, <1>4 DEF Ends
  <2>3. ASSUME NEW z \in Signals, z \notin alive' PROVE P!ConnectionsOf(z)' = {}
    <3>1. P!ConnectionsOf(z) = {} /\ P!NumbersOf(z, r) = {}
      BY <1>1, <1>2, <2>3 DEF Ends, P!NumbersOf
    <3>2. z \notin m_senders[r]
      BY <1>1, <3>1 DEF Ends
    <3> QED
      BY <1>3, <1>4, <3>1, <3>2
  <2> QED
    BY <2>1, <2>2, <2>3 DEF Ends
<1>8. Emissions'
  <2>1. ASSUME NEW z \in Signals PROVE Forward(z)
    <3>1. m_current_iterator'[z] = m_current_iterator[z] /\ newest[z] <= newest'[z]
      BY <1>2, <1>3, <1>4
    <3>2. \A n \in P!ConnectionsOf(z)' : n \in P!ConnectionsOf(z) \/ n > newest[z]
      BY <1>4
    <3> QED
      BY <1>4, <3>1, <3>2 DEF Forward
  <2>2. \A i \in DOMAIN emitting : emitting[i].signal \in alive' /\ emitting[i].signal \in Signals
    BY <1>2, StackIs
  <2> QED
    BY <1>2, <1>6, <2>1, <2>2, ForwardKeepsEmissions
<1> QED
  BY <1>6, <1>7, <1>8 DEF SlotInv

(* A copy of a signal has none of the emissions in progress.               *)
LEMMA CopySignalKeeps ==
  ASSUME SlotInv, Signals \cap PlainReceivers = {}, NEW s \in Signals, NEW copy \in Signals,
         P!CopySignal(s, copy)
  PROVE  SlotInv'
<1>1. Typed /\ Ends /\ s \in alive /\ copy \notin alive /\ s # copy
  BY DEF SlotInv, P!CopySignal
<1>2. /\ alive' = alive \cup {copy}
      /\ m_connected_slots' = [m_connected_slots EXCEPT ![copy] = m_connected_slots[s]]
      /\ m_current_iterator' = [m_current_iterator EXCEPT ![copy] = 0]
      /\ m_senders' = [r \in PlainReceivers |-> IF P!NumbersOf(s, r) # {} THEN m_senders[r] \cup {copy} ELSE m_senders[r]]
      /\ newest' = [newest EXCEPT ![copy] = newest[s]]
      /\ UNCHANGED <<emitting, twice>>
      /\ \A n \in P!ConnectionsOf(s) : m_connected_slots[s][n] \in alive
  BY DEF P!CopySignal
<1>3. /\ m_connected_slots'[copy] = m_connected_slots[s] /\ m_current_iterator'[copy] = 0
      /\ newest'[copy] = newest[s]
      /\ \A z \in Signals : z # copy => /\ m_connected_slots'[z] = m_connected_slots[z]
                                        /\ m_current_iterator'[z] = m_current_iterator[z]
                                        /\ newest'[z] = newest[z]
  BY <1>1, <1>2 DEF Typed
<1>4. P!ConnectionsOf(copy)' = P!ConnectionsOf(s) /\ \A q \in PlainReceivers : P!NumbersOf(copy, q)' = P!NumbersOf(s, q)
  BY <1>3 DEF P!ConnectionsOf, P!NumbersOf
<1>5. \A z \in Signals : z # copy => /\ P!ConnectionsOf(z)' = P!ConnectionsOf(z)
                                      /\ \A q \in PlainReceivers : P!NumbersOf(z, q)' = P!NumbersOf(z, q)
  BY <1>3 DEF P!ConnectionsOf, P!NumbersOf
<1>6. \A q \in PlainReceivers : m_senders'[q] = IF P!NumbersOf(s, q) # {} THEN m_senders[q] \cup {copy} ELSE m_senders[q]
  BY <1>2
<1>7. P!ConnectionsOf(copy) = {}
  BY <1>1 DEF Ends
<1>8. Typed'
  <2>1. m_connected_slots' \in [Signals -> UNION {[N -> PlainReceivers] : N \in SUBSET Nat}]
    BY <1>1, <1>2 DEF Typed
  <2>2. m_senders' \in [PlainReceivers -> SUBSET Signals]
    BY <1>1, <1>2 DEF Typed
  <2>3. \A z \in Signals : P!ConnectionsOf(z)' \subseteq 1 .. newest'[z]
    BY <1>1, <1>3, <1>4, <1>5 DEF Typed
  <2>4. m_current_iterator' \in [Signals -> Nat] /\ newest' \in [Signals -> Nat]
        /\ alive' \subseteq Signals \cup PlainReceivers
    BY <1>1, <1>2 DEF Typed
  <2> QED
    BY <1>1, <1>2, <2>1, <2>2, <2>3, <2>4 DEF Typed
<1>9. Ends'
  <2>1. ASSUME NEW z \in Signals, z # copy, NEW q \in PlainReceivers
        PROVE  /\ z \in m_senders'[q] => P!NumbersOf(z, q)' # {}
               /\ P!NumbersOf(z, q)' # {} => z \in m_senders'[q] \/ <<z, q>> \in twice'
               /\ P!NumbersOf(z, q)' # {} => q \in alive' \/ <<z, q>> \in twice'
    BY <1>1, <1>2, <1>5, <1>6, <2>1 DEF Ends
  <2>2. ASSUME NEW q \in PlainReceivers
        PROVE  /\ copy \in m_senders'[q] => P!NumbersOf(copy, q)' # {}
               /\ P!NumbersOf(copy, q)' # {} => copy \in m_senders'[q] \/ <<copy, q>> \in twice'
               /\ P!NumbersOf(copy, q)' # {} => q \in alive' \/ <<copy, q>> \in twice'
    <3>1. P!NumbersOf(copy, q) = {}
      BY <1>7 DEF P!NumbersOf
    <3>2. copy \notin m_senders[q]
      BY <1>1, <3>1 DEF Ends
    <3>3. P!NumbersOf(s, q) # {} => q \in alive
      BY <1>2 DEF P!NumbersOf
    <3> QED
      BY <1>2, <1>4, <1>6, <3>2, <3>3
  <2>3. ASSUME NEW z \in Signals
        PROVE  /\ m_current_iterator'[z] \in {0} \cup P!ConnectionsOf(z)'
               /\ z \notin alive' => P!ConnectionsOf(z)' = {}
    BY <1>1, <1>2, <1>3, <1>5 DEF Ends
  <2> QED
    BY <2>1, <2>2, <2>3 DEF Ends
<1>10. Emissions'
  <2>1. ASSUME NEW z \in Signals, z # copy PROVE Forward(z)
    <3>1. newest[z] \in Nat /\ m_current_iterator[z] \in Nat
      BY <1>1, ListsOf
    <3> QED
      BY <1>3, <1>5, <2>1, <3>1 DEF Forward
  <2>2. \A i \in DOMAIN emitting : /\ emitting[i].signal \in alive' /\ emitting[i].signal \in Signals
                              /\ emitting[i].signal # copy
    BY <1>1, <1>2, StackIs
  <2> QED
    BY <1>2, <1>8, <2>1, <2>2, ForwardKeepsEmissions
<1> QED
  BY <1>8, <1>9, <1>10 DEF SlotInv

(* The lists are as they were.                                             *)
LEMMA SameLists ==
  ASSUME UNCHANGED m_connected_slots
  PROVE  \A s : P!ConnectionsOf(s)' = P!ConnectionsOf(s) /\ \A r : P!NumbersOf(s, r)' = P!NumbersOf(s, r)
BY DEF P!ConnectionsOf, P!NumbersOf

(* Only the iterator of s has moved, to a connection or to the end.        *)
LEMMA IteratorMoves ==
  ASSUME Typed, Ends, NEW s \in Signals, NEW n \in {0} \cup P!ConnectionsOf(s),
         m_current_iterator' = [m_current_iterator EXCEPT ![s] = n], emitting' \in Seq(Emission),
         UNCHANGED <<alive, m_connected_slots, m_senders, newest, twice>>
  PROVE  /\ Typed' /\ Ends'
         /\ m_current_iterator'[s] = n
         /\ \A z \in Signals : z # s => m_current_iterator'[z] = m_current_iterator[z]
<1>1. \A z : P!ConnectionsOf(z)' = P!ConnectionsOf(z) /\ \A r : P!NumbersOf(z, r)' = P!NumbersOf(z, r)
  BY SameLists
<1>2. n \in Nat
  BY ListsOf
<1>3. m_current_iterator'[s] = n /\ \A z \in Signals : z # s => m_current_iterator'[z] = m_current_iterator[z]
  BY DEF Typed
<1>4. Typed'
  BY <1>1, <1>2 DEF Typed
<1>5. Ends'
  BY <1>1, <1>3 DEF Ends
<1> QED
  BY <1>3, <1>4, <1>5

(* The emissions of the next state, one by one.                            *)
LEMMA EmissionsNext ==
  ASSUME \A i \in DOMAIN emitting' : \A f : f = emitting'[i] =>
           /\ f.signal \in alive'
           /\ ~f.broken => /\ Calls(f)'
                          /\ \A j \in DOMAIN emitting' : i < j => emitting'[j].signal # f.signal
  PROVE  Emissions'
BY DEF Emissions, Calls

LEMMA EmitKeeps ==
  ASSUME SlotInv, NEW s \in Signals, P!Emit(s)
  PROVE  SlotInv'
<1> DEFINE first == P!From(P!ConnectionsOf(s), 0)
           old == [i \in DOMAIN emitting |-> [emitting[i] EXCEPT !.broken = @ \/ emitting[i].signal = s]]
           e == [signal |-> s, calling |-> FALSE, calls |-> << >>, broken |-> FALSE,
                 began |-> P!ConnectionsOf(s), last |-> newest[s]]
<1>1. Typed /\ Ends /\ s \in alive /\ emitting \in Seq(Emission)
  BY DEF SlotInv, P!Emit, Typed
<1>2. /\ m_current_iterator' = [m_current_iterator EXCEPT ![s] = first]
      /\ emitting' = Append(old, e)
      /\ UNCHANGED <<alive, m_connected_slots, m_senders, newest, twice>>
  BY DEF P!Emit
<1>3. P!ConnectionsOf(s) \subseteq Nat \ {0} /\ newest[s] \in Nat /\ P!ConnectionsOf(s) \subseteq 1 .. newest[s]
  BY <1>1, ListsOf DEF Typed
<1>4. /\ first \in {0} \cup P!ConnectionsOf(s) /\ first \in Nat
      /\ \A n \in P!ConnectionsOf(s) : first # 0 /\ first <= n
  <2>1. \/ first = 0 /\ \A m \in P!ConnectionsOf(s) : m < 0
        \/ first \in P!ConnectionsOf(s) /\ 0 <= first /\ \A m \in P!ConnectionsOf(s) : 0 <= m => first <= m
    BY <1>3, FromIsFirst
  <2> HIDE DEF first
  <2> QED
    BY <1>3, <2>1
<1>5. e \in Emission
  BY <1>3 DEF Emission
<1>6. \A i \in DOMAIN emitting : /\ old[i] = [emitting[i] EXCEPT !.broken = emitting[i].broken \/ emitting[i].signal = s]
                              /\ emitting[i] \in Emission
  BY <1>1
<1>7. \A i \in DOMAIN emitting :
        /\ old[i] \in Emission /\ old[i].signal = emitting[i].signal /\ emitting[i].signal \in Signals
        /\ ~old[i].broken => old[i] = emitting[i] /\ emitting[i].signal # s
  <2>1. ASSUME NEW f \in Emission
        PROVE  LET g == [f EXCEPT !.broken = f.broken \/ f.signal = s]
               IN  /\ g \in Emission /\ g.signal = f.signal /\ f.signal \in Signals
                   /\ ~g.broken => g = f /\ f.signal # s
    BY DEF Emission
  <2> QED
    BY <1>6, <2>1
<1> HIDE DEF old, e, first
<1>8. old \in Seq(Emission) /\ Len(old) = Len(emitting) /\ DOMAIN old = DOMAIN emitting
  <2>1. DOMAIN emitting = 1 .. Len(emitting) /\ Len(emitting) \in Nat
    BY <1>1
  <2>2. DOMAIN old = 1 .. Len(emitting)
    BY <2>1 DEF old
  <2>3. old = [i \in 1 .. Len(emitting) |-> old[i]]
    BY <2>1 DEF old
  <2>4. old \in [1 .. Len(emitting) -> Emission]
    BY <1>7, <2>1, <2>3
  <2> QED
    BY <2>1, <2>2, <2>4
<1>9. /\ emitting' \in Seq(Emission) /\ DOMAIN emitting' = 1 .. Len(emitting) + 1
      /\ emitting'[Len(emitting) + 1] = e /\ \A i \in DOMAIN emitting : emitting'[i] = old[i]
      /\ DOMAIN emitting = 1 .. Len(emitting) /\ Len(emitting) \in Nat
  BY <1>1, <1>2, <1>5, <1>8
<1>10. /\ Typed' /\ Ends'
       /\ m_current_iterator'[s] = first
       /\ \A z \in Signals : z # s => m_current_iterator'[z] = m_current_iterator[z]
  BY <1>1, <1>2, <1>4, <1>9, IteratorMoves
<1>11. \A z : P!ConnectionsOf(z)' = P!ConnectionsOf(z)
  BY <1>2, SameLists
<1>12. ASSUME NEW f, f = e PROVE Calls(f)'
  <2>1. /\ f.signal = s /\ f.calls = << >> /\ f.began = P!ConnectionsOf(s) /\ f.last = newest[s]
        /\ P!ConnectionsOf(s)' = P!ConnectionsOf(s) /\ newest'[s] = newest[s]
    BY <1>2, <1>11, <1>12 DEF e
  <2> QED
    BY <1>3, <1>4, <1>10, <2>1 DEF Calls
<1>13. ASSUME NEW f \in Emission, Calls(f), f.signal # s PROVE Calls(f)'
  <2> DEFINE z == f.signal
  <2>1. z \in Signals
    BY DEF Emission
  <2>2. newest[z] \in Nat /\ m_current_iterator[z] \in Nat
    BY <1>1, <2>1, ListsOf
  <2>3. Forward(z)
    BY <1>2, <1>10, <1>11, <1>13, <2>1, <2>2 DEF Forward
  <2> QED
    BY <1>1, <1>10, <1>13, <2>3, ForwardKeepsCalls
<1>14. ASSUME NEW i \in DOMAIN emitting', NEW f, f = emitting'[i]
       PROVE  /\ f.signal \in alive'
              /\ ~f.broken => /\ Calls(f)'
                             /\ \A j \in DOMAIN emitting' : i < j => emitting'[j].signal # f.signal
  <2>1. CASE i = Len(emitting) + 1
    <3>1. f = e
      BY <1>9, <1>14, <2>1
    <3>2. f.signal = s /\ Calls(f)' /\ \A j \in DOMAIN emitting' : ~(i < j)
      BY <1>9, <1>12, <2>1, <3>1 DEF e
    <3> QED
      BY <1>1, <1>2, <3>2
  <2>2. CASE i # Len(emitting) + 1
    <3>1. i \in DOMAIN emitting /\ f = old[i]
      BY <1>9, <1>14, <2>2
    <3>2. f.signal = emitting[i].signal /\ emitting[i].signal \in alive'
      BY <1>2, <1>7, <3>1, StackIs
    <3>3. ASSUME ~f.broken
          PROVE  Calls(f)' /\ \A j \in DOMAIN emitting' : i < j => emitting'[j].signal # f.signal
      <4>1. f = emitting[i] /\ f.signal # s /\ ~emitting[i].broken
        BY <1>7, <3>1, <3>3
      <4>2. Calls(emitting[i]) /\ \A j \in DOMAIN emitting : i < j => emitting[j].signal # emitting[i].signal
        BY <3>1, <4>1 DEF SlotInv, Emissions
      <4>3. Calls(f)'
        BY <1>6, <1>13, <3>1, <4>1, <4>2
      <4>4. ASSUME NEW j \in DOMAIN emitting', i < j PROVE emitting'[j].signal # f.signal
        <5>1. CASE j = Len(emitting) + 1
          BY <1>9, <4>1, <5>1 DEF e
        <5>2. CASE j # Len(emitting) + 1
          <6>1. j \in DOMAIN emitting
            BY <1>9, <5>2
          <6> QED
            BY <1>7, <1>9, <4>1, <4>2, <4>4, <6>1
        <5> QED
          BY <5>1, <5>2
      <4> QED
        BY <4>3, <4>4
    <3> QED
      BY <3>2, <3>3
  <2> QED
    BY <2>1, <2>2
<1> QED
  BY <1>10, <1>14, EmissionsNext DEF SlotInv

(* Only the top of the stack is another, of the same signal.               *)
LEMMA CallNextKeeps ==
  ASSUME SlotInv, P!CallNext
  PROVE  SlotInv'
<1> DEFINE top == Len(emitting)
<1>1. Typed /\ Ends /\ emitting \in Seq(Emission)
  BY DEF SlotInv, Typed
<1>2. /\ top \in Nat /\ top >= 1 /\ DOMAIN emitting = 1 .. top /\ top \in DOMAIN emitting
      /\ P!Last(emitting) = emitting[top]
  BY <1>1 DEF P!CallNext, P!Last
<1> DEFINE n == m_current_iterator[emitting[top].signal]
<1>3. PICK e \in Emission, s \in Signals, it \in Nat \ {0}, new \in Nat :
        /\ e = emitting[top] /\ s = e.signal /\ it = m_current_iterator[s] /\ s \in alive
        /\ new = P!From(P!ConnectionsOf(s), it + 1) /\ new \in {0} \cup P!ConnectionsOf(s)
        /\ \A m \in P!ConnectionsOf(s) : it < m => new # 0 /\ new <= m
        /\ new # 0 => it < new
  <2> DEFINE s == emitting[top].signal
             new == P!From(P!ConnectionsOf(s), n + 1)
  <2>1. emitting[top] \in Emission /\ s \in Signals /\ s \in alive
    BY <1>2, StackIs
  <2>2. n \in Nat \ {0} /\ P!ConnectionsOf(s) \subseteq Nat \ {0}
    BY <1>1, <1>2, <2>1, ListsOf DEF P!CallNext
  <2>3. /\ new \in {0} \cup P!ConnectionsOf(s)
        /\ \A m \in P!ConnectionsOf(s) : n < m => new # 0 /\ new <= m
        /\ new # 0 => n < new
    <3> DEFINE N == P!ConnectionsOf(s)
    <3> HIDE DEF n, N
    <3>1. N \subseteq Nat \ {0} /\ n + 1 \in Nat /\ n \in Nat
      BY <2>2 DEF N
    <3>2. \/ P!From(N, n + 1) = 0 /\ \A m \in N : m < n + 1
          \/ P!From(N, n + 1) \in N /\ n + 1 <= P!From(N, n + 1) /\ \A m \in N : n + 1 <= m => P!From(N, n + 1) <= m
      BY <3>1, FromIsFirst
    <3>3. /\ P!From(N, n + 1) \in {0} \cup N
          /\ \A m \in N : n < m => P!From(N, n + 1) # 0 /\ P!From(N, n + 1) <= m
          /\ P!From(N, n + 1) # 0 => n < P!From(N, n + 1)
      <4> DEFINE F == P!From(N, n + 1)
      <4> HIDE DEF F
      <4>1. \A m \in N : m \in Nat /\ (n < m => n + 1 <= m /\ ~(m < n + 1))
        BY <3>1
      <4>2. CASE F = 0 /\ \A m \in N : m < n + 1
        BY <3>1, <4>1, <4>2 DEF F
      <4>3. CASE F \in N /\ n + 1 <= F /\ \A m \in N : n + 1 <= m => F <= m
        <5>1. F # 0 /\ n < F
          BY <3>1, <4>3
        <5> QED
          BY <4>1, <4>3, <5>1 DEF F
      <4> QED
        BY <3>2, <4>2, <4>3 DEF F
    <3> QED
      BY <3>3 DEF N, n
  <2> QED
    BY <2>1, <2>2, <2>3
<1>4. /\ m_current_iterator' = [m_current_iterator EXCEPT ![s] = new]
      /\ emitting' = [emitting EXCEPT ![top].calling = TRUE, ![top].calls = Append(@, it)]
      /\ UNCHANGED <<alive, m_connected_slots, m_senders, newest, twice>>
  BY <1>2, <1>3 DEF P!CallNext
<1>5. e.calls \in Seq(Nat)
  BY DEF Emission
<1>6. PICK f \in Emission :
        /\ f.signal = e.signal /\ f.calls = Append(e.calls, it) /\ f.broken = e.broken
        /\ f.began = e.began /\ f.last = e.last
        /\ emitting' = [emitting EXCEPT ![top] = f]
  <2> DEFINE f == [e EXCEPT !.calling = TRUE, !.calls = Append(e.calls, it)]
  <2>1. f \in Emission
    <3>1. Append(e.calls, it) \in Seq(Nat)
      BY <1>3, <1>5
    <3>2. ASSUME NEW c \in Seq(Nat) PROVE [e EXCEPT !.calling = TRUE, !.calls = c] \in Emission
      BY <1>3 DEF Emission
    <3> QED
      BY <3>1, <3>2
  <2>2. /\ f.signal = e.signal /\ f.calls = Append(e.calls, it) /\ f.broken = e.broken
        /\ f.began = e.began /\ f.last = e.last
    BY DEF Emission
  <2>3. emitting' = [emitting EXCEPT ![top] = f]
    BY <1>1, <1>2, <1>3, <1>4
  <2> QED
    BY <2>1, <2>2, <2>3
<1>7. /\ emitting' \in Seq(Emission) /\ DOMAIN emitting' = DOMAIN emitting
      /\ emitting'[top] = f /\ \A i \in DOMAIN emitting : i # top => emitting'[i] = emitting[i]
  BY <1>1, <1>2, <1>6
<1>8. /\ Typed' /\ Ends' /\ m_current_iterator'[s] = new
      /\ \A z \in Signals : z # s => m_current_iterator'[z] = m_current_iterator[z]
  <2>1. new \in {0} \cup P!ConnectionsOf(s)
    BY <1>3
  <2>2. /\ m_current_iterator' = [m_current_iterator EXCEPT ![s] = new] /\ emitting' \in Seq(Emission)
        /\ UNCHANGED <<alive, m_connected_slots, m_senders, newest, twice>>
    BY <1>4, <1>7
  <2> HIDE DEF top, n
  <2> QED
    BY <1>1, <2>1, <2>2, IteratorMoves
<1>9. \A z : P!ConnectionsOf(z)' = P!ConnectionsOf(z)
  BY <1>4, SameLists
<1>10. P!ConnectionsOf(s) \subseteq Nat \ {0} /\ newest[s] \in Nat /\ newest' = newest
  BY <1>1, <1>4, ListsOf
<1>11. it \in P!ConnectionsOf(s)
  BY <1>1, <1>3 DEF Ends
<1>12. ASSUME ~e.broken PROVE Calls(f)'
  <2>1. Calls(e)
    BY <1>2, <1>3, <1>12 DEF SlotInv, Emissions
  <2>2. /\ Len(f.calls) = Len(e.calls) + 1 /\ Len(e.calls) \in Nat
        /\ DOMAIN e.calls = 1 .. Len(e.calls) /\ DOMAIN f.calls = 1 .. Len(e.calls) + 1
        /\ f.calls[Len(e.calls) + 1] = it
        /\ \A k \in DOMAIN e.calls : f.calls[k] = e.calls[k] /\ e.calls[k] \in Nat
    BY <1>5, <1>6
  <2>3. e.last \in Nat /\ e.began \subseteq Nat
    BY DEF Emission
  <2>4. \A k \in DOMAIN e.calls : e.calls[k] < it
    BY <1>3, <2>1 DEF Calls
  <2>5. \A k, l \in DOMAIN f.calls : k < l => f.calls[k] < f.calls[l]
    <3>1. \A k, l \in DOMAIN e.calls : k < l => e.calls[k] < e.calls[l]
      BY <2>1 DEF Calls
    <3>2. ASSUME NEW k \in DOMAIN f.calls, NEW l \in DOMAIN f.calls, k < l PROVE f.calls[k] < f.calls[l]
      <4>1. k \in DOMAIN e.calls
        BY <2>2, <3>2
      <4>2. CASE l \in DOMAIN e.calls
        BY <2>2, <3>1, <3>2, <4>1, <4>2
      <4>3. CASE l \notin DOMAIN e.calls
        <5>1. l = Len(e.calls) + 1
          BY <2>2, <4>3
        <5> QED
          BY <2>2, <2>4, <4>1, <5>1
      <4> QED
        BY <4>2, <4>3
    <3> QED
      BY <3>2
  <2>6. it \in e.began \/ it > e.last
    <3>1. IF it \in e.began THEN it \in P!ToSet(e.calls) \/ (it # 0 /\ it <= it) ELSE it > e.last
      BY <1>3, <1>11, <2>1 DEF Calls
    <3> QED
      BY <3>1
  <2>7. ASSUME NEW k \in DOMAIN f.calls
        PROVE  /\ f.calls[k] \in f.began \/ f.calls[k] > f.last
               /\ new = 0 \/ f.calls[k] < new
    <3>1. new \in Nat
      BY <1>10
    <3>2. CASE k \in DOMAIN e.calls
      <4>1. e.calls[k] \in e.began \/ e.calls[k] > e.last
        BY <2>1, <3>2 DEF Calls
      <4>2. f.calls[k] = e.calls[k] /\ e.calls[k] \in Nat /\ e.calls[k] < it
        BY <2>2, <2>4, <3>2
      <4>3. new = 0 \/ e.calls[k] < new
        BY <1>3, <3>1, <4>2
      <4> QED
        BY <1>6, <4>1, <4>2, <4>3
    <3>3. CASE k \notin DOMAIN e.calls
      <4>1. k = Len(e.calls) + 1
        BY <2>2, <3>3
      <4> QED
        BY <1>3, <1>6, <2>2, <2>6, <4>1
    <3> QED
      BY <3>2, <3>3
  <2>8. P!ToSet(e.calls) \subseteq P!ToSet(f.calls) /\ it \in P!ToSet(f.calls)
    BY <2>2 DEF P!ToSet
  <2>9. ASSUME NEW m \in P!ConnectionsOf(s)
        PROVE  IF m \in f.began THEN m \in P!ToSet(f.calls) \/ (new # 0 /\ new <= m) ELSE m > f.last
    <3>1. IF m \in e.began THEN m \in P!ToSet(e.calls) \/ it <= m ELSE m > e.last
      BY <1>3, <2>1 DEF Calls
    <3>2. it <= m => m = it \/ it < m
      BY <1>10
    <3> QED
      BY <1>3, <1>6, <2>8, <3>1, <3>2
  <2>10. f.last <= newest[s] /\ \A m \in f.began : m <= f.last
    BY <1>3, <1>6, <2>1 DEF Calls
  <2>11. f.signal = s /\ newest'[s] = newest[s] /\ m_current_iterator'[s] = new /\ P!ConnectionsOf(s)' = P!ConnectionsOf(s)
    BY <1>3, <1>6, <1>8, <1>9, <1>10
  <2> HIDE DEF top, n
  <2> QED
    BY <2>5, <2>7, <2>9, <2>10, <2>11 DEF Calls
<1>13. ASSUME NEW g \in Emission, Calls(g), g.signal # s PROVE Calls(g)'
  <2> DEFINE z == g.signal
  <2>1. z \in Signals
    BY DEF Emission
  <2>2. newest[z] \in Nat /\ m_current_iterator[z] \in Nat
    BY <1>1, <2>1, ListsOf
  <2>3. Forward(z)
    BY <1>4, <1>8, <1>9, <1>13, <2>1, <2>2 DEF Forward
  <2> QED
    BY <1>1, <1>8, <1>13, <2>3, ForwardKeepsCalls
<1>14. ASSUME NEW i \in DOMAIN emitting', NEW g, g = emitting'[i]
       PROVE  /\ g.signal \in alive'
              /\ ~g.broken => /\ Calls(g)'
                             /\ \A j \in DOMAIN emitting' : i < j => emitting'[j].signal # g.signal
  <2>1. i \in DOMAIN emitting /\ g.signal = emitting[i].signal /\ g.broken = emitting[i].broken
        /\ \A j \in DOMAIN emitting' : j \in DOMAIN emitting /\ emitting'[j].signal = emitting[j].signal
    BY <1>3, <1>6, <1>7, <1>14
  <2>2. g.signal \in alive'
    BY <1>4, <2>1, StackIs
  <2>3. ASSUME ~g.broken
        PROVE  Calls(g)' /\ \A j \in DOMAIN emitting' : i < j => emitting'[j].signal # g.signal
    <3>1. Calls(emitting[i]) /\ \A j \in DOMAIN emitting : i < j => emitting[j].signal # emitting[i].signal
      BY <2>1, <2>3 DEF SlotInv, Emissions
    <3>2. CASE i = top
      <4>1. g = f /\ ~e.broken
        BY <1>6, <1>7, <1>14, <2>3, <3>2
      <4> QED
        BY <1>12, <2>1, <3>1, <4>1
    <3>3. CASE i # top
      <4>1. g = emitting[i] /\ g \in Emission
        BY <1>1, <1>7, <1>14, <2>1, <3>3
      <4>2. g.signal # s
        BY <1>2, <1>3, <2>1, <3>1, <3>3
      <4> QED
        BY <1>13, <2>1, <3>1, <4>1, <4>2
    <3> QED
      BY <3>2, <3>3
  <2> QED
    BY <2>2, <2>3
<1> QED
  BY <1>8, <1>14, EmissionsNext DEF SlotInv

LEMMA SlotReturnsKeeps ==
  ASSUME SlotInv, P!SlotReturns
  PROVE  SlotInv'
<1> DEFINE top == Len(emitting)
           f == [emitting[top] EXCEPT !.calling = FALSE]
<1>1. Typed /\ Ends /\ emitting \in Seq(Emission)
  BY DEF SlotInv, Typed
<1>2. top \in Nat /\ top >= 1 /\ DOMAIN emitting = 1 .. top /\ top \in DOMAIN emitting
  BY <1>1 DEF P!SlotReturns
<1>3. /\ emitting' = [emitting EXCEPT ![top] = f]
      /\ UNCHANGED <<alive, m_connected_slots, m_current_iterator, m_senders, newest, twice>>
  BY DEF P!SlotReturns
<1>4. /\ f \in Emission /\ f.signal = emitting[top].signal /\ f.calls = emitting[top].calls
      /\ f.broken = emitting[top].broken /\ f.began = emitting[top].began /\ f.last = emitting[top].last
  <2>1. emitting[top] \in Emission
    BY <1>2, StackIs
  <2> QED
    BY <2>1 DEF Emission
<1>5. /\ emitting' \in Seq(Emission) /\ DOMAIN emitting' = DOMAIN emitting
      /\ emitting'[top] = f /\ \A i \in DOMAIN emitting : i # top => emitting'[i] = emitting[i]
  <2> HIDE DEF f
  <2> QED
    BY <1>1, <1>2, <1>3, <1>4
<1>6. \A z : P!ConnectionsOf(z)' = P!ConnectionsOf(z) /\ \A r : P!NumbersOf(z, r)' = P!NumbersOf(z, r)
  BY <1>3, SameLists
<1>7. Typed' /\ Ends'
  BY <1>1, <1>3, <1>5, <1>6 DEF Typed, Ends
<1>8. \A i \in DOMAIN emitting :
        /\ emitting'[i].signal = emitting[i].signal /\ emitting'[i].calls = emitting[i].calls
        /\ emitting'[i].broken = emitting[i].broken /\ emitting'[i].began = emitting[i].began
        /\ emitting'[i].last = emitting[i].last
  <2> HIDE DEF f
  <2> QED
    BY <1>4, <1>5
<1>9. Emissions'
  <2>1. Emissions
    BY DEF SlotInv
  <2> HIDE DEF top, f
  <2> QED
    BY <1>3, <1>5, <1>6, <1>8, <2>1 DEF Emissions, Calls
<1> QED
  BY <1>7, <1>9 DEF SlotInv

LEMMA EmitEndsKeeps ==
  ASSUME SlotInv, P!EmitEnds
  PROVE  SlotInv'
<1>1. Typed /\ Ends /\ Emissions /\ emitting \in Seq(Emission) /\ emitting # << >>
  BY DEF SlotInv, Typed, P!EmitEnds
<1>2. /\ emitting' = P!Front(emitting)
      /\ UNCHANGED <<alive, m_connected_slots, m_current_iterator, m_senders, newest, twice>>
  BY DEF P!EmitEnds
<1>3. /\ emitting' \in Seq(Emission) /\ \A i \in DOMAIN emitting' : i \in DOMAIN emitting /\ emitting'[i] = emitting[i]
  <2>1. P!Front(emitting) = SubSeq(emitting, 1, Len(emitting) - 1)
    BY DEF P!Front
  <2>2. Len(emitting) \in Nat /\ Len(emitting) >= 1 /\ DOMAIN emitting = 1 .. Len(emitting)
    BY <1>1
  <2> QED
    BY <1>1, <1>2, <2>1, <2>2
<1>4. \A z : P!ConnectionsOf(z)' = P!ConnectionsOf(z) /\ \A r : P!NumbersOf(z, r)' = P!NumbersOf(z, r)
  BY <1>2, SameLists
<1>5. Typed' /\ Ends'
  BY <1>1, <1>2, <1>3, <1>4 DEF Typed, Ends
<1>6. Emissions'
  BY <1>1, <1>2, <1>3, <1>4 DEF Emissions, Calls
<1> QED
  BY <1>5, <1>6 DEF SlotInv

LEMMA SlotStepKeeps ==
  ASSUME SlotInv, Signals \cap PlainReceivers = {}, [P!Next]_P!vars
  PROVE  SlotInv'
<1>1. ASSUME NEW s \in Signals, NEW r \in PlainReceivers, P!Connect(s, r) \/ P!Disconnect(s, r) PROVE SlotInv'
  BY <1>1, ConnectKeeps, DisconnectKeeps
<1>2. ASSUME NEW s \in Signals, NEW dies \in BOOLEAN, P!DisconnectAll(s, dies) PROVE SlotInv'
  BY <1>2, DisconnectAllKeeps
<1>3. ASSUME NEW r \in PlainReceivers, NEW dies \in BOOLEAN, P!DisconnectReceiver(r, dies) PROVE SlotInv'
  BY <1>3, DisconnectReceiverKeeps
<1>4. ASSUME NEW r \in PlainReceivers, NEW copy \in PlainReceivers, P!CopyReceiver(r, copy) PROVE SlotInv'
  BY <1>4, CopyReceiverKeeps
<1>5. ASSUME NEW s \in Signals, NEW copy \in Signals, P!CopySignal(s, copy) PROVE SlotInv'
  BY <1>5, CopySignalKeeps
<1>6. ASSUME NEW s \in Signals, P!Emit(s) PROVE SlotInv'
  BY <1>6, EmitKeeps
<1>7. CASE UNCHANGED P!vars
  <2>1. UNCHANGED <<alive, m_connected_slots, m_current_iterator, m_senders, newest, emitting, twice>>
    BY <1>7 DEF P!vars
  <2>2. \A z : P!ConnectionsOf(z)' = P!ConnectionsOf(z) /\ \A r : P!NumbersOf(z, r)' = P!NumbersOf(z, r)
    BY <2>1, SameLists
  <2>3. Typed' /\ Ends'
    BY <2>1, <2>2 DEF SlotInv, Typed, Ends
  <2>4. Emissions'
    BY <2>1, <2>2 DEF SlotInv, Emissions, Calls
  <2> QED
    BY <2>3, <2>4 DEF SlotInv
<1> QED
  BY <1>1, <1>2, <1>3, <1>4, <1>5, <1>6, <1>7, CallNextKeeps, SlotReturnsKeeps, EmitEndsKeeps DEF P!Next

LEMMA SlotInvImplies == ASSUME SlotInv PROVE P!SlotsCalledRight
<1>1. Typed /\ Ends /\ Emissions
  BY DEF SlotInv
<1>2. P!EndsAgree
  <2>1. ASSUME NEW s \in Signals, NEW n \in P!ConnectionsOf(s)
        PROVE LET r == m_connected_slots[s][n] IN r \in alive \/ <<s, r>> \in twice
    <3>1. m_connected_slots[s][n] \in PlainReceivers
      BY <1>1, ListsOf
    <3>2. n \in P!NumbersOf(s, m_connected_slots[s][n])
      BY DEF P!NumbersOf
    <3> QED
      BY <1>1, <3>1, <3>2 DEF Ends
  <2> QED
    BY <1>1, <2>1 DEF P!EndsAgree, Ends
<1>3. P!EmissionsComplete
  BY <1>1 DEF P!EmissionsComplete, Emissions, Calls
<1> QED
  BY <1>2, <1>3 DEF P!SlotsCalledRight

(* Both ends of a connection agree and emissions are complete, for any     *)
(* number of signals and receivers (sigslot.h).                            *)
THEOREM SignalsCallSlotsRight == P!Spec => []SlotsCalledRight
<1>1. P!Init => SlotInv
  BY SlotInvInitially
<1>2. SlotInv /\ [P!Next]_P!vars => SlotInv'
  BY SlotStepKeeps, PlainAssumption
<1>3. SlotInv => SlotsCalledRight
  BY SlotInvImplies DEF SlotsCalledRight
<1> QED
  BY <1>1, <1>2, <1>3, PTL DEF P!Spec

-----------------------------------------------------------------------------
(* Sigslot2: threads, and the calls that each of them is in.               *)

(* The frames of emit; those in which the signal's mutex is held; those    *)
(* whose slot is called, posted or awaited; and those under another frame. *)
Emitting == {"next", "calling", "posted", "blocked"}
Holding == {"addSender", "dropSender", "clear"} \cup Emitting
Slots == {"calling", "posted", "blocked"}
Under == {"slot", "calling", "task", "call"}
Places == Holding \cup Under \cup {"connect", "disconnect", "disconnectConn", "disconnectAll",
                                   "leave", "leaving", "emit"}

(* The connections that were made.                                         *)
Made == {c \in Conns : conn[c].type # "none"}

(* Connections, frames and tasks.                                          *)
Connection == [receiver : Receivers \cup {NoReceiver}, type : Types \cup {"none"},
               thread : {RtcThread, NoThread}, single : BOOLEAN, kept : BOOLEAN,
               emitted : BOOLEAN, fired : BOOLEAN]
AFrame == [at : Places, c : Conns \cup {NoConn}, r : Receivers \cup {NoReceiver}, n : Nat,
           due : SUBSET (Kinds \cup Conns \cup Actors \cup {NoThread})]
Task == [c : Conns, caller : Actors \cup {NoThread}]

(* The invariant begins with types: of what belongs to no thread, and of   *)
(* all.                                                                    *)
DataTyped ==
  /\ lock \in [Locks -> [owner : Actors \cup {NoThread}, depth : Int]] /\ lock[Sig].depth \in Nat
  /\ m_connectionList \subseteq Made
  /\ m_currentIterator \in Made \cup {NoConn}
  /\ conn \in [Conns -> Connection]
  /\ fires \in [Conns -> Nat] /\ \A c \in Conns \ Made : fires[c] = 0
  /\ senders \in [Receivers -> Nat]

Typed2 ==
  /\ DataTyped
  /\ tasks \in Seq(Task) /\ \A i \in DOMAIN tasks : tasks[i].c \in Made
  /\ stack \in [Actors -> Seq(AFrame)]
  /\ held \subseteq Receivers /\ destroyed \subseteq Receivers /\ held \cap destroyed = {}

(* What a frame carries; one of a receiver whose destructor has begun is   *)
(* of the destructor itself.                                               *)
FrameOK(p, f) ==
  /\ f.at \in {"addSender", "disconnect", "dropSender", "leave", "leaving"} => f.r \in Receivers
  /\ f.at \in Slots \cup {"slot", "task", "call"} => f.c \in Made
  /\ f.at \in Emitting => f.due \subseteq Made
  /\ f.at = "connect" => f.due \subseteq Kinds /\ \A k \in f.due : k.receiver = f.r
  /\ f.r \in destroyed => f.at \in {"leave", "leaving"}
  /\ f.at = "blocked" => p # RtcThread
  /\ f.at = "call" => \E q \in Actors : f.due = {q}

Frames ==
  \A p \in Actors : \A i \in DOMAIN stack[p] :
    /\ FrameOK(p, stack[p][i])
    /\ stack[p][i].at \in {"task", "call"} => p = RtcThread /\ i = 1
    /\ i < Len(stack[p]) => stack[p][i].at \in Under

(* The depth of the signal's mutex counts the frames of its owner that hold*)
(* it, and nobody else has any.                                            *)
Holds(s) == {i \in DOMAIN s : s[i].at \in Holding}
LockHeld ==
  /\ lock[Sig].owner = NoThread <=> lock[Sig].depth = 0
  /\ \A p \in Actors : Cardinality(Holds(stack[p])) =
                         IF lock[Sig].owner = p THEN lock[Sig].depth ELSE 0

(* Whoever waits for the rtc::Thread has one task there, or the call that  *)
(* came of it is running.                                                  *)
CallOf(q) == stack[RtcThread] # << >> /\ stack[RtcThread][1].at = "call" /\ q \in stack[RtcThread][1].due
Waiting ==
  /\ \A i \in DOMAIN tasks, q \in Actors : tasks[i].caller = q =>
       /\ IsAt(q, "blocked") /\ ~CallOf(q)
       /\ \A j \in DOMAIN tasks : tasks[j].caller = q => j = i
  /\ \A q \in Actors : CallOf(q) => IsAt(q, "blocked")

(* A receiver with connections knows the signal, was made to forget it by  *)
(* disconnect, is about to be told, or is about to take its connections    *)
(* away.                                                                   *)
Trace ==
  /\ \A r \in Receivers : Of(r) # {} =>
       \/ senders[r] > 0 \/ r \in partial
       \/ \E p \in Actors : \/ IsAt(p, "clear")
                            \/ (IsAt(p, "addSender") \/ IsAt(p, "leaving")) /\ Top(p).r = r
  /\ \A p \in Actors, r \in Receivers :
       IsAt(p, "dropSender") /\ Top(p).r = r => Of(r) = {} \/ r \in partial
  /\ \A r \in destroyed : senders[r] > 0 => \E p \in Actors : IsAt(p, "leave") /\ Top(p).r = r

(* The iterator stands on a connection of the list, unless all are going.  *)
Iterator == m_currentIterator \in m_connectionList \cup {NoConn} \/ \E p \in Actors : IsAt(p, "clear")

(* What an emission has not called yet lies before the iterator, as long as*)
(* there is one emission at a time.                                        *)
Emits(p, i) == i \in DOMAIN stack[p] /\ stack[p][i].at \in Emitting
Due ==
  ~reentered =>
    /\ \A p, q \in Actors : \A i, j \in Nat : Emits(p, i) /\ Emits(q, j) => p = q /\ i = j
    /\ \A p \in Actors : \A i \in DOMAIN stack[p] : Emits(p, i) =>
         \A c \in stack[p][i].due \cap m_connectionList : m_currentIterator # NoConn /\ m_currentIterator <= c

(* A single shot that was called or posted is on its way to be marked as   *)
(* emitted, is marked, or has left the list.                               *)
Posted(c) == {i \in DOMAIN tasks : tasks[i].c = c}
Attempted(c) ==
  \/ conn[c].emitted \/ c \notin m_connectionList
  \/ \E p \in Actors : \E i \in DOMAIN stack[p] : stack[p][i].at \in Slots /\ stack[p][i].c = c
Single ==
  ~reentered => \A c \in Conns : conn[c].single =>
    /\ fires[c] <= 1
    /\ \A i, j \in Posted(c) : i = j /\ fires[c] = 0
    /\ fires[c] # 0 \/ Posted(c) # {} => Attempted(c)

SlotInv2 == Typed2 /\ Frames /\ LockHeld /\ Waiting /\ Trace /\ Iterator /\ Due /\ Single

(* The frames of an actor that hold the signal's mutex, counted.           *)
LEMMA HoldsIsFinite ==
  ASSUME NEW s \in Seq(AFrame)
  PROVE  IsFiniteSet(Holds(s)) /\ Cardinality(Holds(s)) \in Nat
<1>1. Len(s) \in Nat /\ Holds(s) \subseteq 1 .. Len(s)
  BY DEF Holds
<1>2. IsFiniteSet(1 .. Len(s))
  <2>1. 1 \in Int /\ Len(s) \in Int
    BY <1>1
  <2> QED
    BY <2>1, FS_Interval
<1>3. IsFiniteSet(Holds(s))
  BY <1>1, <1>2, FS_Subset
<1> QED
  BY <1>3, FS_CardinalityType

LEMMA HoldsOfAppend ==
  ASSUME NEW s \in Seq(AFrame), NEW f \in AFrame
  PROVE  Cardinality(Holds(Append(s, f))) =
           Cardinality(Holds(s)) + IF f.at \in Holding THEN 1 ELSE 0
<1> DEFINE n == Len(s) + 1
           t == Append(s, f)
<1>1. /\ Len(s) \in Nat /\ DOMAIN s = 1 .. Len(s) /\ DOMAIN t = 1 .. n
      /\ t[n] = f /\ \A i \in DOMAIN s : t[i] = s[i]
  OBVIOUS
<1>2. IsFiniteSet(Holds(s)) /\ Cardinality(Holds(s)) \in Nat
  BY HoldsIsFinite
<1> HIDE DEF t
<1>3. n \notin Holds(s)
  BY <1>1 DEF Holds
<1>4. CASE f.at \in Holding
  <2>1. Holds(t) = Holds(s) \cup {n}
    BY <1>1, <1>4 DEF Holds
  <2> QED
    BY <1>2, <1>3, <1>4, <2>1, FS_AddElement DEF t
<1>5. CASE f.at \notin Holding
  <2>1. Holds(t) = Holds(s)
    BY <1>1, <1>5 DEF Holds
  <2> QED
    BY <1>2, <1>5, <2>1 DEF t
<1> QED
  BY <1>4, <1>5

(* What is left of a stack without its top.                                *)
LEMMA FrontIs ==
  ASSUME NEW s \in Seq(AFrame), s # << >>
  PROVE  /\ Front(s) \in Seq(AFrame) /\ Len(Front(s)) = Len(s) - 1
         /\ \A i \in 1 .. Len(s) - 1 : Front(s)[i] = s[i]
         /\ Len(s) \in Nat /\ Len(s) >= 1
         /\ Last(s) = s[Len(s)] /\ Last(s) \in AFrame
         /\ s = Append(Front(s), Last(s))
<1>1. Len(s) \in Nat /\ Len(s) >= 1 /\ s \in [1 .. Len(s) -> AFrame]
  OBVIOUS
<1>2. Front(s) = SubSeq(s, 1, Len(s) - 1) /\ Last(s) = s[Len(s)]
  BY DEF Front, Last
<1>3. /\ Front(s) \in Seq(AFrame) /\ Len(Front(s)) = Len(s) - 1
      /\ \A i \in 1 .. Len(s) - 1 : Front(s)[i] = s[i]
  BY <1>1, <1>2
<1>4. s = Append(Front(s), Last(s))
  BY <1>1, <1>2, <1>3
<1> QED
  BY <1>1, <1>2, <1>3, <1>4

(* The stack of p is another; its first n frames are as they were.         *)
OnlyStackOf(p) == stack' \in [Actors -> Seq(AFrame)] /\ \A q \in Actors : q # p => stack'[q] = stack[q]
Same(p, n) == /\ n \in Nat /\ n <= Len(stack[p]) /\ n <= Len(stack'[p])
              /\ \A i \in 1 .. n : stack'[p][i] = stack[p][i]

LEMMA PushIs ==
  ASSUME Typed2, NEW p \in Actors, NEW f \in AFrame, stack' = Pushed(p, f)
  PROVE  /\ OnlyStackOf(p) /\ Same(p, Len(stack[p])) /\ Len(stack[p]) \in Nat
         /\ Len(stack'[p]) = Len(stack[p]) + 1 /\ stack'[p][Len(stack'[p])] = f
         /\ stack'[p] # << >> /\ Top(p)' = f
         /\ Cardinality(Holds(stack'[p])) =
              Cardinality(Holds(stack[p])) + IF f.at \in Holding THEN 1 ELSE 0
<1>1. stack \in [Actors -> Seq(AFrame)] /\ stack[p] \in Seq(AFrame)
  BY DEF Typed2, DataTyped
<1>2. stack' = [stack EXCEPT ![p] = Append(stack[p], f)]
  BY DEF Pushed
<1>3. stack'[p] = Append(stack[p], f) /\ \A q \in Actors : q # p => stack'[q] = stack[q]
  BY <1>1, <1>2
<1>4. Append(stack[p], f) \in Seq(AFrame)
  BY <1>1
<1>5. OnlyStackOf(p)
  BY <1>1, <1>2, <1>4 DEF OnlyStackOf
<1>6. Len(stack[p]) \in Nat /\ Len(stack'[p]) = Len(stack[p]) + 1 /\ stack'[p][Len(stack'[p])] = f
      /\ \A i \in 1 .. Len(stack[p]) : stack'[p][i] = stack[p][i]
  BY <1>1, <1>3
<1>7. stack'[p] # << >> /\ Top(p)' = f
  BY <1>1, <1>3, <1>6 DEF Top, Last
<1>8. Same(p, Len(stack[p]))
  BY <1>6 DEF Same
<1> QED
  BY <1>1, <1>3, <1>5, <1>6, <1>7, <1>8, HoldsOfAppend

LEMMA PopIs ==
  ASSUME Typed2, NEW p \in Actors, stack[p] # << >>, stack' = Popped(p)
  PROVE  /\ OnlyStackOf(p) /\ Same(p, Len(stack[p]) - 1) /\ Len(stack[p]) \in Nat
         /\ Len(stack'[p]) = Len(stack[p]) - 1
         /\ Top(p) = stack[p][Len(stack[p])] /\ Top(p) \in AFrame
         /\ Cardinality(Holds(stack[p])) =
              Cardinality(Holds(stack'[p])) + IF Top(p).at \in Holding THEN 1 ELSE 0
<1>1. stack \in [Actors -> Seq(AFrame)] /\ stack[p] \in Seq(AFrame)
  BY DEF Typed2, DataTyped
<1>2. stack' = [stack EXCEPT ![p] = Front(stack[p])]
  BY DEF Popped
<1>3. stack'[p] = Front(stack[p]) /\ \A q \in Actors : q # p => stack'[q] = stack[q]
  BY <1>1, <1>2
<1>4. /\ Front(stack[p]) \in Seq(AFrame) /\ Len(Front(stack[p])) = Len(stack[p]) - 1
      /\ \A i \in 1 .. Len(stack[p]) - 1 : Front(stack[p])[i] = stack[p][i]
      /\ Len(stack[p]) \in Nat /\ Len(stack[p]) >= 1
      /\ Last(stack[p]) = stack[p][Len(stack[p])] /\ Last(stack[p]) \in AFrame
      /\ stack[p] = Append(Front(stack[p]), Last(stack[p]))
  BY <1>1, FrontIs
<1>5. OnlyStackOf(p)
  BY <1>1, <1>2, <1>4 DEF OnlyStackOf
<1>6. Same(p, Len(stack[p]) - 1)
  BY <1>3, <1>4 DEF Same
<1>7. Cardinality(Holds(Append(stack'[p], Top(p)))) =
        Cardinality(Holds(stack'[p])) + IF Top(p).at \in Holding THEN 1 ELSE 0
  <2>1. stack'[p] \in Seq(AFrame) /\ Top(p) \in AFrame
    BY <1>3, <1>4 DEF Top
  <2> QED
    BY <2>1, HoldsOfAppend
<1> QED
  BY <1>3, <1>4, <1>5, <1>6, <1>7 DEF Top

LEMMA ChangeIs ==
  ASSUME Typed2, NEW p \in Actors, NEW f \in AFrame, stack[p] # << >>, stack' = Changed(p, f)
  PROVE  /\ OnlyStackOf(p) /\ Same(p, Len(stack[p]) - 1) /\ Len(stack[p]) \in Nat
         /\ Len(stack'[p]) = Len(stack[p]) /\ stack'[p][Len(stack'[p])] = f
         /\ Top(p) = stack[p][Len(stack[p])] /\ Top(p) \in AFrame
         /\ stack'[p] # << >> /\ Top(p)' = f
         /\ Cardinality(Holds(stack[p])) + (IF f.at \in Holding THEN 1 ELSE 0) =
              Cardinality(Holds(stack'[p])) + IF Top(p).at \in Holding THEN 1 ELSE 0
<1>1. stack \in [Actors -> Seq(AFrame)] /\ stack[p] \in Seq(AFrame)
  BY DEF Typed2, DataTyped
<1>2. stack' = [stack EXCEPT ![p] = Append(Front(stack[p]), f)]
  BY DEF Changed
<1>3. stack'[p] = Append(Front(stack[p]), f) /\ \A q \in Actors : q # p => stack'[q] = stack[q]
  BY <1>1, <1>2
<1>4. /\ Front(stack[p]) \in Seq(AFrame) /\ Len(Front(stack[p])) = Len(stack[p]) - 1
      /\ \A i \in 1 .. Len(stack[p]) - 1 : Front(stack[p])[i] = stack[p][i]
      /\ Len(stack[p]) \in Nat /\ Len(stack[p]) >= 1
      /\ Last(stack[p]) = stack[p][Len(stack[p])] /\ Last(stack[p]) \in AFrame
      /\ stack[p] = Append(Front(stack[p]), Last(stack[p]))
  BY <1>1, FrontIs
<1>5. Append(Front(stack[p]), f) \in Seq(AFrame)
  BY <1>4
<1>6. OnlyStackOf(p)
  BY <1>1, <1>2, <1>5 DEF OnlyStackOf
<1>7. /\ Len(stack'[p]) = Len(stack[p]) /\ stack'[p][Len(stack'[p])] = f
      /\ \A i \in 1 .. Len(stack[p]) - 1 : stack'[p][i] = stack[p][i]
  BY <1>3, <1>4
<1>8. Same(p, Len(stack[p]) - 1)
  BY <1>4, <1>7 DEF Same
<1>9. stack'[p] # << >> /\ Top(p)' = f
  BY <1>3, <1>4, <1>7 DEF Top, Last
<1>10. /\ Cardinality(Holds(stack'[p])) =
            Cardinality(Holds(Front(stack[p]))) + IF f.at \in Holding THEN 1 ELSE 0
       /\ Cardinality(Holds(stack[p])) =
            Cardinality(Holds(Front(stack[p]))) + IF Top(p).at \in Holding THEN 1 ELSE 0
       /\ Cardinality(Holds(Front(stack[p]))) \in Nat
  <2>1. Last(stack[p]) = Top(p)
    BY DEF Top
  <2>2. Cardinality(Holds(Append(Front(stack[p]), Top(p)))) =
          Cardinality(Holds(Front(stack[p]))) + IF Top(p).at \in Holding THEN 1 ELSE 0
    BY <1>4, <2>1, HoldsOfAppend
  <2>3. Cardinality(Holds(Append(Front(stack[p]), f))) =
          Cardinality(Holds(Front(stack[p]))) + IF f.at \in Holding THEN 1 ELSE 0
    BY <1>4, HoldsOfAppend
  <2> QED
    BY <1>3, <1>4, <2>1, <2>2, <2>3, HoldsIsFinite
<1>11. Top(p) = stack[p][Len(stack[p])] /\ Top(p) \in AFrame
  BY <1>4 DEF Top
<1>12. Cardinality(Holds(stack[p])) + (IF f.at \in Holding THEN 1 ELSE 0) =
              Cardinality(Holds(stack'[p])) + IF Top(p).at \in Holding THEN 1 ELSE 0
  BY <1>10
<1> QED
  BY <1>4, <1>6, <1>7, <1>8, <1>9, <1>11, <1>12

(* The stack of p is another: its top may have gone, and one frame come.   *)
Moves(p, n) == /\ OnlyStackOf(p) /\ Same(p, n)
               /\ n = Len(stack[p]) \/ n = Len(stack[p]) - 1
               /\ Len(stack'[p]) = n \/ Len(stack'[p]) = n + 1

(* The frames of the next state, one by one.                               *)
LEMMA FramesNext ==
  ASSUME \A q \in Actors : \A i \in DOMAIN stack'[q] : \A f : f = stack'[q][i] =>
           /\ FrameOK(q, f)' /\ (f.at \in {"task", "call"} => q = RtcThread /\ i = 1)
           /\ i < Len(stack'[q]) => f.at \in Under
  PROVE  Frames'
<1>1. ASSUME NEW q \in Actors, NEW i \in DOMAIN stack'[q]
      PROVE  /\ FrameOK(q, stack[q][i])'
             /\ stack'[q][i].at \in {"task", "call"} => q = RtcThread /\ i = 1
             /\ i < Len(stack'[q]) => stack'[q][i].at \in Under
  <2>1. PICK f : f = stack'[q][i]
    OBVIOUS
  <2>2. FrameOK(q, f)' /\ (f.at \in {"task", "call"} => q = RtcThread /\ i = 1)
        /\ (i < Len(stack'[q]) => f.at \in Under)
    BY <2>1
  <2>3. FrameOK(q, stack[q][i])'
    BY <2>1, <2>2 DEF FrameOK
  <2> QED
    BY <2>1, <2>2, <2>3
<1> QED
  BY <1>1 DEF Frames

LEMMA FramesKept ==
  ASSUME Typed2, Frames, NEW p \in Actors, NEW n, Moves(p, n), Made \subseteq Made',
         \A f : Len(stack'[p]) = n + 1 /\ f = stack'[p][n + 1] =>
                  FrameOK(p, f)' /\ f.at \notin {"task", "call"},
         n = Len(stack[p]) /\ Len(stack'[p]) = n + 1 /\ n > 0 => Top(p).at \in Under,
         \A r \in destroyed' \ destroyed : \A q \in Actors : \A i \in DOMAIN stack'[q] :
           stack'[q][i].r = r => stack'[q][i].at \in {"leave", "leaving"}
  PROVE  Frames'
<1>1. ASSUME NEW q \in Actors, NEW i \in DOMAIN stack'[q], NEW f, f = stack'[q][i],
             i \in DOMAIN stack[q], f = stack[q][i]
      PROVE  FrameOK(q, f)' /\ (f.at \in {"task", "call"} => q = RtcThread /\ i = 1)
  <2>1. FrameOK(q, f) /\ (f.at \in {"task", "call"} => q = RtcThread /\ i = 1)
    BY <1>1 DEF Frames
  <2>2. f.r \in destroyed' => f.at \in {"leave", "leaving"}
    <3>1. CASE f.r \in destroyed
      BY <2>1, <3>1 DEF FrameOK
    <3>2. CASE f.r \in destroyed' \ destroyed
      BY <1>1, <3>2
    <3> QED
      BY <3>1, <3>2
  <2> QED
    BY <2>1, <2>2 DEF FrameOK
<1>2. /\ n \in Nat /\ \A i \in 1 .. n : stack'[p][i] = stack[p][i]
      /\ stack[p] \in Seq(AFrame) /\ stack'[p] \in Seq(AFrame) /\ n <= Len(stack[p])
      /\ \A q \in Actors : q # p => stack'[q] = stack[q]
  BY DEF Moves, OnlyStackOf, Same, Typed2, DataTyped
<1>3. ASSUME NEW q \in Actors, NEW i \in DOMAIN stack'[q], NEW f, f = stack'[q][i]
      PROVE  /\ FrameOK(q, f)' /\ (f.at \in {"task", "call"} => q = RtcThread /\ i = 1)
             /\ i < Len(stack'[q]) => f.at \in Under
  <2>1. CASE q # p
    <3>1. i \in DOMAIN stack[q] /\ f = stack[q][i] /\ Len(stack'[q]) = Len(stack[q])
      BY <1>2, <1>3, <2>1
    <3> QED
      BY <1>1, <1>3, <3>1 DEF Frames
  <2>2. CASE q = p /\ i <= n
    <3>1. i \in DOMAIN stack[p] /\ f = stack[p][i] /\ i \in 1 .. n
      BY <1>2, <1>3, <2>2
    <3>2. i < Len(stack'[p]) => f.at \in Under
      <4>1. CASE i < Len(stack[p])
        BY <3>1, <4>1 DEF Frames
      <4>2. CASE i = Len(stack[p])
        <5>1. Top(p) = f
          BY <1>2, <3>1, <4>2 DEF Top, Last
        <5> QED
          BY <1>2, <3>1, <4>2, <5>1 DEF Moves
      <4> QED
        BY <1>2, <3>1, <4>1, <4>2
    <3> QED
      BY <1>1, <1>3, <2>2, <3>1, <3>2
  <2>3. CASE q = p /\ i > n
    <3>1. i = n + 1 /\ Len(stack'[p]) = n + 1
      BY <1>2, <1>3, <2>3 DEF Moves
    <3> QED
      BY <1>2, <1>3, <2>3, <3>1
  <2> QED
    BY <1>2, <1>3, <2>1, <2>2, <2>3
<1> QED
  BY <1>3, FramesNext

(* Others are where they were; and so is p's frame if there is no other.   *)
LEMMA TopsOfOthers ==
  ASSUME NEW p \in Actors, OnlyStackOf(p), NEW q \in Actors, q # p
  PROVE  /\ \A at : IsAt(q, at)' <=> IsAt(q, at)
         /\ Top(q)' = Top(q) /\ stack'[q] = stack[q]
BY DEF OnlyStackOf, IsAt, Top

LEMMA TopIs ==
  ASSUME Typed2, NEW p \in Actors, NEW n, Moves(p, n), Len(stack'[p]) = n + 1
  PROVE  stack'[p] # << >> /\ Top(p)' = stack'[p][n + 1] /\ \A at : IsAt(p, at)' <=> Top(p)'.at = at
<1>1. stack'[p] \in Seq(AFrame) /\ n \in Nat
  BY DEF Moves, OnlyStackOf, Same
<1>2. stack'[p] # << >> /\ Top(p)' = stack'[p][n + 1]
  BY <1>1 DEF Top, Last
<1> QED
  BY <1>2 DEF IsAt

LEMMA TopWasUnder ==
  ASSUME Typed2, Frames, NEW p \in Actors, NEW n, Moves(p, n), n = Len(stack[p]) - 1, Len(stack'[p]) = n,
         stack'[p] # << >>
  PROVE  Top(p)'.at \in Under
<1>1. /\ stack'[p] \in Seq(AFrame) /\ stack[p] \in Seq(AFrame) /\ n \in Nat
      /\ \A i \in 1 .. n : stack'[p][i] = stack[p][i]
  BY DEF Moves, OnlyStackOf, Same, Typed2, DataTyped
<1>2. Top(p)' = stack'[p][n] /\ n >= 1 /\ n \in DOMAIN stack[p] /\ n < Len(stack[p])
  BY <1>1 DEF Top, Last
<1>3. Top(p)' = stack[p][n]
  BY <1>1, <1>2
<1> QED
  BY <1>2, <1>3 DEF Frames

LEMMA WaitingKept ==
  ASSUME Typed2, Waiting, NEW p \in Actors, NEW n, Moves(p, n), UNCHANGED tasks, ~IsAt(p, "blocked"),
         Len(stack'[p]) = n + 1 => stack'[p][n + 1].at # "call"
  PROVE  Waiting'
<1>1. \A q \in Actors : IsAt(q, "blocked") => IsAt(q, "blocked")'
  BY TopsOfOthers DEF Moves
<1>2. \A q : CallOf(q)' => CallOf(q)
  <2>1. CASE RtcThread # p
    BY <2>1 DEF Moves, OnlyStackOf, CallOf, Actors
  <2>2. CASE RtcThread = p
    <3>1. /\ n \in Nat /\ \A i \in 1 .. n : stack'[p][i] = stack[p][i]
          /\ stack[p] \in Seq(AFrame) /\ stack'[p] \in Seq(AFrame) /\ n <= Len(stack[p])
      BY DEF Moves, OnlyStackOf, Same, Typed2, DataTyped
    <3>2. CASE n = 0
      <4>1. stack'[p] # << >> => stack'[p][1].at # "call"
        BY <3>1, <3>2 DEF Moves
      <4> QED
        BY <2>2, <4>1 DEF CallOf
    <3>3. CASE n # 0
      <4>1. stack'[p][1] = stack[p][1] /\ stack[p] # << >>
        BY <3>1, <3>3
      <4> QED
        BY <2>2, <4>1 DEF CallOf
    <3> QED
      BY <3>2, <3>3
  <2> QED
    BY <2>1, <2>2
<1>3. UNCHANGED tasks
  OBVIOUS
<1> QED
  BY <1>1, <1>2, <1>3 DEF Waiting

(* What remains of the list and was there when an emission began.          *)
LEMMA DueKept ==
  ASSUME Typed2, Frames, Due, NEW p \in Actors, NEW n, Moves(p, n), UNCHANGED reentered,
         Len(stack'[p]) = n + 1 => stack'[p][n + 1].at \notin Emitting,
         \A c \in Made \cap m_connectionList' :
           /\ c \in m_connectionList
           /\ m_currentIterator # NoConn /\ m_currentIterator <= c =>
                m_currentIterator' # NoConn /\ m_currentIterator' <= c
  PROVE  Due'
<1>1. /\ n \in Nat /\ \A i \in 1 .. n : stack'[p][i] = stack[p][i]
      /\ stack[p] \in Seq(AFrame) /\ stack'[p] \in Seq(AFrame) /\ n <= Len(stack[p])
      /\ \A q \in Actors : q # p => stack'[q] = stack[q]
  BY DEF Moves, OnlyStackOf, Same, Typed2, DataTyped
<1>2. ASSUME NEW q \in Actors, NEW i, Emits(q, i)'
      PROVE  Emits(q, i) /\ stack'[q][i] = stack[q][i]
  <2>1. CASE q # p
    BY <1>1, <1>2, <2>1 DEF Emits
  <2>2. CASE q = p
    <3>1. i \in DOMAIN stack'[p] /\ stack'[p][i].at \in Emitting
      BY <1>2, <2>2 DEF Emits
    <3>2. i # n + 1
      BY <1>1, <3>1 DEF Moves
    <3>3. i \in 1 .. n /\ i \in DOMAIN stack[p]
      BY <1>1, <3>1, <3>2 DEF Moves
    <3> QED
      BY <1>1, <2>2, <3>1, <3>3 DEF Emits
  <2> QED
    BY <2>1, <2>2
<1>3. SUFFICES ASSUME ~reentered' PROVE
        /\ \A q, r \in Actors : \A i, j \in Nat : Emits(q, i)' /\ Emits(r, j)' => q = r /\ i = j
        /\ \A q \in Actors : \A i \in DOMAIN stack'[q] : Emits(q, i)' =>
             \A c \in stack'[q][i].due \cap m_connectionList' :
               m_currentIterator' # NoConn /\ m_currentIterator' <= c
  BY DEF Due
<1>4. \A q, r \in Actors : \A i, j \in Nat : Emits(q, i)' /\ Emits(r, j)' => q = r /\ i = j
  BY <1>2, <1>3 DEF Due
<1>5. ASSUME NEW q \in Actors, NEW i \in DOMAIN stack'[q], Emits(q, i)',
             NEW c \in stack'[q][i].due \cap m_connectionList'
      PROVE  m_currentIterator' # NoConn /\ m_currentIterator' <= c
  <2>1. Emits(q, i) /\ stack'[q][i] = stack[q][i]
    BY <1>2, <1>5
  <2>2. i \in DOMAIN stack[q] /\ stack[q][i].due \subseteq Made
    BY <2>1 DEF Emits, Frames, FrameOK
  <2>3. c \in Made \cap m_connectionList'
    BY <1>5, <2>1, <2>2
  <2>4. m_currentIterator # NoConn /\ m_currentIterator <= c
    BY <1>3, <1>5, <2>1, <2>2, <2>3 DEF Due
  <2> QED
    BY <2>3, <2>4
<1> QED
  BY <1>4, <1>5

(* The frames of emissions that go on, with less or as much due.           *)
LEMMA DueNext ==
  ASSUME Due, reentered => reentered',
         \A q \in Actors : \A i : Emits(q, i)' => Emits(q, i),
         ASSUME NEW q \in Actors, NEW i, Emits(q, i)', Emits(q, i), ~reentered,
                NEW c \in stack'[q][i].due \cap m_connectionList'
         PROVE  /\ c \in stack[q][i].due \cap m_connectionList
                /\ m_currentIterator # NoConn /\ m_currentIterator <= c =>
                     m_currentIterator' # NoConn /\ m_currentIterator' <= c
  PROVE  Due'
<1>1. SUFFICES ASSUME ~reentered' PROVE
        /\ \A q, r \in Actors : \A i, j \in Nat : Emits(q, i)' /\ Emits(r, j)' => q = r /\ i = j
        /\ \A q \in Actors : \A i \in DOMAIN stack'[q] : Emits(q, i)' =>
             \A c \in stack'[q][i].due \cap m_connectionList' :
               m_currentIterator' # NoConn /\ m_currentIterator' <= c
  BY DEF Due
<1>2. \A q, r \in Actors : \A i, j \in Nat : Emits(q, i)' /\ Emits(r, j)' => q = r /\ i = j
  BY <1>1 DEF Due
<1>3. ASSUME NEW q \in Actors, NEW i \in DOMAIN stack'[q], Emits(q, i)',
             NEW c \in stack'[q][i].due \cap m_connectionList'
      PROVE  m_currentIterator' # NoConn /\ m_currentIterator' <= c
  <2>1. Emits(q, i) /\ ~reentered
    BY <1>1, <1>3
  <2>2. /\ c \in stack[q][i].due \cap m_connectionList
        /\ m_currentIterator # NoConn /\ m_currentIterator <= c =>
             m_currentIterator' # NoConn /\ m_currentIterator' <= c
    BY <1>3, <2>1
  <2>3. m_currentIterator # NoConn /\ m_currentIterator <= c
    BY <2>1, <2>2 DEF Due, Emits
  <2> QED
    BY <2>2, <2>3
<1> QED
  BY <1>2, <1>3

LEMMA SingleKept ==
  ASSUME Typed2, Single, NEW p \in Actors, NEW n, Moves(p, n), UNCHANGED <<tasks, fires>>, reentered => reentered',
         n = Len(stack[p]) - 1 => Top(p).at \notin Slots,
         Made \cap m_connectionList' \subseteq m_connectionList,
         \A c \in Made : conn'[c].single = conn[c].single /\ (conn[c].emitted => conn'[c].emitted)
  PROVE  Single'
<1>1. /\ n \in Nat /\ \A i \in 1 .. n : stack'[p][i] = stack[p][i]
      /\ stack[p] \in Seq(AFrame) /\ stack'[p] \in Seq(AFrame) /\ n <= Len(stack[p])
      /\ \A q \in Actors : q # p => stack'[q] = stack[q]
  BY DEF Moves, OnlyStackOf, Same, Typed2, DataTyped
<1>2. ASSUME NEW q \in Actors, NEW i \in DOMAIN stack[q], stack[q][i].at \in Slots
      PROVE  i \in DOMAIN stack'[q] /\ stack'[q][i] = stack[q][i]
  <2>1. CASE q # p
    BY <1>1, <1>2, <2>1
  <2>2. CASE q = p
    <3>1. i <= n
      <4>1. CASE n = Len(stack[p]) - 1
        <5>1. Top(p) = stack[p][Len(stack[p])]
          BY DEF Top, Last
        <5>2. i # Len(stack[p])
          BY <1>2, <2>2, <4>1, <5>1
        <5> QED
          BY <1>1, <2>2, <4>1, <5>2
      <4>2. CASE n = Len(stack[p])
        BY <1>1, <2>2, <4>2
      <4> QED
        BY <4>1, <4>2 DEF Moves
    <3> QED
      BY <1>1, <2>2, <3>1 DEF Moves
  <2> QED
    BY <2>1, <2>2
<1>3. ASSUME NEW c \in Made, Attempted(c) PROVE Attempted(c)'
  <2>1. CASE conn[c].emitted
    BY <2>1 DEF Attempted
  <2>2. CASE c \notin m_connectionList
    BY <2>2 DEF Attempted
  <2>3. CASE \E q \in Actors : \E i \in DOMAIN stack[q] : stack[q][i].at \in Slots /\ stack[q][i].c = c
    BY <1>2, <2>3 DEF Attempted
  <2> QED
    BY <1>3, <2>1, <2>2, <2>3 DEF Attempted
<1>4. \A c \in Conns : c \notin Made => fires[c] = 0 /\ Posted(c) = {}
  BY DEF Typed2, DataTyped, Posted
<1>5. \A c : Posted(c)' = Posted(c)
  BY DEF Posted
<1> QED
  <2>1. SUFFICES ASSUME ~reentered', NEW c \in Conns, conn'[c].single
        PROVE  /\ fires'[c] <= 1
               /\ \A i, j \in Posted(c)' : i = j /\ fires'[c] = 0
               /\ fires'[c] # 0 \/ Posted(c)' # {} => Attempted(c)'
    BY DEF Single
  <2>2. CASE c \in Made
    BY <1>3, <1>5, <2>1, <2>2 DEF Single
  <2>3. CASE c \notin Made
    BY <1>4, <1>5, <2>1, <2>3
  <2> QED
    BY <2>2, <2>3

-----------------------------------------------------------------------------
(* The signal's mutex is held by whom its depth counts for.                *)
LEMMA LockKept ==
  ASSUME LockHeld, lock'[Sig] = lock[Sig],
         \A q \in Actors : Cardinality(Holds(stack'[q])) = Cardinality(Holds(stack[q]))
  PROVE  LockHeld'
BY DEF LockHeld

LEMMA SigIsALock ==
  ASSUME Typed2
  PROVE  /\ Sig \in Locks /\ lock \in [Locks -> [owner : Actors \cup {NoThread}, depth : Int]]
         /\ lock[Sig].depth \in Nat /\ lock[Sig].owner \in Actors \cup {NoThread}
         /\ NoThread \notin Actors
BY SigslotAssumption DEF Typed2, DataTyped, Locks, Actors

LEMMA LockTaken ==
  ASSUME Typed2, LockHeld, NEW p \in Actors, Free(Sig, p), lock' = Locked(Sig, p), OnlyStackOf(p),
         Cardinality(Holds(stack'[p])) = Cardinality(Holds(stack[p])) + 1
  PROVE  LockHeld'
<1>1. /\ Sig \in Locks /\ lock \in [Locks -> [owner : Actors \cup {NoThread}, depth : Int]]
      /\ lock[Sig].depth \in Nat /\ lock[Sig].owner \in Actors \cup {NoThread}
      /\ NoThread \notin Actors
  BY SigIsALock
<1>2. lock'[Sig].owner = p /\ lock'[Sig].depth = lock[Sig].depth + 1
  BY <1>1 DEF Locked
<1>3. lock[Sig].depth = 0 \/ lock[Sig].owner = p
  BY DEF Free
<1>4. ASSUME NEW q \in Actors
      PROVE  Cardinality(Holds(stack'[q])) = IF lock'[Sig].owner = q THEN lock'[Sig].depth ELSE 0
  <2>1. Cardinality(Holds(stack[q])) = IF lock[Sig].owner = q THEN lock[Sig].depth ELSE 0
    BY DEF LockHeld
  <2>2. CASE q = p
    BY <1>1, <1>2, <1>3, <2>1, <2>2
  <2>3. CASE q # p
    <3>1. stack'[q] = stack[q]
      BY <2>3 DEF OnlyStackOf
    <3> QED
      BY <1>1, <1>2, <1>3, <2>1, <2>3, <3>1
  <2> QED
    BY <2>2, <2>3
<1> QED
  BY <1>1, <1>2, <1>4 DEF LockHeld

LEMMA LockReleased ==
  ASSUME Typed2, LockHeld, NEW p \in Actors, lock' = Released(Sig), OnlyStackOf(p),
         Cardinality(Holds(stack[p])) = Cardinality(Holds(stack'[p])) + 1
  PROVE  LockHeld'
<1>1. /\ Sig \in Locks /\ lock \in [Locks -> [owner : Actors \cup {NoThread}, depth : Int]]
      /\ lock[Sig].depth \in Nat /\ lock[Sig].owner \in Actors \cup {NoThread}
      /\ NoThread \notin Actors
  BY SigIsALock
<1>2. Cardinality(Holds(stack'[p])) \in Nat
  BY HoldsIsFinite DEF OnlyStackOf
<1>3. /\ Cardinality(Holds(stack[p])) = IF lock[Sig].owner = p THEN lock[Sig].depth ELSE 0
      /\ lock[Sig].owner = p /\ lock[Sig].depth = Cardinality(Holds(stack'[p])) + 1
  BY <1>1, <1>2 DEF LockHeld
<1>4. lock'[Sig] = IF lock[Sig].depth = 1 THEN Unlocked
                   ELSE [owner |-> lock[Sig].owner, depth |-> lock[Sig].depth - 1]
  <2> DEFINE new == IF lock[Sig].depth = 1 THEN Unlocked
                    ELSE [owner |-> lock[Sig].owner, depth |-> lock[Sig].depth - 1]
  <2>1. lock' = [lock EXCEPT ![Sig] = new]
    BY DEF Released
  <2> HIDE DEF new
  <2>2. lock'[Sig] = new
    BY <1>1, <2>1
  <2> QED
    BY <2>2 DEF new
<1>5. lock[Sig] \in [owner : Actors \cup {NoThread}, depth : Int]
  BY <1>1
<1>6. IF lock[Sig].depth = 1 THEN lock'[Sig].owner = NoThread /\ lock'[Sig].depth = 0
                             ELSE lock'[Sig].owner = p /\ lock'[Sig].depth = lock[Sig].depth - 1
  BY <1>3, <1>4, <1>5 DEF Unlocked
<1>7. ASSUME NEW q \in Actors
      PROVE  Cardinality(Holds(stack'[q])) = IF lock'[Sig].owner = q THEN lock'[Sig].depth ELSE 0
  <2>1. CASE q = p
    BY <1>1, <1>2, <1>3, <1>6, <2>1
  <2>2. CASE q # p
    <3>1. stack'[q] = stack[q] /\ Cardinality(Holds(stack[q])) = 0
      BY <1>3, <2>2 DEF OnlyStackOf, LockHeld
    <3> QED
      BY <1>1, <1>3, <1>6, <2>2, <3>1
  <2> QED
    BY <2>1, <2>2
<1>8. lock'[Sig].owner = NoThread <=> lock'[Sig].depth = 0
  BY <1>1, <1>2, <1>3, <1>6
<1> QED
  BY <1>7, <1>8 DEF LockHeld

(* The mutex that p may enter nobody else holds.                           *)
LEMMA OnlyHolder ==
  ASSUME Typed2, LockHeld, NEW p \in Actors, NEW q \in Actors,
         Free(Sig, p) \/ Holds(stack[p]) # {}, Holds(stack[q]) # {}
  PROVE  p = q /\ lock[Sig].owner = p
<1>1. /\ lock[Sig].depth \in Nat /\ lock[Sig].owner \in Actors \cup {NoThread} /\ NoThread \notin Actors
  BY SigIsALock
<1>2. \A z \in Actors : Holds(stack[z]) # {} => lock[Sig].owner = z /\ lock[Sig].depth # 0
  <2>1. ASSUME NEW z \in Actors, Holds(stack[z]) # {} PROVE lock[Sig].owner = z /\ lock[Sig].depth # 0
    <3>1. IsFiniteSet(Holds(stack[z])) /\ Cardinality(Holds(stack[z])) \in Nat
      BY HoldsIsFinite DEF Typed2, DataTyped
    <3>2. Cardinality(Holds(stack[z])) # 0
      BY <2>1, <3>1, FS_EmptySet
    <3> QED
      BY <3>2 DEF LockHeld
  <2> QED
    BY <2>1
<1> QED
  BY <1>2 DEF Free

LEMMA TopHolds ==
  ASSUME Typed2, NEW p \in Actors, stack[p] # << >>, Top(p).at \in Holding
  PROVE  Holds(stack[p]) # {}
<1>1. stack[p] \in Seq(AFrame)
  BY DEF Typed2, DataTyped
<1>2. Len(stack[p]) \in DOMAIN stack[p] /\ Top(p) = stack[p][Len(stack[p])]
  BY <1>1 DEF Top, Last
<1> QED
  BY <1>2 DEF Holds

-----------------------------------------------------------------------------
(* The list, and the iterator on it.                                       *)
LEMMA FromIs ==
  ASSUME NEW N \in SUBSET Conns, NEW n \in Nat
  PROVE  \/ From(N, n) = NoConn /\ \A m \in N : m < n
         \/ From(N, n) \in N /\ n <= From(N, n) /\ \A m \in N : n <= m => From(N, n) <= m
<1> DEFINE rest == {c \in N : c >= n}
<1>1. N \subseteq Nat
  BY SigslotAssumption
<1>2. CASE rest = {}
  <2>1. From(N, n) = NoConn
    BY <1>2 DEF From
  <2> QED
    BY <1>1, <1>2, <2>1
<1>3. CASE rest # {}
  <2>1. \E m \in rest : \A k \in rest : m <= k
    BY <1>1, <1>3, Least
  <2>2. From(N, n) = CHOOSE c \in rest : \A d \in rest : c <= d
    BY <1>3 DEF From
  <2>3. From(N, n) \in rest /\ \A k \in rest : From(N, n) <= k
    BY <2>1, <2>2
  <2> QED
    BY <1>1, <2>3
<1> QED
  BY <1>2, <1>3

LEMMA MadeAreNumbers ==
  ASSUME Typed2
  PROVE  /\ Made \subseteq Conns /\ Made \subseteq Nat /\ m_connectionList \subseteq Made
         /\ m_currentIterator \in Made \cup {NoConn} /\ NoConn \notin Made
BY SigslotAssumption DEF Typed2, DataTyped, Made

LEMMA EraseIs ==
  ASSUME Typed2, NEW gone, gone \subseteq m_connectionList, Erase(gone)
  PROVE  /\ m_connectionList' = m_connectionList \ gone
         /\ m_currentIterator' \in Made \cup {NoConn}
         /\ m_currentIterator \in m_connectionList \cup {NoConn} =>
              m_currentIterator' \in m_connectionList' \cup {NoConn}
         /\ \A c \in m_connectionList' :
              m_currentIterator # NoConn /\ m_currentIterator <= c =>
                m_currentIterator' # NoConn /\ m_currentIterator' <= c
<1> DEFINE N == m_connectionList \ gone
           it == m_currentIterator
<1>1. /\ Made \subseteq Conns /\ Made \subseteq Nat /\ m_connectionList \subseteq Made
      /\ it \in Made \cup {NoConn} /\ NoConn \notin Made
  BY MadeAreNumbers
<1>2. /\ m_connectionList' = N /\ m_currentIterator' = IF it \in gone THEN From(N, it) ELSE it
      /\ m_connectionList' = m_connectionList \ gone
  BY DEF Erase
<1>3. CASE it \in gone
  <2>1. it \in Nat /\ N \in SUBSET Conns
    BY <1>1, <1>3
  <2>2. \/ From(N, it) = NoConn /\ \A m \in N : m < it
        \/ From(N, it) \in N /\ it <= From(N, it) /\ \A m \in N : it <= m => From(N, it) <= m
    BY <2>1, FromIs
  <2>3. \A m \in N : m \in Nat /\ ~(m < it /\ it <= m)
    BY <1>1, <2>1
  <2> HIDE DEF N
  <2>4. CASE From(N, it) = NoConn /\ \A m \in N : m < it
    BY <1>1, <1>2, <1>3, <2>3, <2>4
  <2>5. CASE From(N, it) \in N /\ it <= From(N, it) /\ \A m \in N : it <= m => From(N, it) <= m
    <3>1. From(N, it) \in Made
      BY <1>1, <2>5 DEF N
    <3> QED
      BY <1>1, <1>2, <1>3, <2>5, <3>1
  <2> QED
    BY <2>2, <2>4, <2>5
<1>4. CASE it \notin gone
  BY <1>1, <1>2, <1>4
<1> QED
  BY <1>3, <1>4

LEMMA IteratorKept ==
  ASSUME Iterator, NEW p \in Actors, OnlyStackOf(p), IsAt(p, "clear") => IsAt(p, "clear")',
         m_currentIterator \in m_connectionList \cup {NoConn} =>
           m_currentIterator' \in m_connectionList' \cup {NoConn}
  PROVE  Iterator'
<1>1. ASSUME NEW q \in Actors, IsAt(q, "clear") PROVE IsAt(q, "clear")'
  BY <1>1, TopsOfOthers
<1> QED
  BY <1>1 DEF Iterator

(* What receivers know, but for one of them, z.                            *)
LEMMA TraceKeptBut ==
  ASSUME Typed2, Trace, NEW p \in Actors, OnlyStackOf(p), NEW z,
         \A r \in Receivers : r # z => Of(r)' \subseteq Of(r) /\ senders'[r] = senders[r],
         partial \subseteq partial', destroyed \subseteq destroyed', destroyed' \subseteq Receivers,
         IsAt(p, "clear") => IsAt(p, "clear")',
         IsAt(p, "addSender") \/ IsAt(p, "leaving") \/ IsAt(p, "leave") => Top(p).r = z,
         z \in Receivers /\ Of(z)' # {} =>
           \/ senders'[z] > 0 \/ z \in partial'
           \/ \E q \in Actors : \/ IsAt(q, "clear")'
                                \/ (IsAt(q, "addSender")' \/ IsAt(q, "leaving")') /\ Top(q)'.r = z,
         \A q \in Actors, r \in Receivers :
           IsAt(q, "dropSender")' /\ Top(q)'.r = r => Of(r)' = {} \/ r \in partial',
         z \in destroyed' /\ senders'[z] > 0 => \E q \in Actors : IsAt(q, "leave")' /\ Top(q)'.r = z,
         \A r \in destroyed' \ destroyed : IsAt(p, "leave")' /\ Top(p)'.r = r
  PROVE  Trace'
<1>1. \A q \in Actors : q # p => /\ \A at : IsAt(q, at)' <=> IsAt(q, at)
                                 /\ Top(q)' = Top(q)
  BY TopsOfOthers
<1>2. ASSUME NEW r \in Receivers, r # z, Of(r)' # {}
      PROVE  \/ senders'[r] > 0 \/ r \in partial'
             \/ \E q \in Actors : \/ IsAt(q, "clear")'
                                  \/ (IsAt(q, "addSender")' \/ IsAt(q, "leaving")') /\ Top(q)'.r = r
  <2>1. \/ senders[r] > 0 \/ r \in partial
        \/ \E q \in Actors : \/ IsAt(q, "clear")
                             \/ (IsAt(q, "addSender") \/ IsAt(q, "leaving")) /\ Top(q).r = r
    BY <1>2 DEF Trace
  <2>2. ASSUME NEW q \in Actors, \/ IsAt(q, "clear")
                                 \/ (IsAt(q, "addSender") \/ IsAt(q, "leaving")) /\ Top(q).r = r
        PROVE  \/ IsAt(q, "clear")'
               \/ (IsAt(q, "addSender")' \/ IsAt(q, "leaving")') /\ Top(q)'.r = r
    BY <1>1, <1>2, <2>2
  <2> QED
    BY <1>2, <2>1, <2>2
<1>3. ASSUME NEW r \in destroyed', r # z, senders'[r] > 0
      PROVE  \E q \in Actors : IsAt(q, "leave")' /\ Top(q)'.r = r
  <2>1. CASE r \in destroyed
    <3>1. PICK q \in Actors : IsAt(q, "leave") /\ Top(q).r = r
      BY <1>3, <2>1 DEF Trace
    <3> QED
      BY <1>1, <1>3, <3>1
  <2>2. CASE r \notin destroyed
    BY <1>3, <2>2
  <2> QED
    BY <2>1, <2>2
<1> QED
  BY <1>2, <1>3 DEF Trace

LEMMA TraceKept ==
  ASSUME Typed2, Trace, NEW p \in Actors, OnlyStackOf(p),
         \A r \in Receivers : Of(r)' \subseteq Of(r), UNCHANGED senders,
         partial \subseteq partial', destroyed \subseteq destroyed', destroyed' \subseteq Receivers,
         ~IsAt(p, "clear"), ~IsAt(p, "addSender"), ~IsAt(p, "leaving"), ~IsAt(p, "leave"),
         ~IsAt(p, "dropSender")',
         \A r \in destroyed' \ destroyed : IsAt(p, "leave")' /\ Top(p)'.r = r
  PROVE  Trace'
<1>1. \A q \in Actors : q # p => /\ \A at : IsAt(q, at)' <=> IsAt(q, at)
                                 /\ Top(q)' = Top(q)
  BY TopsOfOthers
<1>2. ASSUME NEW q \in Actors, NEW r \in Receivers, IsAt(q, "dropSender")', Top(q)'.r = r
      PROVE  Of(r)' = {} \/ r \in partial'
  <2>1. q # p /\ IsAt(q, "dropSender") /\ Top(q).r = r
    BY <1>1, <1>2
  <2>2. Of(r) = {} \/ r \in partial
    BY <2>1 DEF Trace
  <2> QED
    BY <2>2
<1>3. NoReceiver \notin Receivers
  BY SigslotAssumption
<1> QED
  BY <1>1, <1>2, <1>3, TraceKeptBut

(* What most steps of p leave as it was.                                   *)
Ordinary(p, n) ==
  /\ Moves(p, n) /\ ~IsAt(p, "blocked")
  /\ n = Len(stack[p]) - 1 => Top(p).at \notin Slots
  /\ Len(stack'[p]) = n + 1 => stack'[p][n + 1].at \notin Emitting \cup {"task", "call"}
  /\ UNCHANGED <<tasks, fires, reentered>>
  /\ \A c \in Made : conn'[c] = conn[c]
  /\ \A c \in Made \cap m_connectionList' :
       /\ c \in m_connectionList
       /\ m_currentIterator # NoConn /\ m_currentIterator <= c =>
            m_currentIterator' # NoConn /\ m_currentIterator' <= c

LEMMA OrdinaryKeeps ==
  ASSUME SlotInv2, NEW p \in Actors, NEW n, Ordinary(p, n),
         Typed2', Frames', LockHeld', Trace', Iterator'
  PROVE  SlotInv2'
<1>1. Typed2 /\ Frames /\ Waiting /\ Due /\ Single /\ Moves(p, n)
  BY DEF SlotInv2, Ordinary
<1>2. Waiting'
  BY <1>1, WaitingKept DEF Ordinary
<1>3. Due'
  BY <1>1, DueKept DEF Ordinary
<1>4. Single'
  BY <1>1, SingleKept DEF Ordinary
<1> QED
  BY <1>2, <1>3, <1>4 DEF SlotInv2

LEMMA SameConnections ==
  ASSUME UNCHANGED <<conn, m_connectionList>>
  PROVE  Made' = Made /\ \A r : Of(r)' = Of(r)
BY DEF Made, Of

(* The frames the program's calls begin with.                              *)
Entrances == {"connect", "disconnect", "disconnectConn", "disconnectAll", "emit", "leave"}

LEMMA EntranceIs ==
  ASSUME Typed2, NEW p \in Actors, NEW f \in AFrame, MayCall(p), stack' = Pushed(p, f),
         f.at \in Entrances
  PROVE  /\ Moves(p, Len(stack[p])) /\ Len(stack'[p]) = Len(stack[p]) + 1
         /\ stack'[p][Len(stack[p]) + 1] = f /\ Top(p)' = f /\ stack'[p] # << >>
         /\ Len(stack[p]) > 0 => Top(p).at \in Under
         /\ f.at \notin Holding \cup {"task", "call", "slot"}
         /\ \A q \in Actors : Cardinality(Holds(stack'[q])) = Cardinality(Holds(stack[q]))
         /\ \A at : IsAt(p, at) => at = "slot"
<1>1. /\ OnlyStackOf(p) /\ Same(p, Len(stack[p])) /\ Len(stack[p]) \in Nat
      /\ Len(stack'[p]) = Len(stack[p]) + 1 /\ stack'[p][Len(stack'[p])] = f
      /\ stack'[p] # << >> /\ Top(p)' = f
      /\ Cardinality(Holds(stack'[p])) =
           Cardinality(Holds(stack[p])) + IF f.at \in Holding THEN 1 ELSE 0
  BY PushIs
<1>2. f.at \notin Holding \cup {"task", "call", "slot"}
  BY DEF Entrances, Holding, Emitting
<1>3. Moves(p, Len(stack[p]))
  BY <1>1 DEF Moves
<1>4. stack[p] \in Seq(AFrame)
  BY DEF Typed2, DataTyped
<1>5. Len(stack[p]) > 0 => Top(p).at \in Under
  BY <1>4 DEF MayCall, IsAt, Under
<1>6. Cardinality(Holds(stack[p])) \in Nat
  BY <1>4, HoldsIsFinite
<1>7. \A q \in Actors : Cardinality(Holds(stack'[q])) = Cardinality(Holds(stack[q]))
  BY <1>1, <1>2, <1>6 DEF OnlyStackOf
<1> QED
  BY <1>1, <1>2, <1>3, <1>5, <1>7 DEF MayCall, IsAt

LEMMA CallKeeps ==
  ASSUME SlotInv2, NEW p \in Actors, NEW f \in AFrame, Call(p, f), f.at \in Entrances, FrameOK(p, f)
  PROVE  SlotInv2'
<1>1. Typed2 /\ Frames /\ LockHeld /\ Trace /\ Iterator
  BY DEF SlotInv2
<1>2. /\ MayCall(p) /\ stack' = Pushed(p, f)
      /\ UNCHANGED <<recursive, lock, m_connectionList, m_currentIterator, m_unique, conn, senders,
                     held, destroyed, tasks, fires, partial, reentered>>
  BY DEF Call, listVars, histVars
<1> DEFINE n == Len(stack[p])
<1>3. /\ Moves(p, n) /\ Len(stack'[p]) = n + 1
      /\ stack'[p][n + 1] = f /\ Top(p)' = f /\ stack'[p] # << >>
      /\ n > 0 => Top(p).at \in Under
      /\ f.at \notin Holding \cup {"task", "call", "slot"}
      /\ \A q \in Actors : Cardinality(Holds(stack'[q])) = Cardinality(Holds(stack[q]))
      /\ \A at : IsAt(p, at) => at = "slot"
  BY <1>1, <1>2, EntranceIs
<1>4. OnlyStackOf(p) /\ n \in Nat
  BY <1>3 DEF Moves, Same
<1>5. Made' = Made /\ \A r : Of(r)' = Of(r)
  BY <1>2, SameConnections
<1>6. Typed2'
  BY <1>1, <1>2, <1>4, <1>5 DEF Typed2, DataTyped, OnlyStackOf
<1>7. Frames'
  <2>1. FrameOK(p, f)'
    BY <1>2, <1>5 DEF FrameOK
  <2>2. \A g : Len(stack'[p]) = n + 1 /\ g = stack'[p][n + 1] => FrameOK(p, g)' /\ g.at \notin {"task", "call"}
    BY <1>3, <2>1
  <2> HIDE DEF n
  <2> QED
    BY <1>1, <1>2, <1>3, <1>5, <2>2, FramesKept DEF n
<1>8. LockHeld'
  BY <1>1, <1>2, <1>3, LockKept
<1>9. \A at : IsAt(p, at)' => at \in Entrances
  BY <1>3 DEF IsAt
<1>10. Trace'
  <2>1. ~IsAt(p, "dropSender")'
    BY <1>9 DEF Entrances
  <2>2. /\ ~IsAt(p, "clear") /\ ~IsAt(p, "addSender") /\ ~IsAt(p, "leaving") /\ ~IsAt(p, "leave")
    BY <1>3
  <2>3. destroyed \subseteq Receivers
    BY <1>1 DEF Typed2, DataTyped
  <2> QED
    BY <1>1, <1>2, <1>4, <1>5, <2>1, <2>2, <2>3, TraceKept
<1>11. Iterator'
  BY <1>1, <1>2, <1>3, <1>4, IteratorKept
<1>12. Ordinary(p, n)
  BY <1>2, <1>3, <1>4 DEF Ordinary, Holding
<1> QED
  BY <1>6, <1>7, <1>8, <1>10, <1>11, <1>12, OrdinaryKeeps

LEMMA FrameIs ==
  ASSUME NEW at \in Places, NEW c \in Conns \cup {NoConn}, NEW r \in Receivers \cup {NoReceiver},
         NEW n \in Nat, NEW due \in SUBSET (Kinds \cup Conns \cup Actors \cup {NoThread})
  PROVE  LET f == Frame(at, c, r, n, due)
         IN  f \in AFrame /\ f.at = at /\ f.c = c /\ f.r = r /\ f.n = n /\ f.due = due
BY DEF Frame, AFrame

LEMMA ProgramCallKeeps ==
  ASSUME SlotInv2, NEW p \in Actors,
         \/ \E k \in Kinds : Connect(p, k)
         \/ \E r \in Receivers : Disconnect(p, r) \/ Leave(p, r)
         \/ \E c \in Conns : DisconnectConn(p, c)
         \/ DisconnectAll(p) \/ Emit(p)
  PROVE  SlotInv2'
<1>1. /\ held \subseteq Receivers /\ destroyed \subseteq Receivers /\ held \cap destroyed = {}
      /\ NoReceiver \notin Receivers
  BY SigslotAssumption DEF SlotInv2, Typed2, DataTyped
<1>2. Entrances \subseteq Places
  BY DEF Entrances, Places, Holding, Emitting, Under
<1>3. ASSUME NEW k \in Kinds, Connect(p, k) PROVE SlotInv2'
  <2> DEFINE f == Frame("connect", NoConn, k.receiver, 0, {k})
  <2>1. k.receiver \in Receivers \cup {NoReceiver}
    BY SigslotAssumption DEF Kind
  <2>2. f \in AFrame /\ f.at = "connect" /\ f.r = k.receiver /\ f.due = {k}
    BY <1>2, <2>1, FrameIs DEF Entrances
  <2>3. Call(p, f) /\ k.receiver \notin destroyed
    BY <1>1, <1>3, <2>1 DEF Connect
  <2> HIDE DEF f
  <2>4. FrameOK(p, f)
    BY <2>2, <2>3 DEF FrameOK, Slots, Emitting
  <2> QED
    BY <2>2, <2>3, <2>4, CallKeeps DEF Entrances
<1>4. ASSUME NEW at \in {"disconnect", "leave"}, NEW r \in Receivers, r \in held,
             Call(p, Frame(at, NoConn, r, 0, {}))
      PROVE  SlotInv2'
  <2> DEFINE f == Frame(at, NoConn, r, 0, {})
  <2>1. f \in AFrame /\ f.at = at /\ f.r = r
    <3>1. /\ at \in Places /\ {} \in SUBSET (Kinds \cup Conns \cup Actors \cup {NoThread}) /\ 0 \in Nat
          /\ r \in Receivers \cup {NoReceiver} /\ NoConn \in Conns \cup {NoConn}
      BY <1>2 DEF Entrances
    <3> QED
      BY <3>1, FrameIs
  <2>2. Call(p, f) /\ r \notin destroyed
    BY <1>1, <1>4
  <2> HIDE DEF f
  <2>3. FrameOK(p, f)
    BY <2>1, <2>2 DEF FrameOK, Slots, Emitting
  <2> QED
    BY <2>1, <2>2, <2>3, CallKeeps DEF Entrances
<1>5. ASSUME NEW at \in {"disconnectConn", "disconnectAll", "emit"}, NEW c \in Conns \cup {NoConn},
             Call(p, Frame(at, c, NoReceiver, 0, {}))
      PROVE  SlotInv2'
  <2> DEFINE f == Frame(at, c, NoReceiver, 0, {})
  <2>1. f \in AFrame /\ f.at = at /\ f.r = NoReceiver
    <3>1. at \in Places /\ {} \in SUBSET (Kinds \cup Conns \cup Actors \cup {NoThread}) /\ 0 \in Nat
      BY <1>2 DEF Entrances
    <3> QED
      BY <3>1, FrameIs
  <2>2. Call(p, f) /\ NoReceiver \notin destroyed
    BY <1>1, <1>5
  <2> HIDE DEF f
  <2>3. FrameOK(p, f)
    BY <2>1, <2>2 DEF FrameOK, Slots, Emitting
  <2> QED
    BY <2>1, <2>2, <2>3, CallKeeps DEF Entrances
<1> QED
  BY <1>3, <1>4, <1>5 DEF Disconnect, Leave, DisconnectConn, DisconnectAll, Emit, At

LEMMA StackStays ==
  ASSUME Typed2, NEW p \in Actors, UNCHANGED stack
  PROVE  /\ Moves(p, Len(stack[p])) /\ Len(stack'[p]) = Len(stack[p]) /\ Len(stack[p]) \in Nat
         /\ \A q \in Actors : Cardinality(Holds(stack'[q])) = Cardinality(Holds(stack[q]))
         /\ \A q \in Actors : Top(q)' = Top(q) /\ \A at : IsAt(q, at)' <=> IsAt(q, at)
<1>1. stack \in [Actors -> Seq(AFrame)] /\ Len(stack[p]) \in Nat
  BY DEF Typed2, DataTyped
<1> QED
  BY <1>1 DEF Moves, OnlyStackOf, Same, Top, IsAt

LEMMA DropKeeps ==
  ASSUME SlotInv2, NEW p \in Actors, NEW r \in Receivers, Drop(p, r)
  PROVE  SlotInv2'
<1>1. /\ Typed2 /\ Frames /\ LockHeld /\ Trace /\ Iterator
      /\ held \subseteq Receivers /\ destroyed \subseteq Receivers /\ held \cap destroyed = {}
  BY DEF SlotInv2, Typed2, DataTyped
<1>2. /\ MayCall(p) /\ r \in held /\ held' = held \ {r}
      /\ UNCHANGED <<recursive, lock, m_connectionList, m_currentIterator, m_unique, conn, senders,
                     tasks, fires, partial, reentered>>
  BY DEF Drop, listVars, histVars
<1> DEFINE n == Len(stack[p])
<1>3. Made' = Made /\ \A z : Of(z)' = Of(z)
  BY <1>2, SameConnections
<1>4. /\ ~IsAt(p, "clear") /\ ~IsAt(p, "addSender") /\ ~IsAt(p, "leaving") /\ ~IsAt(p, "leave")
      /\ ~IsAt(p, "blocked") /\ ~IsAt(p, "dropSender")
  BY <1>2 DEF MayCall, IsAt
<1>5. CASE InUse(r, stack)
  <2>1. UNCHANGED <<destroyed, stack>>
    BY <1>5 DEF Drop
  <2>2. /\ Moves(p, n) /\ Len(stack'[p]) = n /\ n \in Nat
        /\ \A q \in Actors : Cardinality(Holds(stack'[q])) = Cardinality(Holds(stack[q]))
        /\ \A q \in Actors : Top(q)' = Top(q) /\ \A at : IsAt(q, at)' <=> IsAt(q, at)
    BY <1>1, <2>1, StackStays
  <2>3. OnlyStackOf(p)
    BY <2>2 DEF Moves
  <2>4. Typed2'
    BY <1>1, <1>2, <1>3, <2>1 DEF Typed2, DataTyped
  <2>5. Frames'
    <3> HIDE DEF n
    <3>1. n = Len(stack[p])
      BY DEF n
    <3> QED
      BY <1>1, <1>3, <2>1, <2>2, <3>1, FramesKept
  <2>6. LockHeld'
    BY <1>1, <1>2, <2>2, LockKept
  <2>7. Trace'
    BY <1>1, <1>2, <1>3, <1>4, <2>1, <2>2, <2>3, TraceKept
  <2>8. Iterator'
    BY <1>1, <1>2, <1>4, <2>3, IteratorKept
  <2>9. Ordinary(p, n)
    BY <1>2, <1>4, <2>2 DEF Ordinary
  <2> QED
    BY <2>4, <2>5, <2>6, <2>7, <2>8, <2>9, OrdinaryKeeps
<1>6. CASE ~InUse(r, stack)
  <2> DEFINE f == Frame("leave", NoConn, r, 0, {})
  <2>1. f \in AFrame /\ f.at = "leave" /\ f.r = r
    <3>1. /\ "leave" \in Places /\ {} \in SUBSET (Kinds \cup Conns \cup Actors \cup {NoThread}) /\ 0 \in Nat
          /\ r \in Receivers \cup {NoReceiver} /\ NoConn \in Conns \cup {NoConn}
      BY DEF Places
    <3> QED
      BY <3>1, FrameIs
  <2>2. destroyed' = destroyed \cup {r} /\ stack' = Pushed(p, f)
    BY <1>6 DEF Drop
  <2> HIDE DEF f
  <2>3. /\ Moves(p, n) /\ Len(stack'[p]) = n + 1
        /\ stack'[p][n + 1] = f /\ Top(p)' = f /\ stack'[p] # << >>
        /\ n > 0 => Top(p).at \in Under
        /\ f.at \notin Holding \cup {"task", "call", "slot"}
        /\ \A q \in Actors : Cardinality(Holds(stack'[q])) = Cardinality(Holds(stack[q]))
    BY <1>1, <1>2, <2>1, <2>2, EntranceIs DEF Entrances
  <2>4. OnlyStackOf(p) /\ n \in Nat /\ \A i \in 1 .. n : stack'[p][i] = stack[p][i]
    BY <2>3 DEF Moves, Same
  <2>5. Typed2'
    BY <1>1, <1>2, <1>3, <2>2, <2>4 DEF Typed2, DataTyped, OnlyStackOf
  <2>6. Frames'
    <3>1. FrameOK(p, f)'
      BY <2>1 DEF FrameOK, Slots, Emitting
    <3>2. \A g : Len(stack'[p]) = n + 1 /\ g = stack'[p][n + 1] => FrameOK(p, g)' /\ g.at \notin {"task", "call"}
      BY <2>3, <3>1
    <3>3. ASSUME NEW q \in Actors, NEW i \in DOMAIN stack'[q], stack'[q][i].r = r
          PROVE  stack'[q][i].at \in {"leave", "leaving"}
      <4>1. CASE q = p /\ i = n + 1
        BY <2>1, <2>3, <4>1
      <4>2. CASE q # p
        <5>1. i \in DOMAIN stack[q] /\ stack[q][i].r = r
          BY <2>4, <3>3, <4>2 DEF OnlyStackOf
        <5> QED
          BY <1>6, <5>1 DEF InUse
      <4>3. CASE q = p /\ i # n + 1
        <5>1. stack[p] \in Seq(AFrame) /\ stack'[p] \in Seq(AFrame)
          BY <1>1, <2>4 DEF Typed2, DataTyped, OnlyStackOf
        <5>2. i \in 1 .. n
          BY <2>3, <3>3, <4>3, <5>1
        <5>3. i \in DOMAIN stack[p] /\ stack[p][i].r = r
          BY <2>4, <3>3, <4>3, <5>1, <5>2
        <5> QED
          BY <1>6, <5>3 DEF InUse
      <4> QED
        BY <4>1, <4>2, <4>3
    <3> HIDE DEF n
    <3>4. n = Len(stack[p])
      BY DEF n
    <3> QED
      BY <1>1, <1>3, <2>2, <2>3, <3>2, <3>3, <3>4, FramesKept
  <2>7. LockHeld'
    BY <1>1, <1>2, <2>3, LockKept
  <2>8. \A at : IsAt(p, at)' <=> at = "leave"
    BY <2>1, <2>3 DEF IsAt
  <2>9. Trace'
    <3>1. /\ ~IsAt(p, "dropSender")'
          /\ \A z \in destroyed' \ destroyed : IsAt(p, "leave")' /\ Top(p)'.r = z
      BY <2>1, <2>2, <2>3, <2>8
    <3>2. destroyed \subseteq destroyed' /\ destroyed' \subseteq Receivers
      BY <1>1, <2>2
    <3> QED
      BY <1>1, <1>2, <1>3, <1>4, <2>4, <3>1, <3>2, TraceKept
  <2>10. Iterator'
    BY <1>1, <1>2, <1>4, <2>4, IteratorKept
  <2>11. Ordinary(p, n)
    BY <1>2, <1>4, <2>3, <2>4 DEF Ordinary, Holding
  <2> QED
    BY <2>5, <2>6, <2>7, <2>9, <2>10, <2>11, OrdinaryKeeps
<1> QED
  BY <1>5, <1>6

-----------------------------------------------------------------------------
(* Steps of a call: it returns, or it goes on.                             *)
LEMMA TopOfStack ==
  ASSUME Typed2, Frames, NEW p \in Actors, NEW at, IsAt(p, at)
  PROVE  /\ stack[p] # << >> /\ stack[p] \in Seq(AFrame) /\ Len(stack[p]) \in Nat /\ Len(stack[p]) >= 1
         /\ Top(p) = stack[p][Len(stack[p])] /\ Top(p) \in AFrame /\ Top(p).at = at
         /\ Len(stack[p]) \in DOMAIN stack[p] /\ FrameOK(p, Top(p))
<1>1. stack[p] # << >> /\ Top(p).at = at /\ stack[p] \in Seq(AFrame)
  BY DEF IsAt, Typed2, DataTyped
<1>2. /\ Len(stack[p]) \in Nat /\ Len(stack[p]) >= 1 /\ Top(p) = stack[p][Len(stack[p])]
      /\ Len(stack[p]) \in DOMAIN stack[p] /\ Top(p) \in AFrame
  BY <1>1 DEF Top, Last
<1> QED
  BY <1>1, <1>2 DEF Frames

LEMMA ReturnIs ==
  ASSUME Typed2, Frames, NEW p \in Actors, NEW n, n = Len(stack[p]) - 1, stack[p] # << >>,
         Return(p), Made \subseteq Made', UNCHANGED held
  PROVE  /\ Moves(p, n) /\ n \in Nat /\ Frames'
         /\ Len(stack'[p]) = n + 1 => stack'[p][n + 1].at = "leave"
         /\ Cardinality(Holds(stack[p])) =
              Cardinality(Holds(stack'[p])) + IF Top(p).at \in Holding THEN 1 ELSE 0
         /\ \A at : IsAt(p, at)' => at \in Under \cup {"leave"}
         /\ destroyed \subseteq destroyed' /\ destroyed' \subseteq Receivers /\ held' \cap destroyed' = {}
         /\ \A r \in destroyed' \ destroyed : IsAt(p, "leave")' /\ Top(p)'.r = r
<1>0. PICK r \in Receivers \cup {NoReceiver} : r = Top(p).r
  <2>1. stack[p] \in Seq(AFrame)
    BY DEF Typed2, DataTyped
  <2>2. Top(p) \in AFrame
    BY <2>1, FrontIs DEF Top
  <2> QED
    BY <2>2 DEF AFrame
<1> DEFINE last == r \in Receivers \ (held \cup destroyed) /\ ~InUse(r, Popped(p))
           f == Frame("leave", NoConn, r, 0, {})
<1>1. /\ destroyed \subseteq Receivers /\ held \cap destroyed = {}
      /\ stack[p] \in Seq(AFrame) /\ Len(stack[p]) \in Nat /\ Len(stack[p]) >= 1
  BY DEF Typed2, DataTyped
<1>2. CASE ~last
  <2>1. stack' = Popped(p) /\ destroyed' = destroyed
    BY <1>0, <1>2 DEF Return
  <2>2. /\ OnlyStackOf(p) /\ Same(p, Len(stack[p]) - 1)
        /\ Len(stack'[p]) = Len(stack[p]) - 1
        /\ Cardinality(Holds(stack[p])) =
             Cardinality(Holds(stack'[p])) + IF Top(p).at \in Holding THEN 1 ELSE 0
    BY <2>1, PopIs
  <2>3. Moves(p, n) /\ n \in Nat /\ Len(stack'[p]) = n
    BY <1>1, <2>2 DEF Moves
  <2>4. Frames'
    BY <1>1, <2>1, <2>3, FramesKept
  <2>5. ASSUME NEW at, IsAt(p, at)' PROVE at \in Under
    BY <2>3, <2>5, TopWasUnder DEF IsAt
  <2> QED
    BY <1>1, <2>1, <2>2, <2>3, <2>4, <2>5
<1>3. CASE last
  <2>1. stack' = Changed(p, f) /\ destroyed' = destroyed \cup {r}
    BY <1>0, <1>3 DEF Return
  <2>2. f \in AFrame /\ f.at = "leave" /\ f.r = r
    <3>1. "leave" \in Places
      BY DEF Places
    <3> QED
      BY <1>3, <3>1, FrameIs
  <2> HIDE DEF f
  <2>3. /\ OnlyStackOf(p) /\ Same(p, Len(stack[p]) - 1)
        /\ Len(stack'[p]) = Len(stack[p]) /\ stack'[p][Len(stack'[p])] = f
        /\ stack'[p] # << >> /\ Top(p)' = f
        /\ Cardinality(Holds(stack[p])) + (IF f.at \in Holding THEN 1 ELSE 0) =
             Cardinality(Holds(stack'[p])) + IF Top(p).at \in Holding THEN 1 ELSE 0
    BY <2>1, <2>2, ChangeIs
  <2>4. /\ Moves(p, n) /\ n \in Nat /\ Len(stack'[p]) = n + 1 /\ stack'[p][n + 1] = f
        /\ \A i \in 1 .. n : stack'[p][i] = stack[p][i]
    BY <1>1, <2>3 DEF Moves, Same
  <2>5. Cardinality(Holds(stack[p])) =
          Cardinality(Holds(stack'[p])) + IF Top(p).at \in Holding THEN 1 ELSE 0
    <3>1. Cardinality(Holds(stack[p])) \in Nat
      BY <1>1, HoldsIsFinite
    <3>2. f.at \notin Holding
      BY <2>2 DEF Holding, Emitting
    <3> QED
      BY <2>3, <3>1, <3>2
  <2>6. ASSUME NEW q \in Actors, NEW i \in DOMAIN stack'[q], stack'[q][i].r = r
        PROVE  stack'[q][i].at \in {"leave", "leaving"}
    <3>1. /\ stack \in [Actors -> Seq(AFrame)] /\ Popped(p) = [stack EXCEPT ![p] = Front(stack[p])]
          /\ Len(Front(stack[p])) = n /\ Front(stack[p]) \in Seq(AFrame)
          /\ \A j \in 1 .. n : Front(stack[p])[j] = stack[p][j]
      BY <1>1, <2>4, FrontIs DEF Typed2, DataTyped, Popped
    <3>2. CASE q = p /\ i = n + 1
      BY <2>2, <2>4, <3>2
    <3>3. CASE q # p
      <4>1. Popped(p)[q] = stack'[q]
        BY <2>3, <3>1, <3>3 DEF OnlyStackOf
      <4> QED
        BY <1>3, <2>6, <4>1 DEF InUse
    <3>4. CASE q = p /\ i # n + 1
      <4>1. stack'[p] \in Seq(AFrame)
        BY <2>3 DEF OnlyStackOf
      <4>2. i \in 1 .. n
        BY <2>4, <2>6, <3>4, <4>1
      <4>3. Popped(p)[p] = Front(stack[p])
        BY <3>1
      <4>4. i \in DOMAIN Popped(p)[p] /\ Popped(p)[p][i].r = r
        BY <2>4, <2>6, <3>1, <3>4, <4>2, <4>3
      <4> QED
        BY <1>3, <4>4 DEF InUse
    <3> QED
      BY <3>2, <3>3, <3>4
  <2>7. Frames'
    <3>1. FrameOK(p, f)'
      BY <1>3, <2>2 DEF FrameOK, Slots, Emitting
    <3>2. \A g : Len(stack'[p]) = n + 1 /\ g = stack'[p][n + 1] => FrameOK(p, g)' /\ g.at \notin {"task", "call"}
      BY <2>2, <2>4, <3>1
    <3> HIDE DEF last
    <3> QED
      BY <1>1, <2>1, <2>4, <2>6, <3>2, FramesKept
  <2>8. \A at : IsAt(p, at)' <=> at = "leave"
    BY <2>2, <2>3 DEF IsAt
  <2> QED
    BY <1>1, <1>3, <2>1, <2>2, <2>3, <2>4, <2>5, <2>7, <2>8
<1> QED
  BY <1>2, <1>3

LEMMA GoToIs ==
  ASSUME Typed2, Frames, NEW p \in Actors, NEW n, n = Len(stack[p]) - 1, stack[p] # << >>,
         NEW f \in AFrame, stack' = Changed(p, f), Made \subseteq Made', UNCHANGED destroyed,
         FrameOK(p, f)', f.at \notin {"task", "call"}
  PROVE  /\ Moves(p, n) /\ n \in Nat /\ Frames' /\ OnlyStackOf(p)
         /\ Len(stack'[p]) = n + 1 /\ stack'[p][n + 1] = f /\ Top(p)' = f
         /\ \A at : IsAt(p, at)' <=> at = f.at
         /\ Cardinality(Holds(stack[p])) + (IF f.at \in Holding THEN 1 ELSE 0) =
              Cardinality(Holds(stack'[p])) + IF Top(p).at \in Holding THEN 1 ELSE 0
<1>1. /\ OnlyStackOf(p) /\ Same(p, Len(stack[p]) - 1) /\ Len(stack[p]) \in Nat
      /\ Len(stack'[p]) = Len(stack[p]) /\ stack'[p][Len(stack'[p])] = f
      /\ stack'[p] # << >> /\ Top(p)' = f
      /\ Cardinality(Holds(stack[p])) + (IF f.at \in Holding THEN 1 ELSE 0) =
           Cardinality(Holds(stack'[p])) + IF Top(p).at \in Holding THEN 1 ELSE 0
  BY ChangeIs
<1>2. Moves(p, n) /\ n \in Nat /\ Len(stack'[p]) = n + 1 /\ stack'[p][n + 1] = f
  BY <1>1 DEF Moves, Same
<1>3. \A g : Len(stack'[p]) = n + 1 /\ g = stack'[p][n + 1] => FrameOK(p, g)' /\ g.at \notin {"task", "call"}
  BY <1>2
<1>4. ~(n = Len(stack[p]))
  BY <1>1
<1>5. Frames'
  BY <1>2, <1>3, <1>4, FramesKept
<1>6. \A at : IsAt(p, at)' <=> at = f.at
  BY <1>1 DEF IsAt
<1> QED
  BY <1>1, <1>2, <1>5, <1>6

(* What the list and its connections may do in an ordinary step.           *)
Mutexes == [Locks -> [owner : Actors \cup {NoThread}, depth : Int]]
DataKept ==
  /\ Made \subseteq Made' /\ \A c \in Made : conn'[c] = conn[c]
  /\ m_connectionList' \subseteq Made' /\ m_currentIterator' \in Made' \cup {NoConn}
  /\ conn' \in [Conns -> Connection] /\ senders' \in [Receivers -> Nat]
  /\ UNCHANGED <<held, tasks, fires, reentered>>
  /\ \A c \in Made \cap m_connectionList' :
       /\ c \in m_connectionList
       /\ m_currentIterator # NoConn /\ m_currentIterator <= c =>
            m_currentIterator' # NoConn /\ m_currentIterator' <= c

LEMMA TypedKept ==
  ASSUME Typed2, NEW p \in Actors, OnlyStackOf(p), DataKept, lock' \in Mutexes, lock'[Sig].depth \in Nat,
         destroyed' \subseteq Receivers, held' \cap destroyed' = {}
  PROVE  Typed2'
<1>1. DataTyped'
  <2>1. fires' \in [Conns -> Nat] /\ \A c \in Conns \ Made' : fires'[c] = 0
    BY DEF Typed2, DataTyped, DataKept
  <2> QED
    BY <2>1 DEF DataTyped, DataKept, Mutexes
<1>2. tasks' \in Seq(Task) /\ \A i \in DOMAIN tasks' : tasks'[i].c \in Made'
  BY DEF Typed2, DataKept
<1>3. stack' \in [Actors -> Seq(AFrame)] /\ held' \subseteq Receivers
  BY DEF Typed2, OnlyStackOf, DataKept
<1> QED
  BY <1>1, <1>2, <1>3 DEF Typed2

LEMMA NothingMoves ==
  ASSUME Typed2, senders' \in [Receivers -> Nat],
         UNCHANGED <<m_connectionList, m_currentIterator, conn, held, tasks, fires, reentered>>
  PROVE  DataKept /\ \A r : Of(r)' = Of(r)
<1>1. Made' = Made /\ \A r : Of(r)' = Of(r)
  BY SameConnections
<1> QED
  BY <1>1 DEF DataKept, Typed2, DataTyped

LEMMA EraseKeeps ==
  ASSUME Typed2, NEW gone, gone \subseteq m_connectionList, Erase(gone), senders' \in [Receivers -> Nat],
         UNCHANGED <<conn, held, tasks, fires, reentered>>
  PROVE  /\ DataKept /\ \A r : Of(r)' = Of(r) \ gone
         /\ m_currentIterator \in m_connectionList \cup {NoConn} =>
              m_currentIterator' \in m_connectionList' \cup {NoConn}
<1>1. Made' = Made
  BY DEF Made
<1>2. /\ m_connectionList' = m_connectionList \ gone
      /\ m_currentIterator' \in Made \cup {NoConn}
      /\ m_currentIterator \in m_connectionList \cup {NoConn} =>
           m_currentIterator' \in m_connectionList' \cup {NoConn}
      /\ \A c \in m_connectionList' :
           m_currentIterator # NoConn /\ m_currentIterator <= c =>
             m_currentIterator' # NoConn /\ m_currentIterator' <= c
  BY EraseIs
<1>3. m_connectionList \subseteq Made
  BY DEF Typed2, DataTyped
<1>4. \A r : Of(r)' = Of(r) \ gone
  BY <1>2 DEF Of
<1>5. m_connectionList' \subseteq Made' /\ m_currentIterator' \in Made' \cup {NoConn}
  BY <1>1, <1>2, <1>3
<1>6. conn' \in [Conns -> Connection]
  BY DEF Typed2, DataTyped
<1> QED
  BY <1>1, <1>2, <1>4, <1>5, <1>6 DEF DataKept

LEMMA LocksTyped ==
  ASSUME Typed2, NEW p \in Actors, NEW l \in Locks
  PROVE  /\ lock \in Mutexes /\ lock[Sig].depth \in Nat
         /\ Locked(l, p) \in Mutexes /\ Released(l) \in Mutexes
         /\ l = Sig => Locked(l, p)[Sig].depth \in Nat
         /\ l = Sig /\ lock[Sig].depth # 0 => Released(l)[Sig].depth \in Nat
         /\ l # Sig => Locked(l, p)[Sig] = lock[Sig] /\ Released(l)[Sig] = lock[Sig]
<1>1. /\ Sig \in Locks /\ lock \in Mutexes
      /\ lock[Sig].depth \in Nat /\ lock[Sig].owner \in Actors \cup {NoThread}
  BY SigIsALock DEF Mutexes
<1>2. lock[l] \in [owner : Actors \cup {NoThread}, depth : Int]
  BY <1>1 DEF Mutexes
<1>3. [owner |-> p, depth |-> lock[l].depth + 1] \in [owner : Actors \cup {NoThread}, depth : Int]
  BY <1>2
<1>4. Locked(l, p) = [lock EXCEPT ![l] = [owner |-> p, depth |-> lock[l].depth + 1]]
  BY DEF Locked
<1> DEFINE free == IF lock[l].depth = 1 THEN Unlocked
                   ELSE [owner |-> lock[l].owner, depth |-> lock[l].depth - 1]
<1>5. free \in [owner : Actors \cup {NoThread}, depth : Int]
  BY <1>2 DEF Unlocked
<1>6. Released(l) = [lock EXCEPT ![l] = free]
  BY DEF Released
<1>7. l = Sig /\ lock[Sig].depth # 0 => free.depth \in Nat
  BY <1>1 DEF Unlocked
<1> HIDE DEF free
<1>8. Locked(l, p) \in Mutexes
  BY <1>1, <1>3, <1>4 DEF Mutexes
<1>9. Released(l) \in Mutexes
  BY <1>1, <1>5, <1>6 DEF Mutexes
<1> QED
  BY <1>1, <1>4, <1>6, <1>7, <1>8, <1>9 DEF Mutexes

LEMMA ReturnKeeps ==
  ASSUME SlotInv2, NEW p \in Actors, NEW at, IsAt(p, at), at \notin Slots, Return(p), DataKept,
         at \in Holding => lock' = Released(Sig),
         at \notin Holding => lock' \in Mutexes /\ lock'[Sig] = lock[Sig],
         Trace', Iterator'
  PROVE  SlotInv2'
<1> DEFINE n == Len(stack[p]) - 1
<1>1. Typed2 /\ Frames /\ LockHeld
  BY DEF SlotInv2
<1>2. /\ stack[p] # << >> /\ Top(p).at = at /\ Top(p) \in AFrame /\ stack[p] \in Seq(AFrame)
  BY <1>1, TopOfStack
<1>3. Made \subseteq Made' /\ UNCHANGED held
  BY DEF DataKept
<1>4. /\ Moves(p, n) /\ n \in Nat /\ Frames'
      /\ Len(stack'[p]) = n + 1 => stack'[p][n + 1].at = "leave"
      /\ Cardinality(Holds(stack[p])) =
           Cardinality(Holds(stack'[p])) + IF Top(p).at \in Holding THEN 1 ELSE 0
      /\ destroyed' \subseteq Receivers /\ held' \cap destroyed' = {}
  BY <1>1, <1>2, <1>3, ReturnIs
<1>5. OnlyStackOf(p)
  BY <1>4 DEF Moves
<1>6. Cardinality(Holds(stack[p])) \in Nat /\ Cardinality(Holds(stack'[p])) \in Nat
  BY <1>2, <1>5, HoldsIsFinite DEF OnlyStackOf
<1>7. lock' \in Mutexes /\ lock'[Sig].depth \in Nat /\ LockHeld'
  <2>1. CASE at \in Holding
    <3>1. Cardinality(Holds(stack[p])) = Cardinality(Holds(stack'[p])) + 1
      BY <1>2, <1>4, <2>1
    <3>2. LockHeld'
      BY <1>1, <1>5, <2>1, <3>1, LockReleased
    <3>3. lock[Sig].depth # 0
      BY <1>1, <1>6, <3>1 DEF LockHeld
    <3>4. Sig \in Locks
      BY <1>1, SigIsALock
    <3> QED
      BY <1>1, <2>1, <3>2, <3>3, <3>4, LocksTyped
  <2>2. CASE at \notin Holding
    <3>1. \A q \in Actors : Cardinality(Holds(stack'[q])) = Cardinality(Holds(stack[q]))
      BY <1>2, <1>4, <1>5, <1>6, <2>2 DEF OnlyStackOf
    <3>2. LockHeld'
      BY <1>1, <2>2, <3>1, LockKept
    <3>3. lock[Sig].depth \in Nat
      BY <1>1, SigIsALock
    <3> QED
      BY <2>2, <3>2, <3>3
  <2> QED
    BY <2>1, <2>2
<1>8. Typed2'
  BY <1>1, <1>4, <1>5, <1>7, TypedKept
<1>9. Ordinary(p, n)
  BY <1>2, <1>4 DEF Ordinary, DataKept, Emitting, IsAt, Slots
<1> HIDE DEF n
<1> QED
  BY <1>4, <1>7, <1>8, <1>9, OrdinaryKeeps

LEMMA GoKeeps ==
  ASSUME SlotInv2, NEW p \in Actors, NEW at, IsAt(p, at), at \notin Slots, NEW f \in AFrame,
         stack' = Changed(p, f), DataKept, UNCHANGED destroyed,
         f.at \notin Emitting \cup {"task", "call"}, FrameOK(p, f)',
         at \in Holding => f.at \in Holding,
         at \notin Holding /\ f.at \in Holding => Free(Sig, p) /\ lock' = Locked(Sig, p),
         at \in Holding \/ f.at \notin Holding => lock' \in Mutexes /\ lock'[Sig] = lock[Sig],
         Trace', Iterator'
  PROVE  SlotInv2'
<1> DEFINE n == Len(stack[p]) - 1
<1>1. Typed2 /\ Frames /\ LockHeld
  BY DEF SlotInv2
<1>2. /\ stack[p] # << >> /\ Top(p).at = at /\ Top(p) \in AFrame /\ stack[p] \in Seq(AFrame)
  BY <1>1, TopOfStack
<1>3. Made \subseteq Made' /\ UNCHANGED held
  BY DEF DataKept
<1>4. /\ Moves(p, n) /\ n \in Nat /\ Frames' /\ OnlyStackOf(p)
      /\ Len(stack'[p]) = n + 1 /\ stack'[p][n + 1] = f
      /\ Cardinality(Holds(stack[p])) + (IF f.at \in Holding THEN 1 ELSE 0) =
           Cardinality(Holds(stack'[p])) + IF Top(p).at \in Holding THEN 1 ELSE 0
  BY <1>1, <1>2, <1>3, GoToIs
<1>5. Cardinality(Holds(stack[p])) \in Nat /\ Cardinality(Holds(stack'[p])) \in Nat
  BY <1>2, <1>4, HoldsIsFinite DEF OnlyStackOf
<1>6. lock' \in Mutexes /\ lock'[Sig].depth \in Nat /\ LockHeld'
  <2>1. CASE at \notin Holding /\ f.at \in Holding
    <3>1. Cardinality(Holds(stack'[p])) = Cardinality(Holds(stack[p])) + 1
      BY <1>2, <1>4, <1>5, <2>1
    <3>2. LockHeld'
      BY <1>1, <1>4, <2>1, <3>1, LockTaken
    <3>3. Sig \in Locks
      BY <1>1, SigIsALock
    <3> QED
      BY <1>1, <2>1, <3>2, <3>3, LocksTyped
  <2>2. CASE at \in Holding \/ f.at \notin Holding
    <3>1. \A q \in Actors : Cardinality(Holds(stack'[q])) = Cardinality(Holds(stack[q]))
      BY <1>2, <1>4, <1>5, <2>2 DEF OnlyStackOf
    <3>2. LockHeld'
      BY <1>1, <2>2, <3>1, LockKept
    <3>3. lock[Sig].depth \in Nat
      BY <1>1, SigIsALock
    <3> QED
      BY <2>2, <3>2, <3>3
  <2> QED
    BY <2>1, <2>2
<1>7. destroyed' \subseteq Receivers /\ held' \cap destroyed' = {}
  BY <1>1, <1>3 DEF Typed2
<1>8. Typed2'
  BY <1>1, <1>4, <1>6, <1>7, TypedKept
<1>9. Ordinary(p, n)
  BY <1>2, <1>4 DEF Ordinary, DataKept, Emitting, IsAt, Slots
<1> HIDE DEF n
<1> QED
  BY <1>4, <1>6, <1>8, <1>9, OrdinaryKeeps

(* A call that neither changes what receivers know nor adds a connection.  *)
LEMMA PlainReturnKeeps ==
  ASSUME SlotInv2, NEW p \in Actors, NEW at, IsAt(p, at),
         at \notin Slots \cup {"clear", "addSender", "leaving", "leave"}, Return(p), DataKept,
         at \in Holding => lock' = Released(Sig),
         at \notin Holding => UNCHANGED lock,
         UNCHANGED senders, \A r \in Receivers : Of(r)' \subseteq Of(r), partial \subseteq partial',
         m_currentIterator \in m_connectionList \cup {NoConn} =>
           m_currentIterator' \in m_connectionList' \cup {NoConn}
  PROVE  SlotInv2'
<1> DEFINE n == Len(stack[p]) - 1
<1>1. Typed2 /\ Frames /\ Trace /\ Iterator
  BY DEF SlotInv2
<1>2. stack[p] # << >> /\ Top(p).at = at
  BY DEF IsAt
<1>3. Made \subseteq Made' /\ UNCHANGED held
  BY DEF DataKept
<1>4. /\ Moves(p, n) /\ \A z : IsAt(p, z)' => z \in Under \cup {"leave"}
      /\ destroyed \subseteq destroyed' /\ destroyed' \subseteq Receivers
      /\ \A r \in destroyed' \ destroyed : IsAt(p, "leave")' /\ Top(p)'.r = r
  BY <1>1, <1>2, <1>3, ReturnIs
<1>5. OnlyStackOf(p) /\ ~IsAt(p, "dropSender")'
  BY <1>4 DEF Moves, Under
<1>6. ~IsAt(p, "clear") /\ ~IsAt(p, "addSender") /\ ~IsAt(p, "leaving") /\ ~IsAt(p, "leave")
  BY <1>2 DEF IsAt
<1>7. Trace'
  BY <1>1, <1>4, <1>5, <1>6, TraceKept
<1>8. Iterator'
  BY <1>1, <1>5, <1>6, IteratorKept
<1>9. lock \in Mutexes
  BY <1>1 DEF Typed2, DataTyped, Mutexes
<1> QED
  BY <1>7, <1>8, <1>9, ReturnKeeps

LEMMA SlotReturnKeeps ==
  ASSUME SlotInv2, NEW p \in Actors, SlotReturn(p)
  PROVE  SlotInv2'
<1>1. Typed2 /\ senders \in [Receivers -> Nat]
  BY DEF SlotInv2, Typed2, DataTyped
<1>2. /\ IsAt(p, "slot") /\ Return(p)
      /\ UNCHANGED <<recursive, lock, m_connectionList, m_currentIterator, m_unique, conn, senders, held,
                     tasks, calls, fires, partial, reentered>>
  BY DEF SlotReturn, listVars, histVars
<1>3. DataKept /\ \A r : Of(r)' = Of(r)
  BY <1>1, <1>2, NothingMoves
<1>4. "slot" \notin Slots \cup {"clear", "addSender", "leaving", "leave"} \cup Holding
  BY DEF Slots, Holding, Emitting
<1> QED
  BY <1>2, <1>3, <1>4, PlainReturnKeeps

LEMMA EmitReturnKeeps ==
  ASSUME SlotInv2, NEW p \in Actors, EmitReturn(p)
  PROVE  SlotInv2'
<1>1. Typed2 /\ senders \in [Receivers -> Nat]
  BY DEF SlotInv2, Typed2, DataTyped
<1>2. /\ IsAt(p, "next") /\ Return(p) /\ lock' = Released(Sig)
      /\ UNCHANGED <<recursive, m_connectionList, m_currentIterator, m_unique, conn, senders, held,
                     tasks, calls, fires, partial, reentered>>
  BY DEF EmitReturn, listVars, histVars
<1>3. DataKept /\ \A r : Of(r)' = Of(r)
  BY <1>1, <1>2, NothingMoves
<1>4. "next" \notin Slots \cup {"clear", "addSender", "leaving", "leave"} /\ "next" \in Holding
  BY DEF Slots, Holding, Emitting
<1> QED
  BY <1>2, <1>3, <1>4, PlainReturnKeeps

LEMMA DisconnectConnEnterKeeps ==
  ASSUME SlotInv2, NEW p \in Actors, DisconnectConnEnter(p)
  PROVE  SlotInv2'
<1>1. Typed2 /\ senders \in [Receivers -> Nat]
  BY DEF SlotInv2, Typed2, DataTyped
<1> DEFINE gone == {Top(p).c} \cap m_connectionList
<1>2. /\ IsAt(p, "disconnectConn") /\ Return(p) /\ Erase(gone)
      /\ UNCHANGED <<recursive, lock, m_unique, conn, senders, held, tasks, calls, fires, partial, reentered>>
  BY DEF DisconnectConnEnter, histVars
<1>3. gone \subseteq m_connectionList
  OBVIOUS
<1> HIDE DEF gone
<1>4. /\ DataKept /\ \A r : Of(r)' = Of(r) \ gone
      /\ m_currentIterator \in m_connectionList \cup {NoConn} =>
           m_currentIterator' \in m_connectionList' \cup {NoConn}
  BY <1>1, <1>2, <1>3, EraseKeeps
<1>5. "disconnectConn" \notin Slots \cup {"clear", "addSender", "leaving", "leave"} \cup Holding
  BY DEF Slots, Holding, Emitting
<1> QED
  BY <1>2, <1>4, <1>5, PlainReturnKeeps

LEMMA Alone ==
  ASSUME Typed2, LockHeld, NEW p \in Actors, NEW q \in Actors, q # p,
         Free(Sig, p) \/ (stack[p] # << >> /\ Top(p).at \in Holding)
  PROVE  Holds(stack[q]) = {} /\ \A at \in Holding : ~IsAt(q, at)
<1>1. Holds(stack[q]) = {}
  BY OnlyHolder, TopHolds
<1> QED
  BY <1>1, TopHolds DEF IsAt

LEMMA Standing ==
  ASSUME SlotInv2, NEW p \in Actors, NEW at, IsAt(p, at)
  PROVE  /\ \E f \in AFrame : f = Top(p) /\ f.at = at /\ FrameOK(p, f)
         /\ \A b : IsAt(p, b) <=> b = at
         /\ senders \in [Receivers -> Nat] /\ destroyed \subseteq Receivers /\ held \cap destroyed = {}
         /\ Typed2 /\ Frames /\ LockHeld /\ Trace /\ Iterator
<1>1. Typed2 /\ Frames /\ LockHeld /\ Trace /\ Iterator
  BY DEF SlotInv2
<1>2. Top(p) \in AFrame /\ Top(p).at = at /\ FrameOK(p, Top(p))
  BY <1>1, TopOfStack
<1> QED
  BY <1>1, <1>2 DEF Typed2, DataTyped, IsAt

(* The same frame elsewhere.                                               *)
LEMMA ElsewhereIs ==
  ASSUME NEW f \in AFrame, NEW at \in Places
  PROVE  LET g == [f EXCEPT !.at = at]
         IN  g \in AFrame /\ g.at = at /\ g.c = f.c /\ g.r = f.r /\ g.n = f.n /\ g.due = f.due
BY DEF AFrame

LEMMA GoneTo ==
  ASSUME Typed2, NEW p \in Actors, NEW at, IsAt(p, at), NEW f \in AFrame, stack' = Changed(p, f)
  PROVE  /\ OnlyStackOf(p) /\ Top(p)' = f /\ \A b : IsAt(p, b)' <=> b = f.at
         /\ stack[p] # << >> /\ stack'[p] # << >>
<1>1. stack[p] # << >>
  BY DEF IsAt
<1>2. OnlyStackOf(p) /\ stack'[p] # << >> /\ Top(p)' = f
  BY <1>1, ChangeIs
<1> QED
  BY <1>1, <1>2 DEF IsAt

LEMMA DisconnectAllEnterKeeps ==
  ASSUME SlotInv2, NEW p \in Actors, DisconnectAllEnter(p)
  PROVE  SlotInv2'
<1>1. /\ IsAt(p, "disconnectAll") /\ Free(Sig, p) /\ lock' = Locked(Sig, p)
      /\ stack' = Changed(p, [Top(p) EXCEPT !.at = "clear"])
      /\ UNCHANGED <<recursive, m_connectionList, m_currentIterator, m_unique, conn, senders, held, destroyed,
                     tasks, calls, fires, partial, reentered>>
  BY DEF DisconnectAllEnter, GoTo, listVars, histVars
<1>2. /\ \A b : IsAt(p, b) <=> b = "disconnectAll"
      /\ senders \in [Receivers -> Nat] /\ destroyed \subseteq Receivers
      /\ Typed2 /\ Frames /\ Trace /\ Iterator
  BY <1>1, Standing
<1>3. PICK f \in AFrame : f = Top(p) /\ f.at = "disconnectAll" /\ FrameOK(p, f)
  BY <1>1, Standing
<1>4. PICK g \in AFrame : g = [f EXCEPT !.at = "clear"] /\ g.at = "clear" /\ g.r = f.r
  BY ElsewhereIs DEF Places, Holding
<1>5. stack' = Changed(p, g)
  BY <1>1, <1>3, <1>4
<1>6. DataKept /\ \A r : Of(r)' = Of(r)
  BY <1>1, <1>2, NothingMoves
<1>7. FrameOK(p, g)'
  BY <1>1, <1>3, <1>4 DEF FrameOK, Slots, Emitting
<1>8. OnlyStackOf(p) /\ \A b : IsAt(p, b)' <=> b = "clear"
  BY <1>1, <1>2, <1>4, <1>5, GoneTo
<1>9. Trace'
  BY <1>1, <1>2, <1>6, <1>8, TraceKept
<1>10. Iterator'
  BY <1>1, <1>2, <1>8, IteratorKept
<1>11. /\ "disconnectAll" \notin Slots \cup Holding /\ "clear" \in Holding
       /\ "clear" \notin Emitting \cup {"task", "call"}
  BY DEF Slots, Holding, Emitting
<1> QED
  BY <1>1, <1>4, <1>5, <1>6, <1>7, <1>9, <1>10, <1>11, GoKeeps

LEMMA ClearKeeps ==
  ASSUME SlotInv2, NEW p \in Actors, Clear(p)
  PROVE  SlotInv2'
<1> DEFINE n == Len(stack[p])
<1>1. /\ IsAt(p, "clear") /\ m_connectionList' = m_connectionList \ {FrontConn}
      /\ senders' = [r \in Receivers |-> IF r \in Told THEN 0 ELSE senders[r]]
      /\ UNCHANGED <<recursive, lock, m_currentIterator, m_unique, conn, held, destroyed, tasks, stack, calls,
                     fires, partial, reentered>>
  BY DEF Clear, histVars
<1>2. /\ \A b : IsAt(p, b) <=> b = "clear"
      /\ senders \in [Receivers -> Nat] /\ destroyed \subseteq Receivers /\ held \cap destroyed = {}
      /\ Typed2 /\ Frames /\ Trace /\ Iterator /\ LockHeld
  BY <1>1, Standing
<1>3. /\ Moves(p, n) /\ Len(stack'[p]) = n /\ n \in Nat
      /\ \A q \in Actors : Cardinality(Holds(stack'[q])) = Cardinality(Holds(stack[q]))
      /\ \A q \in Actors : Top(q)' = Top(q) /\ \A at : IsAt(q, at)' <=> IsAt(q, at)
  BY <1>1, <1>2, StackStays
<1>4. OnlyStackOf(p)
  BY <1>3 DEF Moves
<1>5. DataKept
  <2>1. Made' = Made
    BY <1>1 DEF Made
  <2>2. senders' \in [Receivers -> Nat]
    BY <1>1, <1>2
  <2> QED
    BY <1>1, <1>2, <2>1, <2>2 DEF DataKept, Typed2, DataTyped
<1>6. Typed2'
  <2>1. lock' \in Mutexes /\ lock'[Sig].depth \in Nat
    BY <1>1, <1>2 DEF Typed2, DataTyped, Mutexes
  <2> QED
    BY <1>1, <1>2, <1>4, <1>5, <2>1, TypedKept
<1>7. Frames'
  <2>1. Made \subseteq Made'
    BY <1>5 DEF DataKept
  <2>2. ~(Len(stack'[p]) = n + 1)
    BY <1>3
  <2>3. destroyed' \ destroyed = {}
    BY <1>1
  <2> HIDE DEF n
  <2> QED
    BY <1>2, <1>3, <2>1, <2>2, <2>3, FramesKept
<1>8. LockHeld'
  BY <1>1, <1>2, <1>3, LockKept
<1>9. Trace'
  <2>1. \A q \in Actors : ~IsAt(q, "dropSender")
    <3>1. ASSUME NEW q \in Actors, q # p PROVE ~IsAt(q, "dropSender")
      BY <1>1, <1>2, <3>1, Alone DEF IsAt, Holding
    <3> QED
      BY <1>2, <3>1
  <2>2. \A r \in Receivers : senders'[r] > 0 => senders[r] > 0
    BY <1>1
  <2>3. IsAt(p, "clear")' /\ destroyed' = destroyed
    BY <1>1, <1>3
  <2>4. ASSUME NEW r \in destroyed', senders'[r] > 0
        PROVE  \E q \in Actors : IsAt(q, "leave")' /\ Top(q)'.r = r
    <3>1. PICK q \in Actors : IsAt(q, "leave") /\ Top(q).r = r
      BY <1>2, <2>2, <2>3, <2>4 DEF Trace
    <3> QED
      BY <1>3, <3>1
  <2> QED
    BY <1>3, <2>1, <2>3, <2>4 DEF Trace
<1>10. Iterator'
  BY <1>1, <1>3 DEF Iterator
<1>11. Ordinary(p, n)
  <2>1. n # Len(stack[p]) - 1 /\ Len(stack'[p]) # n + 1
    BY <1>3
  <2>2. ~IsAt(p, "blocked")
    BY <1>2
  <2> HIDE DEF n
  <2> QED
    BY <1>3, <1>5, <2>1, <2>2 DEF Ordinary, DataKept
<1> HIDE DEF n
<1> QED
  BY <1>6, <1>7, <1>8, <1>9, <1>10, <1>11, OrdinaryKeeps

LEMMA ClearedKeeps ==
  ASSUME SlotInv2, NEW p \in Actors, Cleared(p)
  PROVE  SlotInv2'
<1> DEFINE n == Len(stack[p]) - 1
<1>1. /\ IsAt(p, "clear") /\ m_connectionList = {} /\ m_currentIterator' = NoConn
      /\ lock' = Released(Sig) /\ Return(p)
      /\ UNCHANGED <<recursive, m_connectionList, m_unique, conn, senders, held, tasks, calls,
                     fires, partial, reentered>>
  BY DEF Cleared, histVars
<1>2. /\ \A b : IsAt(p, b) <=> b = "clear"
      /\ senders \in [Receivers -> Nat]
      /\ Typed2 /\ Frames /\ Trace
  BY <1>1, Standing
<1>3. DataKept
  <2>1. Made' = Made
    BY <1>1 DEF Made
  <2> QED
    BY <1>1, <1>2, <2>1 DEF DataKept, Typed2, DataTyped
<1>4. /\ Moves(p, n) /\ \A z : IsAt(p, z)' => z \in Under \cup {"leave"}
      /\ destroyed \subseteq destroyed'
      /\ \A r \in destroyed' \ destroyed : IsAt(p, "leave")' /\ Top(p)'.r = r
  <2>1. stack[p] # << >> /\ Made \subseteq Made' /\ UNCHANGED held
    BY <1>1, <1>3 DEF IsAt, DataKept
  <2> QED
    BY <1>1, <1>2, <2>1, ReturnIs
<1>5. Trace'
  <2>1. \A r : Of(r)' = {}
    BY <1>1 DEF Of
  <2>2. ASSUME NEW r \in destroyed', senders'[r] > 0
        PROVE  \E q \in Actors : IsAt(q, "leave")' /\ Top(q)'.r = r
    <3>1. CASE r \in destroyed
      <4>1. PICK q \in Actors : IsAt(q, "leave") /\ Top(q).r = r
        BY <1>1, <1>2, <2>2, <3>1 DEF Trace
      <4>2. q # p
        BY <1>2, <4>1
      <4> QED
        BY <1>4, <4>1, <4>2, TopsOfOthers DEF Moves
    <3> QED
      BY <1>4, <3>1
  <2> QED
    BY <2>1, <2>2 DEF Trace
<1>6. Iterator'
  BY <1>1 DEF Iterator
<1>7. "clear" \in Holding /\ "clear" \notin Slots
  BY DEF Holding, Slots
<1> QED
  BY <1>1, <1>3, <1>5, <1>6, <1>7, ReturnKeeps

(* The new connection, which had no number before.                         *)
LEMMA NewConnIs ==
  ASSUME Typed2, NEW c \in Conns, NEW k \in Kinds, NewConn(c, k), senders' \in [Receivers -> Nat],
         UNCHANGED <<m_currentIterator, held, tasks, fires, reentered>>
  PROVE  /\ DataKept /\ m_connectionList' = m_connectionList \cup {c}
         /\ \A r : Of(r)' \subseteq Of(r) \cup (IF r = k.receiver THEN {c} ELSE {})
<1>1. /\ c \notin Made /\ c \in Conns
      /\ m_connectionList' = m_connectionList \cup {c}
  BY DEF NewConn, Made
<1> DEFINE new == [receiver |-> k.receiver, type |-> k.type, thread |-> k.thread, single |-> k.single,
                   kept |-> k.kept, emitted |-> FALSE, fired |-> FALSE]
<1>2. new \in Connection /\ new.type # "none" /\ new.receiver = k.receiver
  BY SigslotAssumption DEF Kind, Connection, Types
<1>3. conn' = [conn EXCEPT ![c] = new]
  BY DEF NewConn
<1> HIDE DEF new
<1>4. conn \in [Conns -> Connection] /\ m_connectionList \subseteq Made /\ m_currentIterator \in Made \cup {NoConn}
  BY DEF Typed2, DataTyped
<1>5. conn' \in [Conns -> Connection] /\ conn'[c] = new /\ \A d \in Conns : d # c => conn'[d] = conn[d]
  BY <1>2, <1>3, <1>4
<1>6. Made' = Made \cup {c} /\ \A d \in Made : conn'[d] = conn[d]
  BY <1>1, <1>2, <1>5 DEF Made
<1>7. Made \cap m_connectionList' \subseteq m_connectionList
  BY <1>1
<1>8. \A r : Of(r)' \subseteq Of(r) \cup (IF r = k.receiver THEN {c} ELSE {})
  BY <1>1, <1>2, <1>4, <1>5, <1>6 DEF Of
<1> QED
  BY <1>1, <1>4, <1>5, <1>6, <1>7, <1>8 DEF DataKept

LEMMA ConnectEnterKeeps ==
  ASSUME SlotInv2, NEW p \in Actors, ConnectEnter(p)
  PROVE  SlotInv2'
<1>1. PICK k \in Top(p).due :
        /\ IF Refused(k) \/ ~IsValid(k)
             THEN UNCHANGED <<m_connectionList, conn>>
             ELSE \E c \in Conns : NewConn(c, k)
        /\ IF Refused(k) \/ ~IsValid(k) \/ k.receiver = NoReceiver
             THEN Return(p) /\ UNCHANGED lock
             ELSE /\ lock' = Locked(Sig, p) /\ stack' = Changed(p, [Top(p) EXCEPT !.at = "addSender"])
                  /\ UNCHANGED destroyed
  BY DEF ConnectEnter, GoTo
<1>2. /\ IsAt(p, "connect") /\ Free(Sig, p)
      /\ UNCHANGED <<recursive, m_currentIterator, senders, held, tasks, calls, fires, partial, reentered>>
  BY DEF ConnectEnter, histVars
<1>3. /\ \A b : IsAt(p, b) <=> b = "connect"
      /\ senders \in [Receivers -> Nat] /\ destroyed \subseteq Receivers
      /\ Typed2 /\ Frames /\ LockHeld /\ Trace /\ Iterator
  BY <1>2, Standing
<1>4. PICK f \in AFrame : f = Top(p) /\ f.at = "connect" /\ FrameOK(p, f)
  BY <1>2, Standing
<1>5. k \in Kinds /\ k.receiver = f.r /\ f.r \notin destroyed
  BY <1>1, <1>4 DEF FrameOK
<1>6. "connect" \notin Slots \cup {"clear", "addSender", "leaving", "leave"} \cup Holding
  BY DEF Slots, Holding, Emitting
<1>7. CASE Refused(k) \/ ~IsValid(k)
  <2>1. DataKept /\ \A r : Of(r)' = Of(r)
    BY <1>1, <1>2, <1>3, <1>7, NothingMoves
  <2> QED
    BY <1>1, <1>2, <1>6, <1>7, <2>1, PlainReturnKeeps
<1>8. CASE ~(Refused(k) \/ ~IsValid(k))
  <2>1. PICK c \in Conns : NewConn(c, k)
    BY <1>1, <1>8
  <2>2. /\ DataKept /\ m_connectionList' = m_connectionList \cup {c}
        /\ \A r : Of(r)' \subseteq Of(r) \cup (IF r = k.receiver THEN {c} ELSE {})
    BY <1>2, <1>3, <1>5, <2>1, NewConnIs
  <2>3. CASE k.receiver = NoReceiver
    <3>1. \A r \in Receivers : Of(r)' \subseteq Of(r)
      BY <2>2, <2>3, SigslotAssumption
    <3> QED
      BY <1>1, <1>2, <1>6, <2>2, <2>3, <3>1, PlainReturnKeeps
  <2>4. CASE k.receiver # NoReceiver
    <3>1. PICK g \in AFrame : g = [f EXCEPT !.at = "addSender"] /\ g.at = "addSender" /\ g.r = f.r
      BY ElsewhereIs DEF Places, Holding
    <3>2. stack' = Changed(p, g) /\ lock' = Locked(Sig, p) /\ UNCHANGED destroyed
      BY <1>1, <1>4, <1>8, <2>4, <3>1
    <3>3. f.r \in Receivers
      BY <1>5, <2>4, SigslotAssumption DEF Kind
    <3>4. FrameOK(p, g)'
      BY <1>5, <3>1, <3>2, <3>3 DEF FrameOK, Slots, Emitting
    <3>5. OnlyStackOf(p) /\ Top(p)' = g /\ \A b : IsAt(p, b)' <=> b = "addSender"
      BY <1>2, <1>3, <3>1, <3>2, GoneTo
    <3>6. Iterator'
      BY <1>2, <1>3, <2>2, <3>5, IteratorKept
    <3>7. Trace'
      <4>1. \A q \in Actors : ~IsAt(q, "dropSender")'
        <5>1. "dropSender" \in Holding
          BY DEF Holding
        <5>2. ASSUME NEW q \in Actors, q # p PROVE ~IsAt(q, "dropSender")
          <6>1. \A at \in Holding : ~IsAt(q, at)
            BY <1>2, <1>3, <5>2, Alone
          <6> QED
            BY <5>1, <6>1
        <5> QED
          BY <3>5, <5>2, TopsOfOthers
      <4>2. \A r \in Receivers : r # f.r => Of(r)' \subseteq Of(r) /\ senders'[r] = senders[r]
        BY <1>2, <1>5, <2>2
      <4>3. IsAt(p, "addSender")' /\ Top(p)'.r = f.r
        BY <3>1, <3>5
      <4>4. f.r \notin destroyed' /\ destroyed' = destroyed
        BY <1>5, <3>2
      <4>5. ~IsAt(p, "clear") /\ ~(IsAt(p, "addSender") \/ IsAt(p, "leaving") \/ IsAt(p, "leave"))
        BY <1>3
      <4> QED
        BY <1>2, <1>3, <3>5, <4>1, <4>2, <4>3, <4>4, <4>5, TraceKeptBut
    <3>8. "addSender" \in Holding /\ "addSender" \notin Emitting \cup {"task", "call"}
      BY DEF Holding, Emitting
    <3> QED
      BY <1>2, <1>6, <2>2, <3>1, <3>2, <3>4, <3>6, <3>7, <3>8, GoKeeps
  <2> QED
    BY <2>3, <2>4
<1> QED
  BY <1>7, <1>8

(* What a return does to what receivers know.                              *)
LEMMA Returned ==
  ASSUME SlotInv2, NEW p \in Actors, NEW at, IsAt(p, at), Return(p), DataKept
  PROVE  /\ OnlyStackOf(p) /\ \A b : IsAt(p, b)' => b \in Under \cup {"leave"}
         /\ destroyed \subseteq destroyed' /\ destroyed' \subseteq Receivers
         /\ \A r \in destroyed' \ destroyed : IsAt(p, "leave")' /\ Top(p)'.r = r
<1> DEFINE n == Len(stack[p]) - 1
<1>1. Typed2 /\ Frames /\ stack[p] # << >>
  BY DEF IsAt, SlotInv2
<1>2. Made \subseteq Made' /\ UNCHANGED held
  BY DEF DataKept
<1>3. /\ Moves(p, n) /\ \A b : IsAt(p, b)' => b \in Under \cup {"leave"}
      /\ destroyed \subseteq destroyed' /\ destroyed' \subseteq Receivers
      /\ \A r \in destroyed' \ destroyed : IsAt(p, "leave")' /\ Top(p)'.r = r
  BY <1>1, <1>2, ReturnIs
<1> QED
  BY <1>3 DEF Moves

LEMMA AddSenderKeeps ==
  ASSUME SlotInv2, NEW p \in Actors, AddSender(p)
  PROVE  SlotInv2'
<1>1. /\ IsAt(p, "addSender") /\ senders' = [senders EXCEPT ![Top(p).r] = senders[Top(p).r] + 1]
      /\ lock' = Released(Sig) /\ Return(p)
      /\ UNCHANGED <<recursive, m_connectionList, m_currentIterator, m_unique, conn, held, tasks, calls,
                     fires, partial, reentered>>
  BY DEF AddSender, listVars, histVars
<1>2. /\ \A b : IsAt(p, b) <=> b = "addSender"
      /\ senders \in [Receivers -> Nat]
      /\ Typed2 /\ LockHeld /\ Trace /\ Iterator
  BY <1>1, Standing
<1>3. PICK f \in AFrame : f = Top(p) /\ f.at = "addSender" /\ FrameOK(p, f)
  BY <1>1, Standing
<1>4. f.r \in Receivers /\ f.r \notin destroyed
  BY <1>3 DEF FrameOK
<1>5. senders' = [senders EXCEPT ![f.r] = senders[f.r] + 1]
  BY <1>1, <1>3
<1>6. senders' \in [Receivers -> Nat] /\ senders'[f.r] > 0 /\ \A r \in Receivers : r # f.r => senders'[r] = senders[r]
  BY <1>2, <1>4, <1>5
<1>7. DataKept /\ \A r : Of(r)' = Of(r)
  BY <1>1, <1>2, <1>6, NothingMoves
<1>8. /\ OnlyStackOf(p) /\ \A b : IsAt(p, b)' => b \in Under \cup {"leave"}
      /\ destroyed \subseteq destroyed' /\ destroyed' \subseteq Receivers
      /\ \A r \in destroyed' \ destroyed : IsAt(p, "leave")' /\ Top(p)'.r = r
  BY <1>1, <1>7, Returned
<1>9. \A q \in Actors : ~IsAt(q, "dropSender")'
  <2>1. ASSUME NEW q \in Actors, q # p PROVE ~IsAt(q, "dropSender")'
    BY <1>1, <1>2, <1>8, <2>1, Alone, TopsOfOthers DEF Holding, IsAt
  <2>2. ~IsAt(p, "dropSender")'
    BY <1>8 DEF Under
  <2> QED
    BY <2>1, <2>2
<1>10. Trace'
  <2>1. ~IsAt(p, "clear")
    BY <1>2
  <2>2. \A r \in Receivers : r # f.r => Of(r)' \subseteq Of(r) /\ senders'[r] = senders[r]
    BY <1>6, <1>7
  <2>3. f.r \in destroyed' => IsAt(p, "leave")' /\ Top(p)'.r = f.r
    BY <1>4, <1>8
  <2> QED
    BY <1>1, <1>2, <1>3, <1>6, <1>8, <1>9, <2>1, <2>2, <2>3, TraceKeptBut
<1>11. Iterator'
  BY <1>1, <1>2, <1>8, IteratorKept
<1>12. "addSender" \in Holding /\ "addSender" \notin Slots
  BY DEF Holding, Slots
<1> QED
  BY <1>1, <1>7, <1>10, <1>11, <1>12, ReturnKeeps

LEMMA DropSenderKeeps ==
  ASSUME SlotInv2, NEW p \in Actors, DropSender(p)
  PROVE  SlotInv2'
<1>1. /\ IsAt(p, "dropSender") /\ senders' = [senders EXCEPT ![Top(p).r] = 0]
      /\ lock' = Released(Sig) /\ Return(p)
      /\ UNCHANGED <<recursive, m_connectionList, m_currentIterator, m_unique, conn, held, tasks, calls,
                     fires, partial, reentered>>
  BY DEF DropSender, listVars, histVars
<1>2. /\ \A b : IsAt(p, b) <=> b = "dropSender"
      /\ senders \in [Receivers -> Nat]
      /\ Typed2 /\ LockHeld /\ Trace /\ Iterator
  BY <1>1, Standing
<1>3. PICK f \in AFrame : f = Top(p) /\ f.at = "dropSender" /\ FrameOK(p, f)
  BY <1>1, Standing
<1>4. f.r \in Receivers /\ f.r \notin destroyed
  BY <1>3 DEF FrameOK
<1>5. senders' = [senders EXCEPT ![f.r] = 0]
  BY <1>1, <1>3
<1>6. senders' \in [Receivers -> Nat] /\ senders'[f.r] = 0 /\ \A r \in Receivers : r # f.r => senders'[r] = senders[r]
  BY <1>2, <1>4, <1>5
<1>7. DataKept /\ \A r : Of(r)' = Of(r)
  BY <1>1, <1>2, <1>6, NothingMoves
<1>8. /\ OnlyStackOf(p) /\ \A b : IsAt(p, b)' => b \in Under \cup {"leave"}
      /\ destroyed \subseteq destroyed' /\ destroyed' \subseteq Receivers
      /\ \A r \in destroyed' \ destroyed : IsAt(p, "leave")' /\ Top(p)'.r = r
  BY <1>1, <1>7, Returned
<1>9. \A q \in Actors : ~IsAt(q, "dropSender")'
  <2>1. ASSUME NEW q \in Actors, q # p PROVE ~IsAt(q, "dropSender")'
    BY <1>1, <1>2, <1>8, <2>1, Alone, TopsOfOthers DEF Holding, IsAt
  <2>2. ~IsAt(p, "dropSender")'
    BY <1>8 DEF Under
  <2> QED
    BY <2>1, <2>2
<1>10. Trace'
  <2>1. ~IsAt(p, "clear") /\ ~(IsAt(p, "addSender") \/ IsAt(p, "leaving") \/ IsAt(p, "leave"))
    BY <1>2
  <2>2. \A r \in Receivers : r # f.r => Of(r)' \subseteq Of(r) /\ senders'[r] = senders[r]
    BY <1>6, <1>7
  <2>3. Of(f.r) = {} \/ f.r \in partial
    BY <1>1, <1>2, <1>3, <1>4 DEF Trace
  <2>4. ~(senders'[f.r] > 0)
    BY <1>6
  <2> QED
    BY <1>1, <1>2, <1>7, <1>8, <1>9, <2>1, <2>2, <2>3, <2>4, TraceKeptBut
<1>11. Iterator'
  BY <1>1, <1>2, <1>8, IteratorKept
<1>12. "dropSender" \in Holding /\ "dropSender" \notin Slots
  BY DEF Holding, Slots
<1> QED
  BY <1>1, <1>7, <1>10, <1>11, <1>12, ReturnKeeps

LEMMA DisconnectEnterKeeps ==
  ASSUME SlotInv2, NEW p \in Actors, DisconnectEnter(p)
  PROVE  SlotInv2'
<1>1. PICK f \in AFrame : f = Top(p) /\ f.at = "disconnect" /\ FrameOK(p, f)
  BY Standing DEF DisconnectEnter
<1> DEFINE first == {c \in Of(f.r) : \A d \in Of(f.r) : c <= d}
<1>2. /\ IsAt(p, "disconnect") /\ Free(Sig, p) /\ Erase(first)
      /\ IF first = {}
           THEN Return(p) /\ UNCHANGED <<lock, partial>>
           ELSE /\ lock' = Locked(Sig, p)
                /\ stack' = Changed(p, [f EXCEPT !.at = "dropSender"])
                /\ partial' = IF first = Of(f.r) THEN partial ELSE partial \cup {f.r}
                /\ UNCHANGED destroyed
      /\ UNCHANGED <<recursive, m_unique, conn, senders, held, tasks, calls, fires, reentered>>
  BY <1>1 DEF DisconnectEnter, GoTo
<1>3. /\ \A b : IsAt(p, b) <=> b = "disconnect"
      /\ senders \in [Receivers -> Nat] /\ destroyed \subseteq Receivers
      /\ Typed2 /\ LockHeld /\ Trace /\ Iterator
  BY <1>2, Standing
<1>4. f.r \in Receivers /\ f.r \notin destroyed
  BY <1>1 DEF FrameOK
<1>5. first \subseteq m_connectionList /\ first \subseteq Of(f.r)
  BY DEF Of
<1> HIDE DEF first
<1>6. /\ DataKept /\ \A r : Of(r)' = Of(r) \ first
      /\ m_currentIterator \in m_connectionList \cup {NoConn} =>
           m_currentIterator' \in m_connectionList' \cup {NoConn}
  BY <1>2, <1>3, <1>5, EraseKeeps
<1>7. "disconnect" \notin Slots \cup {"clear", "addSender", "leaving", "leave"} \cup Holding
  BY DEF Slots, Holding, Emitting
<1>8. CASE first = {}
  BY <1>2, <1>6, <1>7, <1>8, PlainReturnKeeps
<1>9. CASE first # {}
  <2>1. PICK g \in AFrame : g = [f EXCEPT !.at = "dropSender"] /\ g.at = "dropSender" /\ g.r = f.r
    BY ElsewhereIs DEF Places, Holding
  <2>2. /\ stack' = Changed(p, g) /\ lock' = Locked(Sig, p) /\ UNCHANGED destroyed
        /\ partial' = IF first = Of(f.r) THEN partial ELSE partial \cup {f.r}
    BY <1>2, <1>9, <2>1
  <2>3. FrameOK(p, g)'
    BY <1>4, <2>1, <2>2 DEF FrameOK, Slots, Emitting
  <2>4. OnlyStackOf(p) /\ Top(p)' = g /\ \A b : IsAt(p, b)' <=> b = "dropSender"
    BY <1>2, <1>3, <2>1, <2>2, GoneTo
  <2>5. Iterator'
    BY <1>2, <1>3, <1>6, <2>4, IteratorKept
  <2>6. Trace'
    <3>1. Of(f.r)' = {} \/ f.r \in partial'
      BY <1>6, <2>2
    <3>2. ASSUME NEW q \in Actors, NEW r \in Receivers, IsAt(q, "dropSender")', Top(q)'.r = r
          PROVE  Of(r)' = {} \/ r \in partial'
      <4>1. "dropSender" \in Holding
        BY DEF Holding
      <4>2. CASE q # p
        <5>1. ~IsAt(q, "dropSender")
          <6>1. \A at \in Holding : ~IsAt(q, at)
            BY <1>2, <1>3, <4>2, Alone
          <6> QED
            BY <4>1, <6>1
        <5> QED
          BY <2>4, <3>2, <4>2, <5>1, TopsOfOthers
      <4>3. CASE q = p
        BY <2>1, <2>4, <3>1, <3>2, <4>3
      <4> QED
        BY <4>2, <4>3
    <3>3. \A r \in Receivers : r # f.r => Of(r)' \subseteq Of(r) /\ senders'[r] = senders[r]
      BY <1>2, <1>6
    <3>4. ~IsAt(p, "clear") /\ ~(IsAt(p, "addSender") \/ IsAt(p, "leaving") \/ IsAt(p, "leave"))
      BY <1>3
    <3>5. /\ partial \subseteq partial' /\ f.r \notin destroyed' /\ destroyed' = destroyed
          /\ Of(f.r)' # {} => f.r \in partial'
      BY <1>4, <2>2, <3>1
    <3> QED
      BY <1>3, <2>4, <3>2, <3>3, <3>4, <3>5, TraceKeptBut
  <2>7. "dropSender" \in Holding /\ "dropSender" \notin Emitting \cup {"task", "call"}
    BY DEF Holding, Emitting
  <2> QED
    BY <1>2, <1>6, <1>7, <2>1, <2>2, <2>3, <2>5, <2>6, <2>7, GoKeeps
<1> QED
  BY <1>8, <1>9

LEMMA LeaveEnterKeeps ==
  ASSUME SlotInv2, NEW p \in Actors, LeaveEnter(p)
  PROVE  SlotInv2'
<1>1. PICK f \in AFrame : f = Top(p) /\ f.at = "leave" /\ FrameOK(p, f)
  BY Standing DEF LeaveEnter
<1>2. /\ IsAt(p, "leave") /\ senders' = [senders EXCEPT ![f.r] = 0]
      /\ IF senders[f.r] = 0
           THEN Return(p) /\ UNCHANGED lock
           ELSE /\ lock' = Locked(f.r, p)
                /\ stack' = Changed(p, [f EXCEPT !.at = "leaving", !.n = senders[f.r]])
                /\ UNCHANGED destroyed
      /\ UNCHANGED <<recursive, m_connectionList, m_currentIterator, m_unique, conn, held, tasks, calls,
                     fires, partial, reentered>>
  BY <1>1 DEF LeaveEnter, listVars, histVars
<1>3. /\ \A b : IsAt(p, b) <=> b = "leave"
      /\ senders \in [Receivers -> Nat] /\ destroyed \subseteq Receivers
      /\ Typed2 /\ LockHeld /\ Trace /\ Iterator
  BY <1>2, Standing
<1>4. f.r \in Receivers /\ f.r # Sig /\ f.r \in Locks /\ Sig \in Locks
  BY <1>1, SigslotAssumption DEF FrameOK, Locks
<1>5. senders' \in [Receivers -> Nat] /\ senders'[f.r] = 0 /\ \A r \in Receivers : r # f.r => senders'[r] = senders[r]
  BY <1>2, <1>3, <1>4
<1>6. DataKept /\ \A r : Of(r)' = Of(r)
  BY <1>2, <1>3, <1>5, NothingMoves
<1>7. "leave" \notin Slots \cup Holding
  BY DEF Slots, Holding, Emitting
<1>8. ~IsAt(p, "clear") /\ ~IsAt(p, "addSender") /\ ~IsAt(p, "leaving")
  BY <1>3
<1>9. ASSUME OnlyStackOf(p), destroyed \subseteq destroyed', destroyed' \subseteq Receivers,
             ~IsAt(p, "dropSender")',
             senders[f.r] = 0 \/ (IsAt(p, "leaving")' /\ Top(p)'.r = f.r),
             \A r \in destroyed' \ destroyed : IsAt(p, "leave")' /\ Top(p)'.r = r
      PROVE  Trace' /\ Iterator'
  <2>1. \A q \in Actors : q # p => /\ \A at : IsAt(q, at)' <=> IsAt(q, at)
                                   /\ Top(q)' = Top(q)
    BY <1>9, TopsOfOthers
  <2>2. Iterator'
    BY <1>2, <1>3, <1>8, <1>9, IteratorKept
  <2>3. ASSUME Of(f.r)' # {}, senders[f.r] = 0
        PROVE  \/ f.r \in partial'
               \/ \E q \in Actors : \/ IsAt(q, "clear")'
                                    \/ (IsAt(q, "addSender")' \/ IsAt(q, "leaving")') /\ Top(q)'.r = f.r
    <3>1. \/ f.r \in partial
          \/ \E q \in Actors : \/ IsAt(q, "clear")
                               \/ (IsAt(q, "addSender") \/ IsAt(q, "leaving")) /\ Top(q).r = f.r
      BY <1>3, <1>4, <1>6, <2>3 DEF Trace
    <3>2. ASSUME NEW q \in Actors, \/ IsAt(q, "clear")
                                   \/ (IsAt(q, "addSender") \/ IsAt(q, "leaving")) /\ Top(q).r = f.r
          PROVE  \/ IsAt(q, "clear")'
                 \/ (IsAt(q, "addSender")' \/ IsAt(q, "leaving")') /\ Top(q)'.r = f.r
      BY <1>8, <2>1, <3>2
    <3> QED
      BY <1>2, <3>1, <3>2
  <2>4. ASSUME NEW q \in Actors, NEW r \in Receivers, IsAt(q, "dropSender")', Top(q)'.r = r
        PROVE  Of(r)' = {} \/ r \in partial'
    BY <1>2, <1>3, <1>6, <1>9, <2>1, <2>4 DEF Trace
  <2>5. \A r \in Receivers : r # f.r => Of(r)' \subseteq Of(r) /\ senders'[r] = senders[r]
    BY <1>5, <1>6
  <2>6. f.r \in Receivers /\ Of(f.r)' # {} =>
          \/ senders'[f.r] > 0 \/ f.r \in partial'
          \/ \E q \in Actors : \/ IsAt(q, "clear")'
                               \/ (IsAt(q, "addSender")' \/ IsAt(q, "leaving")') /\ Top(q)'.r = f.r
    BY <1>9, <2>3
  <2>7. ~(senders'[f.r] > 0) /\ partial' = partial
    BY <1>2, <1>5
  <2>8. Trace'
    BY <1>1, <1>3, <1>8, <1>9, <2>4, <2>5, <2>6, <2>7, TraceKeptBut
  <2> QED
    BY <2>2, <2>8
<1>10. CASE senders[f.r] = 0
  <2>1. Return(p) /\ UNCHANGED lock
    BY <1>2, <1>10
  <2>2. /\ OnlyStackOf(p) /\ \A b : IsAt(p, b)' => b \in Under \cup {"leave"}
        /\ destroyed \subseteq destroyed' /\ destroyed' \subseteq Receivers
        /\ \A r \in destroyed' \ destroyed : IsAt(p, "leave")' /\ Top(p)'.r = r
    BY <1>2, <1>6, <2>1, Returned
  <2>3. ~IsAt(p, "dropSender")'
    BY <2>2 DEF Under
  <2>4. Trace' /\ Iterator'
    <3>1. senders[f.r] = 0 \/ (IsAt(p, "leaving")' /\ Top(p)'.r = f.r)
      BY <1>10
    <3> QED
      BY <1>9, <2>2, <2>3, <3>1
  <2>5. lock' \in Mutexes
    BY <1>3, <2>1 DEF Typed2, DataTyped, Mutexes
  <2> QED
    BY <1>2, <1>6, <1>7, <2>1, <2>4, <2>5, ReturnKeeps
<1>11. CASE senders[f.r] # 0
  <2>1. PICK g : g = [f EXCEPT !.at = "leaving", !.n = senders[f.r]]
    OBVIOUS
  <2>2. g \in AFrame /\ g.at = "leaving" /\ g.r = f.r
    <3>1. senders[f.r] \in Nat /\ "leaving" \in Places
      BY <1>3, <1>4 DEF Places
    <3> QED
      BY <2>1, <3>1 DEF AFrame
  <2>3. stack' = Changed(p, g) /\ lock' = Locked(f.r, p) /\ UNCHANGED destroyed
    BY <1>2, <1>11, <2>1
  <2>4. FrameOK(p, g)'
    BY <1>4, <2>2 DEF FrameOK, Slots, Emitting
  <2>5. OnlyStackOf(p) /\ Top(p)' = g /\ \A b : IsAt(p, b)' <=> b = "leaving"
    BY <1>2, <1>3, <2>2, <2>3, GoneTo
  <2>6. Trace' /\ Iterator'
    BY <1>3, <1>9, <2>2, <2>3, <2>5
  <2>7. lock' \in Mutexes /\ lock'[Sig] = lock[Sig]
    BY <1>3, <1>4, <2>3, LocksTyped
  <2>8. "leaving" \notin Emitting \cup {"task", "call"} /\ "leaving" \notin Holding
    BY DEF Holding, Emitting
  <2> QED
    BY <1>2, <1>6, <1>7, <2>2, <2>3, <2>4, <2>6, <2>7, <2>8, GoKeeps
<1> QED
  BY <1>10, <1>11

LEMMA LeavingKeeps ==
  ASSUME SlotInv2, NEW p \in Actors, Leaving(p)
  PROVE  SlotInv2'
<1>1. PICK f \in AFrame : f = Top(p) /\ f.at = "leaving" /\ FrameOK(p, f)
  BY Standing DEF Leaving
<1> DEFINE gone == {c \in m_connectionList : Expired(c) \/ (conn[c].receiver = f.r /\ Alive(f.r))}
<1>2. /\ IsAt(p, "leaving") /\ Free(Sig, p) /\ Erase(gone)
      /\ IF f.n > 1
           THEN stack' = Changed(p, [f EXCEPT !.n = f.n - 1]) /\ UNCHANGED <<lock, destroyed>>
           ELSE Return(p) /\ lock' = Released(f.r)
      /\ UNCHANGED <<recursive, m_unique, conn, senders, held, tasks, calls, fires, partial, reentered>>
  BY <1>1 DEF Leaving, histVars
<1>3. /\ \A b : IsAt(p, b) <=> b = "leaving"
      /\ senders \in [Receivers -> Nat] /\ destroyed \subseteq Receivers
      /\ Typed2 /\ Trace /\ Iterator
  BY <1>2, Standing
<1>4. f.r \in Receivers /\ f.r # Sig /\ f.r \in Locks /\ Sig \in Locks /\ f.r # NoReceiver
  BY <1>1, SigslotAssumption DEF FrameOK, Locks
<1>5. gone \subseteq m_connectionList /\ Of(f.r) \subseteq gone
  BY <1>4 DEF Of, Expired, Alive
<1> HIDE DEF gone
<1>6. /\ DataKept /\ \A r : Of(r)' = Of(r) \ gone
      /\ m_currentIterator \in m_connectionList \cup {NoConn} =>
           m_currentIterator' \in m_connectionList' \cup {NoConn}
  BY <1>2, <1>3, <1>5, EraseKeeps
<1>7. "leaving" \notin Slots \cup Holding
  BY DEF Slots, Holding, Emitting
<1>8. ~IsAt(p, "clear") /\ ~(IsAt(p, "addSender") \/ IsAt(p, "leave")) /\ ~IsAt(p, "dropSender")
  BY <1>3
<1>9. ASSUME OnlyStackOf(p), destroyed \subseteq destroyed', destroyed' \subseteq Receivers,
             ~IsAt(p, "dropSender")',
             \A r \in destroyed' \ destroyed : IsAt(p, "leave")' /\ Top(p)'.r = r
      PROVE  Trace' /\ Iterator'
  <2>1. \A q \in Actors : q # p => /\ \A at : IsAt(q, at)' <=> IsAt(q, at)
                                   /\ Top(q)' = Top(q)
    BY <1>9, TopsOfOthers
  <2>2. Iterator'
    BY <1>3, <1>6, <1>8, <1>9, IteratorKept
  <2>3. Of(f.r)' = {}
    BY <1>5, <1>6
  <2>4. ASSUME NEW q \in Actors, NEW r \in Receivers, IsAt(q, "dropSender")', Top(q)'.r = r
        PROVE  Of(r)' = {} \/ r \in partial'
    <3>1. Of(r) = {} \/ r \in partial
      BY <1>3, <1>9, <2>1, <2>4 DEF Trace
    <3> QED
      BY <1>2, <1>6, <3>1
  <2>5. \A r \in Receivers : r # f.r => Of(r)' \subseteq Of(r) /\ senders'[r] = senders[r]
    BY <1>2, <1>6
  <2>6. ASSUME f.r \in destroyed', senders'[f.r] > 0
        PROVE  \E q \in Actors : IsAt(q, "leave")' /\ Top(q)'.r = f.r
    <3>1. CASE f.r \in destroyed
      <4>1. PICK q \in Actors : IsAt(q, "leave") /\ Top(q).r = f.r
        BY <1>2, <1>3, <2>6, <3>1 DEF Trace
      <4> QED
        BY <1>8, <2>1, <4>1
    <3> QED
      BY <1>9, <2>6, <3>1
  <2>7. IsAt(p, "addSender") \/ IsAt(p, "leaving") \/ IsAt(p, "leave") => Top(p).r = f.r
    BY <1>1
  <2>8. Trace'
    BY <1>2, <1>3, <1>8, <1>9, <2>3, <2>4, <2>5, <2>6, <2>7, TraceKeptBut
  <2> QED
    BY <2>2, <2>8
<1>10. CASE f.n > 1
  <2>1. PICK g : g = [f EXCEPT !.n = f.n - 1]
    OBVIOUS
  <2>2. g \in AFrame /\ g.at = "leaving" /\ g.r = f.r
    <3>1. f.n \in Nat
      BY DEF AFrame
    <3>2. f.n - 1 \in Nat
      BY <1>10, <3>1
    <3> QED
      BY <1>1, <2>1, <3>2 DEF AFrame
  <2>3. stack' = Changed(p, g) /\ UNCHANGED <<lock, destroyed>>
    BY <1>2, <1>10, <2>1
  <2>4. FrameOK(p, g)'
    BY <1>4, <2>2 DEF FrameOK, Slots, Emitting
  <2>5. OnlyStackOf(p) /\ Top(p)' = g /\ \A b : IsAt(p, b)' <=> b = "leaving"
    BY <1>2, <1>3, <2>2, <2>3, GoneTo
  <2>6. Trace' /\ Iterator'
    BY <1>3, <1>9, <2>3, <2>5
  <2>7. lock' \in Mutexes /\ lock'[Sig] = lock[Sig]
    BY <1>3, <2>3 DEF Typed2, DataTyped, Mutexes
  <2>8. "leaving" \notin Emitting \cup {"task", "call"} /\ "leaving" \notin Holding
    BY DEF Holding, Emitting
  <2> QED
    BY <1>2, <1>6, <1>7, <2>2, <2>3, <2>4, <2>6, <2>7, <2>8, GoKeeps
<1>11. CASE ~(f.n > 1)
  <2>1. Return(p) /\ lock' = Released(f.r)
    BY <1>2, <1>11
  <2>2. /\ OnlyStackOf(p) /\ \A b : IsAt(p, b)' => b \in Under \cup {"leave"}
        /\ destroyed \subseteq destroyed' /\ destroyed' \subseteq Receivers
        /\ \A r \in destroyed' \ destroyed : IsAt(p, "leave")' /\ Top(p)'.r = r
    BY <1>2, <1>6, <2>1, Returned
  <2>3. ~IsAt(p, "dropSender")'
    BY <2>2 DEF Under
  <2>4. Trace' /\ Iterator'
    BY <1>9, <2>2, <2>3
  <2>5. lock' \in Mutexes /\ lock'[Sig] = lock[Sig]
    BY <1>3, <1>4, <2>1, LocksTyped
  <2> QED
    BY <1>2, <1>6, <1>7, <2>1, <2>4, <2>5, ReturnKeeps
<1> QED
  BY <1>10, <1>11

-----------------------------------------------------------------------------
(* Emissions.                                                              *)
LEMMA EmitEnterKeeps ==
  ASSUME SlotInv2, NEW p \in Actors, EmitEnter(p)
  PROVE  SlotInv2'
<1> DEFINE n == Len(stack[p]) - 1
<1>1. /\ IsAt(p, "emit") /\ Free(Sig, p) /\ lock' = Locked(Sig, p)
      /\ m_currentIterator' = From(m_connectionList, 0)
      /\ stack' = Changed(p, Frame("next", NoConn, NoReceiver, 0, m_connectionList))
      /\ reentered' = (reentered \/ lock[Sig].owner = p)
      /\ UNCHANGED <<recursive, m_connectionList, m_unique, conn, senders, held, destroyed,
                     tasks, calls, fires, partial>>
  BY DEF EmitEnter
<1>2. /\ \A b : IsAt(p, b) <=> b = "emit"
      /\ senders \in [Receivers -> Nat] /\ destroyed \subseteq Receivers /\ held \cap destroyed = {}
      /\ Typed2 /\ Frames /\ LockHeld /\ Trace /\ Iterator
  BY <1>1, Standing
<1>3. /\ m_connectionList \in SUBSET Conns /\ m_connectionList \subseteq Made /\ Made \subseteq Nat
      /\ NoReceiver \notin Receivers
  BY <1>2, MadeAreNumbers, SigslotAssumption
<1>4. PICK g \in AFrame : /\ g = Frame("next", NoConn, NoReceiver, 0, m_connectionList)
                          /\ g.at = "next" /\ g.r = NoReceiver /\ g.due = m_connectionList
  <2>1. "next" \in Places /\ 0 \in Nat
    BY DEF Places, Holding, Emitting
  <2>2. m_connectionList \in SUBSET (Kinds \cup Conns \cup Actors \cup {NoThread})
    BY <1>3
  <2> QED
    BY <2>1, <2>2, FrameIs
<1>5. stack' = Changed(p, g)
  BY <1>1, <1>4
<1>6. Made' = Made /\ \A r : Of(r)' = Of(r)
  BY <1>1, SameConnections
<1>7. FrameOK(p, g)'
  BY <1>1, <1>2, <1>3, <1>4, <1>6 DEF FrameOK, Slots
<1>8. stack[p] # << >> /\ Top(p).at = "emit"
  BY <1>1 DEF IsAt
<1>9. /\ Moves(p, n) /\ n \in Nat /\ Frames' /\ OnlyStackOf(p)
      /\ Len(stack'[p]) = n + 1 /\ stack'[p][n + 1] = g
      /\ \A at : IsAt(p, at)' <=> at = g.at
      /\ Cardinality(Holds(stack[p])) + (IF g.at \in Holding THEN 1 ELSE 0) =
           Cardinality(Holds(stack'[p])) + IF Top(p).at \in Holding THEN 1 ELSE 0
  BY <1>1, <1>2, <1>4, <1>5, <1>6, <1>7, <1>8, GoToIs
<1>10. LockHeld'
  <2>1. "next" \in Holding /\ "emit" \notin Holding
    BY DEF Holding, Emitting
  <2>2. Cardinality(Holds(stack[p])) \in Nat /\ Cardinality(Holds(stack'[p])) \in Nat
    BY <1>2, <1>9, HoldsIsFinite DEF OnlyStackOf, Typed2
  <2>3. Cardinality(Holds(stack'[p])) = Cardinality(Holds(stack[p])) + 1
    BY <1>4, <1>8, <1>9, <2>1, <2>2
  <2> QED
    BY <1>1, <1>2, <1>9, <2>3, LockTaken
<1>11. \/ m_currentIterator' = NoConn /\ \A m \in m_connectionList : m < 0
       \/ /\ m_currentIterator' \in m_connectionList
          /\ \A m \in m_connectionList : 0 <= m => m_currentIterator' <= m
  BY <1>1, <1>3, FromIs
<1>12. Typed2'
  <2>1. Sig \in Locks
    BY <1>2, SigIsALock
  <2>2. lock' \in Mutexes /\ lock'[Sig].depth \in Nat
    BY <1>1, <1>2, <2>1, LocksTyped
  <2>3. m_connectionList' \subseteq Made' /\ m_currentIterator' \in Made' \cup {NoConn}
    BY <1>1, <1>3, <1>6, <1>11
  <2>4. DataTyped'
    BY <1>1, <1>2, <1>6, <2>2, <2>3 DEF DataTyped, Mutexes, Typed2
  <2> QED
    BY <1>1, <1>2, <1>6, <1>9, <2>4 DEF Typed2, OnlyStackOf
<1>13. Waiting'
  <2>1. ~IsAt(p, "blocked") /\ g.at # "call" /\ Waiting
    BY <1>2, <1>4 DEF SlotInv2
  <2> QED
    BY <1>1, <1>2, <1>9, <2>1, WaitingKept
<1>14. Trace'
  <2>1. ~IsAt(p, "dropSender")'
    BY <1>4, <1>9
  <2> QED
    BY <1>1, <1>2, <1>6, <1>9, <2>1, TraceKept
<1>15. Iterator'
  BY <1>1, <1>11 DEF Iterator
<1>16. ASSUME ~reentered', NEW q \in Actors PROVE Holds(stack[q]) = {}
  <2>1. lock[Sig].owner # p
    BY <1>1, <1>16
  <2> QED
    BY <1>1, <1>2, <2>1, OnlyHolder
<1>17. ASSUME ~reentered', NEW q \in Actors, NEW i, Emits(q, i)' PROVE q = p /\ i = n + 1
  <2>1. i \in DOMAIN stack'[q] /\ stack'[q][i].at \in Holding
    BY <1>17 DEF Emits, Holding
  <2>2. CASE q # p
    <3>1. stack'[q] = stack[q]
      BY <1>9, <2>2 DEF OnlyStackOf
    <3> QED
      BY <1>16, <1>17, <2>1, <3>1 DEF Holds
  <2>3. CASE q = p /\ i # n + 1
    <3>1. stack'[p] \in Seq(AFrame) /\ stack[p] \in Seq(AFrame)
      BY <1>2, <1>9 DEF Typed2, OnlyStackOf
    <3>2. i \in 1 .. n
      BY <1>9, <2>1, <2>3, <3>1
    <3>3. i \in DOMAIN stack[p] /\ stack'[p][i] = stack[p][i]
      BY <1>9, <3>1, <3>2 DEF Moves, Same
    <3> QED
      BY <1>16, <1>17, <2>1, <2>3, <3>3 DEF Holds
  <2> QED
    BY <2>2, <2>3
<1>18. Due'
  <2>1. ASSUME ~reentered', NEW c \in g.due \cap m_connectionList'
        PROVE  m_currentIterator' # NoConn /\ m_currentIterator' <= c
    <3>1. c \in m_connectionList /\ c \in Nat
      BY <1>3, <1>4, <2>1
    <3>2. ~(c < 0) /\ 0 <= c
      BY <3>1
    <3>3. NoConn \notin m_connectionList
      BY <1>3, SigslotAssumption
    <3> QED
      BY <1>11, <3>1, <3>2, <3>3
  <2> HIDE DEF n
  <2>2. ASSUME ~reentered'
        PROVE  /\ \A q, r \in Actors : \A i, j \in Nat : Emits(q, i)' /\ Emits(r, j)' => q = r /\ i = j
               /\ \A q \in Actors : \A i \in DOMAIN stack'[q] : Emits(q, i)' =>
                    \A c \in stack'[q][i].due \cap m_connectionList' :
                      m_currentIterator' # NoConn /\ m_currentIterator' <= c
    BY <1>9, <1>17, <2>1, <2>2
  <2> QED
    BY <2>2 DEF Due
<1>19. Single'
  <2>1. /\ Top(p).at \notin Slots /\ Made \cap m_connectionList' \subseteq m_connectionList
        /\ Single
        /\ reentered => reentered'
        /\ \A c \in Made : conn'[c].single = conn[c].single /\ (conn[c].emitted => conn'[c].emitted)
    BY <1>1, <1>8 DEF SlotInv2, Slots
  <2>2. Moves(p, n)
    BY <1>9
  <2>3. UNCHANGED <<tasks, fires>>
    BY <1>1
  <2> HIDE DEF n
  <2> QED
    BY <1>2, <2>1, <2>2, <2>3, SingleKept
<1> QED
  BY <1>9, <1>10, <1>12, <1>13, <1>14, <1>15, <1>18, <1>19 DEF SlotInv2

(* An emission calls a slot: its frame changes and the slot's is pushed.   *)
LEMMA CalledIs ==
  ASSUME Typed2, NEW p \in Actors, NEW g \in AFrame, NEW s \in AFrame, stack[p] # << >>,
         stack' = [Changed(p, g) EXCEPT ![p] = Append(Changed(p, g)[p], s)],
         Top(p).at \in Holding, g.at \in Holding, s.at \notin Holding
  PROVE  /\ OnlyStackOf(p) /\ Len(stack[p]) \in Nat /\ Len(stack[p]) >= 1
         /\ \A i \in 1 .. Len(stack[p]) - 1 : stack'[p][i] = stack[p][i]
         /\ stack'[p][Len(stack[p])] = g /\ stack'[p][Len(stack[p]) + 1] = s
         /\ Len(stack'[p]) = Len(stack[p]) + 1
         /\ Cardinality(Holds(stack'[p])) = Cardinality(Holds(stack[p]))
<1>1. stack \in [Actors -> Seq(AFrame)] /\ stack[p] \in Seq(AFrame)
  BY DEF Typed2
<1> DEFINE front == Front(stack[p])
<1>2. /\ front \in Seq(AFrame) /\ Len(front) = Len(stack[p]) - 1
      /\ \A i \in 1 .. Len(stack[p]) - 1 : front[i] = stack[p][i]
      /\ Len(stack[p]) \in Nat /\ Len(stack[p]) >= 1
      /\ stack[p] = Append(front, Top(p)) /\ Top(p) \in AFrame
  BY <1>1, FrontIs DEF Top
<1>3. Changed(p, g) = [stack EXCEPT ![p] = Append(front, g)]
  BY DEF Changed
<1> HIDE DEF front
<1>4. Changed(p, g)[p] = Append(front, g) /\ Append(front, g) \in Seq(AFrame)
  BY <1>1, <1>2, <1>3
<1>5. Append(Append(front, g), s) \in Seq(AFrame)
  BY <1>4
<1>6. stack' = [stack EXCEPT ![p] = Append(Append(front, g), s)]
  BY <1>1, <1>3, <1>4
<1>7. stack'[p] = Append(Append(front, g), s) /\ OnlyStackOf(p)
  BY <1>1, <1>5, <1>6 DEF OnlyStackOf
<1>8. /\ Cardinality(Holds(stack[p])) = Cardinality(Holds(front)) + 1
      /\ Cardinality(Holds(Append(front, g))) = Cardinality(Holds(front)) + 1
      /\ Cardinality(Holds(stack'[p])) = Cardinality(Holds(Append(front, g))) + 0
  <2>1. /\ Cardinality(Holds(Append(front, Top(p)))) =
             Cardinality(Holds(front)) + IF Top(p).at \in Holding THEN 1 ELSE 0
        /\ Cardinality(Holds(Append(front, g))) =
             Cardinality(Holds(front)) + IF g.at \in Holding THEN 1 ELSE 0
    BY <1>2, HoldsOfAppend
  <2>2. Cardinality(Holds(Append(Append(front, g), s))) =
          Cardinality(Holds(Append(front, g))) + IF s.at \in Holding THEN 1 ELSE 0
    BY <1>4, HoldsOfAppend
  <2> QED
    BY <1>2, <1>7, <2>1, <2>2
<1>9. Cardinality(Holds(front)) \in Nat
  BY <1>2, HoldsIsFinite
<1>10. Cardinality(Holds(stack'[p])) = Cardinality(Holds(stack[p]))
  BY <1>8, <1>9
<1>11. /\ \A i \in 1 .. Len(stack[p]) - 1 : stack'[p][i] = stack[p][i]
       /\ stack'[p][Len(stack[p])] = g /\ stack'[p][Len(stack[p]) + 1] = s
       /\ Len(stack'[p]) = Len(stack[p]) + 1
  BY <1>2, <1>4, <1>7
<1> QED
  BY <1>2, <1>7, <1>10, <1>11

(* What one turn of the loop of emit does, its frame f becoming g.         *)
Turn(p, n, f, g) ==
  /\ n \in Nat /\ n + 1 = Len(stack[p]) /\ f = stack[p][n + 1] /\ f.at = "next" /\ FrameOK(p, f)
  /\ g.at \in Emitting /\ g.c = m_currentIterator /\ g.r = f.r /\ g.due = f.due \ {m_currentIterator}
  /\ OnlyStackOf(p) /\ stack'[p][n + 1] = g
  /\ \A i \in 1 .. n : stack'[p][i] = stack[p][i]
  /\ \/ Len(stack'[p]) = n + 1 /\ g.at # "calling"
     \/ Len(stack'[p]) = n + 2 /\ g.at = "calling" /\ stack'[p][n + 2] = Slot(m_currentIterator)
  /\ g.at # "next" => ~Skipped(m_currentIterator)
  /\ g.at = "blocked" => p # RtcThread
  /\ Cardinality(Holds(stack'[p])) = Cardinality(Holds(stack[p]))

TurnOfData(p, g) ==
  /\ m_currentIterator \in m_connectionList
  /\ m_currentIterator' = From(m_connectionList, m_currentIterator + 1)
  /\ \/ UNCHANGED conn
     \/ \E t \in Types : conn' = [conn EXCEPT ![m_currentIterator].type = t]
  /\ g.at = "next" => UNCHANGED <<tasks, fires>>
  /\ g.at = "calling" => fires' = Fired(m_currentIterator) /\ UNCHANGED tasks
  /\ g.at \in {"posted", "blocked"} =>
       /\ UNCHANGED fires
       /\ tasks' = Append(tasks, [c |-> m_currentIterator, caller |-> IF g.at = "posted" THEN NoThread ELSE p])
  /\ UNCHANGED <<recursive, lock, m_connectionList, m_unique, senders, held, destroyed,
                 calls, partial, reentered>>

LEMMA IteratorStands ==
  ASSUME SlotInv2, NEW p \in Actors, IsAt(p, "next"), m_currentIterator # NoConn
  PROVE  m_currentIterator \in m_connectionList
<1>1. Typed2 /\ LockHeld /\ Iterator /\ \A b : IsAt(p, b) <=> b = "next"
  BY Standing
<1>2. \A q \in Actors : ~IsAt(q, "clear")
  <2>1. "next" \in Holding /\ "clear" \in Holding
    BY DEF Holding, Emitting
  <2>2. stack[p] # << >> /\ Top(p).at \in Holding
    BY <2>1 DEF IsAt
  <2>3. \A q \in Actors : q # p => \A at \in Holding : ~IsAt(q, at)
    BY <1>1, <2>2, Alone
  <2> QED
    BY <1>1, <2>1, <2>3
<1> QED
  BY <1>1, <1>2 DEF Iterator

LEMMA SlotIs ==
  ASSUME Typed2, NEW c \in Made
  PROVE  /\ Slot(c) \in AFrame /\ Slot(c).at = "slot" /\ Slot(c).c = c
         /\ Slot(c).r = conn[c].receiver
         /\ conn[c].type \in Types /\ Resolved(c, RtcThread) \in Types
         /\ \A p : Resolved(c, p) \in Types
         /\ ~Expired(c) \/ Runs(c) => conn[c].receiver \notin destroyed
<1>1. conn[c] \in Connection /\ conn[c].type # "none" /\ c \in Conns /\ destroyed \subseteq Receivers
  BY DEF Typed2, DataTyped, Made
<1>2. conn[c].receiver \in Receivers \cup {NoReceiver} /\ conn[c].type \in Types
  BY <1>1 DEF Connection
<1>3. "slot" \in Places /\ 0 \in Nat /\ {} \in SUBSET (Kinds \cup Conns \cup Actors \cup {NoThread})
  BY DEF Places, Under
<1>4. /\ Slot(c) \in AFrame /\ Slot(c).at = "slot" /\ Slot(c).c = c
      /\ Slot(c).r = conn[c].receiver
  BY <1>1, <1>2, <1>3, FrameIs DEF Slot
<1>5. \A p : Resolved(c, p) \in Types
  BY <1>2 DEF Resolved, Types
<1>6. ~Expired(c) \/ Runs(c) => conn[c].receiver \notin destroyed
  BY <1>1, <1>2, SigslotAssumption DEF Expired, Runs, Alive
<1> QED
  BY <1>2, <1>4, <1>5, <1>6

LEMMA EmitNextIs ==
  ASSUME SlotInv2, NEW p \in Actors, EmitNext(p)
  PROVE  \E n \in Nat, f \in AFrame, g \in AFrame : Turn(p, n, f, g) /\ TurnOfData(p, g)
<1> DEFINE c == m_currentIterator
           type == Resolved(c, p)
           inline == type = "direct" \/ (type = "blocking" /\ p = RtcThread)
<1>1. /\ IsAt(p, "next") /\ c # NoConn /\ m_currentIterator' = From(m_connectionList, c + 1)
      /\ UNCHANGED <<recursive, lock, m_connectionList, m_unique, senders, held, destroyed,
                     calls, partial, reentered>>
  BY DEF EmitNext
<1>2. Typed2 /\ Frames
  BY <1>1, Standing
<1>3. PICK f \in AFrame : f = Top(p) /\ f.at = "next" /\ FrameOK(p, f)
  BY <1>1, Standing
<1>4. /\ stack[p] # << >> /\ stack[p] \in Seq(AFrame) /\ Len(stack[p]) \in Nat /\ Len(stack[p]) >= 1
      /\ f = stack[p][Len(stack[p])]
  BY <1>1, <1>2, <1>3, TopOfStack
<1>5. PICK n \in Nat : n + 1 = Len(stack[p])
  <2>1. Len(stack[p]) - 1 \in Nat /\ (Len(stack[p]) - 1) + 1 = Len(stack[p])
    BY <1>4
  <2> QED
    BY <2>1
<1>6. c \in m_connectionList /\ c \in Made
  BY <1>1, <1>2, IteratorStands DEF Typed2, DataTyped
<1>7. type \in Types /\ c \in Conns
  BY <1>2, <1>6, SlotIs DEF Made
<1>8. ASSUME NEW at \in Emitting
      PROVE  LET g == [f EXCEPT !.c = c, !.due = f.due \ {c}, !.at = at]
             IN  /\ g \in AFrame /\ g.at = at /\ g.c = c /\ g.r = f.r /\ g.due = f.due \ {c}
  <2>1. at \in Places /\ f.due \ {c} \in SUBSET (Kinds \cup Conns \cup Actors \cup {NoThread})
    BY DEF Places, Holding, AFrame
  <2> HIDE DEF c
  <2> QED
    BY <1>7, <2>1 DEF AFrame
<1>9. /\ "next" \in Emitting /\ "calling" \in Emitting /\ "posted" \in Emitting /\ "blocked" \in Emitting
      /\ Emitting \subseteq Holding /\ "slot" \notin Holding /\ "call" \notin Emitting /\ "task" \notin Emitting
  BY DEF Emitting, Holding
<1> DEFINE frame(at) == [f EXCEPT !.c = c, !.due = f.due \ {c}, !.at = at]
<1>10. IF Skipped(c)
         THEN stack' = Changed(p, frame("next")) /\ UNCHANGED <<conn, tasks, fires>>
         ELSE /\ conn' = [conn EXCEPT ![c].type = type]
              /\ stack' = IF inline
                            THEN [Changed(p, frame("calling")) EXCEPT
                                    ![p] = Append(Changed(p, frame("calling"))[p], Slot(c))]
                            ELSE Changed(p, frame(IF type = "queued" THEN "posted" ELSE "blocked"))
              /\ fires' = IF inline THEN Fired(c) ELSE fires
              /\ tasks' = IF inline THEN tasks
                          ELSE Append(tasks, [c |-> c, caller |-> IF type = "queued" THEN NoThread ELSE p])
  BY <1>3 DEF EmitNext
<1>11. ASSUME NEW g \in AFrame, stack' = Changed(p, g), g.at \in Emitting \ {"calling"},
              g.c = c, g.r = f.r, g.due = f.due \ {c},
              g.at # "next" => ~Skipped(c), g.at = "blocked" => p # RtcThread
       PROVE  Turn(p, n, f, g)
  <2>1. /\ OnlyStackOf(p) /\ Same(p, Len(stack[p]) - 1)
        /\ Len(stack'[p]) = Len(stack[p]) /\ stack'[p][Len(stack'[p])] = g
        /\ Cardinality(Holds(stack[p])) + (IF g.at \in Holding THEN 1 ELSE 0) =
             Cardinality(Holds(stack'[p])) + IF Top(p).at \in Holding THEN 1 ELSE 0
    BY <1>2, <1>4, <1>11, ChangeIs
  <2>2. Cardinality(Holds(stack[p])) \in Nat /\ Cardinality(Holds(stack'[p])) \in Nat
    BY <1>4, <2>1, HoldsIsFinite DEF OnlyStackOf
  <2>3. g.at \in Holding /\ Top(p).at \in Holding
    BY <1>3, <1>9, <1>11
  <2>4. Cardinality(Holds(stack'[p])) = Cardinality(Holds(stack[p]))
    BY <2>1, <2>2, <2>3
  <2>5. n = Len(stack[p]) - 1
    BY <1>5
  <2>6. /\ \A i \in 1 .. n : stack'[p][i] = stack[p][i]
        /\ stack'[p][n + 1] = g /\ Len(stack'[p]) = n + 1
    BY <1>5, <2>1, <2>5 DEF Same
  <2> HIDE DEF c
  <2> QED
    BY <1>3, <1>4, <1>5, <1>11, <2>1, <2>4, <2>6 DEF Turn, c
<1>12. CASE Skipped(c)
  <2>1. PICK g \in AFrame : g = frame("next") /\ g.at = "next" /\ g.c = c /\ g.r = f.r /\ g.due = f.due \ {c}
    BY <1>8, <1>9
  <2>2. Turn(p, n, f, g)
    BY <1>9, <1>10, <1>11, <1>12, <2>1
  <2>3. TurnOfData(p, g)
    BY <1>1, <1>6, <1>10, <1>12, <2>1 DEF TurnOfData
  <2> QED
    BY <2>2, <2>3
<1>13. CASE ~Skipped(c) /\ inline
  <2>1. PICK g \in AFrame : g = frame("calling") /\ g.at = "calling" /\ g.c = c /\ g.r = f.r /\ g.due = f.due \ {c}
    BY <1>8, <1>9
  <2>2. PICK s \in AFrame : s = Slot(c) /\ s.at = "slot"
    BY <1>2, <1>6, SlotIs
  <2>3. stack' = [Changed(p, g) EXCEPT ![p] = Append(Changed(p, g)[p], s)]
    BY <1>10, <1>13, <2>1, <2>2
  <2>4. /\ OnlyStackOf(p)
        /\ \A i \in 1 .. Len(stack[p]) - 1 : stack'[p][i] = stack[p][i]
        /\ stack'[p][Len(stack[p])] = g /\ stack'[p][Len(stack[p]) + 1] = s
        /\ Len(stack'[p]) = Len(stack[p]) + 1
        /\ Cardinality(Holds(stack'[p])) = Cardinality(Holds(stack[p]))
    <3>1. Top(p).at \in Holding /\ g.at \in Holding /\ s.at \notin Holding
      BY <1>3, <1>9, <2>1, <2>2
    <3> QED
      BY <1>2, <1>4, <2>3, <3>1, CalledIs
  <2>5. n = Len(stack[p]) - 1 /\ Len(stack[p]) = n + 1 /\ Len(stack[p]) + 1 = n + 2
    BY <1>5
  <2>6. Turn(p, n, f, g)
    BY <1>3, <1>4, <1>5, <1>9, <1>13, <2>1, <2>2, <2>4, <2>5 DEF Turn
  <2>7. TurnOfData(p, g)
    BY <1>1, <1>6, <1>7, <1>10, <1>13, <2>1 DEF TurnOfData
  <2> QED
    BY <2>6, <2>7
<1>14. CASE ~Skipped(c) /\ ~inline
  <2> DEFINE at == IF type = "queued" THEN "posted" ELSE "blocked"
  <2>1. PICK g \in AFrame : g = frame(at) /\ g.at = at /\ g.c = c /\ g.r = f.r /\ g.due = f.due \ {c}
    <3>1. at \in Emitting
      BY <1>9
    <3> HIDE DEF at
    <3> QED
      BY <1>8, <3>1
  <2>2. type \in {"queued", "blocking", "auto"} /\ type # "auto"
    BY <1>7, <1>14 DEF Types, Resolved
  <2>3. g.at \in Emitting \ {"calling"} /\ (g.at = "blocked" => p # RtcThread)
    BY <1>9, <1>14, <2>1, <2>2
  <2>4. Turn(p, n, f, g)
    BY <1>10, <1>11, <1>14, <2>1, <2>3
  <2>5. TurnOfData(p, g)
    BY <1>1, <1>6, <1>7, <1>10, <1>14, <2>1 DEF TurnOfData
  <2> QED
    BY <2>4, <2>5
<1> QED
  BY <1>12, <1>13, <1>14

LEMMA TurnOfStack ==
  ASSUME SlotInv2, NEW p \in Actors, NEW n, NEW f \in AFrame, NEW g \in AFrame, Turn(p, n, f, g), TurnOfData(p, g)
  PROVE  /\ stack[p] \in Seq(AFrame) /\ stack'[p] \in Seq(AFrame) /\ n \in Nat /\ n + 1 \in DOMAIN stack[p]
         /\ Made' = Made /\ \A r : Of(r)' = Of(r)
         /\ conn' \in [Conns -> Connection]
         /\ \A c \in Conns : conn'[c].single = conn[c].single /\ conn'[c].emitted = conn[c].emitted
         /\ m_currentIterator \in Made /\ m_currentIterator \in m_connectionList
         /\ \A i \in DOMAIN stack'[p] : i \in 1 .. n \/ i = n + 1 \/ (i = n + 2 /\ g.at = "calling")
         /\ \A b : IsAt(p, b)' => b \in {"slot", "next", "posted", "blocked"}
         /\ g.at = "blocked" => IsAt(p, "blocked")'
<1>1. Typed2 /\ stack[p] \in Seq(AFrame) /\ stack'[p] \in Seq(AFrame) /\ n \in Nat
  BY DEF SlotInv2, Typed2, Turn, OnlyStackOf
<1>2. m_currentIterator \in Made /\ m_currentIterator \in m_connectionList
  BY <1>1 DEF Typed2, DataTyped, TurnOfData
<1>3. conn \in [Conns -> Connection] /\ m_currentIterator \in Conns /\ conn[m_currentIterator].type # "none"
  BY <1>1, <1>2 DEF Typed2, DataTyped, Made
<1>4. /\ conn' \in [Conns -> Connection]
      /\ \A c \in Conns : /\ conn'[c].single = conn[c].single /\ conn'[c].emitted = conn[c].emitted
                          /\ conn'[c].receiver = conn[c].receiver
                          /\ conn'[c].type = "none" <=> conn[c].type = "none"
  <2>1. CASE UNCHANGED conn
    BY <1>3, <2>1
  <2>2. CASE \E t \in Types : conn' = [conn EXCEPT ![m_currentIterator].type = t]
    <3>1. PICK t \in Types : conn' = [conn EXCEPT ![m_currentIterator].type = t]
      BY <2>2
    <3> DEFINE new == [conn[m_currentIterator] EXCEPT !.type = t]
    <3>2. new \in Connection
      BY <1>3 DEF Connection
    <3>3. /\ new.single = conn[m_currentIterator].single /\ new.emitted = conn[m_currentIterator].emitted
          /\ new.receiver = conn[m_currentIterator].receiver /\ new.type = t /\ t # "none"
      BY <1>3 DEF Connection, Types
    <3>4. conn' = [conn EXCEPT ![m_currentIterator] = new]
      BY <3>1
    <3> HIDE DEF new
    <3> QED
      BY <1>3, <3>2, <3>3, <3>4
  <2> QED
    BY <2>1, <2>2 DEF TurnOfData
<1>5. Made' = Made
  BY <1>4 DEF Made
<1>6. \A r : Of(r)' = Of(r)
  <2>1. m_connectionList' = m_connectionList /\ m_connectionList \subseteq Conns
    BY <1>1 DEF TurnOfData, Typed2, DataTyped, Made
  <2> QED
    BY <1>4, <2>1 DEF Of
<1>7. n + 1 \in DOMAIN stack[p]
  BY <1>1 DEF Turn
<1>8. \A i \in DOMAIN stack'[p] : i \in 1 .. n \/ i = n + 1 \/ (i = n + 2 /\ g.at = "calling")
  BY <1>1 DEF Turn
<1>9. Slot(m_currentIterator).at = "slot"
  BY <1>1, <1>2, SlotIs
<1>10. CASE Len(stack'[p]) = n + 1 /\ g.at # "calling"
  <2>1. Top(p)' = g /\ stack'[p] # << >>
    BY <1>1, <1>10 DEF Top, Last, Turn
  <2>2. g.at \in {"next", "posted", "blocked"}
    BY <1>10 DEF Turn, Emitting
  <2> QED
    BY <1>1, <1>2, <1>4, <1>5, <1>6, <1>7, <1>8, <2>1, <2>2 DEF IsAt
<1>11. CASE Len(stack'[p]) = n + 2 /\ g.at = "calling" /\ stack'[p][n + 2] = Slot(m_currentIterator)
  <2>1. Top(p)' = Slot(m_currentIterator)
    BY <1>1, <1>11 DEF Top, Last
  <2> QED
    BY <1>1, <1>2, <1>4, <1>5, <1>6, <1>7, <1>8, <1>9, <1>11, <2>1 DEF IsAt
<1> QED
  BY <1>10, <1>11 DEF Turn

LEMMA TurnKeepsFrames ==
  ASSUME SlotInv2, NEW p \in Actors, NEW n, NEW f \in AFrame, NEW g \in AFrame, Turn(p, n, f, g), TurnOfData(p, g)
  PROVE  Frames'
<1>1. /\ stack[p] \in Seq(AFrame) /\ stack'[p] \in Seq(AFrame) /\ n \in Nat /\ n + 1 \in DOMAIN stack[p]
      /\ Made' = Made /\ m_currentIterator \in Made
      /\ \A i \in DOMAIN stack'[p] : i \in 1 .. n \/ i = n + 1 \/ (i = n + 2 /\ g.at = "calling")
  BY TurnOfStack
<1>2. Typed2 /\ Frames /\ destroyed' = destroyed
  BY DEF SlotInv2, TurnOfData
<1>3. \A q, h : FrameOK(q, h)' <=> FrameOK(q, h)
  BY <1>1, <1>2 DEF FrameOK
<1>4. FrameOK(p, g) /\ g.at \notin {"task", "call"}
  <2>1. f.due \subseteq Made /\ f.r \notin destroyed
    BY DEF Turn, FrameOK, Emitting
  <2>2. /\ g.at \in Emitting /\ g.c \in Made /\ g.due \subseteq Made /\ g.r \notin destroyed
        /\ g.at = "blocked" => p # RtcThread
    BY <1>1, <2>1 DEF Turn
  <2> QED
    BY <2>2 DEF FrameOK, Emitting
<1>5. ASSUME g.at = "calling" PROVE FrameOK(p, Slot(m_currentIterator)) /\ Slot(m_currentIterator).at = "slot"
  <2>1. ~Expired(m_currentIterator)
    BY <1>5 DEF Turn, Skipped
  <2>2. /\ Slot(m_currentIterator).at = "slot" /\ Slot(m_currentIterator).c \in Made
        /\ Slot(m_currentIterator).r \notin destroyed
    BY <1>1, <1>2, <2>1, SlotIs
  <2> QED
    BY <2>2 DEF FrameOK, Emitting, Slots
<1>6. ASSUME NEW q \in Actors, NEW i \in DOMAIN stack'[q], NEW h, h = stack'[q][i]
      PROVE  /\ FrameOK(q, h)' /\ (h.at \in {"task", "call"} => q = RtcThread /\ i = 1)
             /\ i < Len(stack'[q]) => h.at \in Under
  <2>1. CASE q # p
    <3>1. stack'[q] = stack[q]
      BY <2>1 DEF Turn, OnlyStackOf
    <3> QED
      BY <1>2, <1>3, <1>6, <3>1 DEF Frames
  <2>2. CASE q = p /\ i \in 1 .. n
    <3>1. i \in DOMAIN stack[p] /\ h = stack[p][i] /\ i < Len(stack[p])
      BY <1>1, <1>6, <2>2 DEF Turn
    <3> QED
      BY <1>2, <1>3, <2>2, <3>1 DEF Frames
  <2>3. CASE q = p /\ i = n + 1
    <3>1. h = g
      BY <1>6, <2>3 DEF Turn
    <3>2. i < Len(stack'[q]) => g.at = "calling"
      BY <1>1, <2>3 DEF Turn
    <3> QED
      BY <1>3, <1>4, <2>3, <3>1, <3>2 DEF Under
  <2>4. CASE q = p /\ i = n + 2 /\ g.at = "calling"
    <3>1. h = Slot(m_currentIterator) /\ ~(i < Len(stack'[q]))
      BY <1>1, <1>6, <2>4 DEF Turn
    <3> QED
      BY <1>3, <1>5, <2>4, <3>1
  <2> QED
    BY <1>1, <2>1, <2>2, <2>3, <2>4
<1> QED
  BY <1>6, FramesNext

LEMMA TurnKeepsWaiting ==
  ASSUME SlotInv2, NEW p \in Actors, NEW n, NEW f \in AFrame, NEW g \in AFrame, Turn(p, n, f, g), TurnOfData(p, g),
         ~IsAt(p, "blocked")
  PROVE  Waiting'
<1>1. /\ stack[p] \in Seq(AFrame) /\ stack'[p] \in Seq(AFrame) /\ n \in Nat /\ n + 1 \in DOMAIN stack[p]
      /\ g.at = "blocked" => IsAt(p, "blocked")'
  BY TurnOfStack
<1>2. Typed2 /\ Waiting /\ OnlyStackOf(p) /\ tasks \in Seq(Task)
  BY DEF SlotInv2, Turn, Typed2
<1>3. \A q \in Actors : IsAt(q, "blocked") => IsAt(q, "blocked")'
  BY <1>2, TopsOfOthers
<1>4. \A q : CallOf(q)' => CallOf(q)
  <2>1. CASE RtcThread # p
    BY <1>2, <2>1 DEF OnlyStackOf, CallOf, Actors
  <2>2. CASE RtcThread = p
    <3>1. stack'[p][1].at = "call" => stack'[p][1] = stack[p][1] /\ stack[p] # << >>
      <4>1. CASE n = 0
        <5>1. stack'[p][1] = g /\ g.at # "call"
          BY <4>1 DEF Turn, Emitting
        <5> QED
          BY <5>1
      <4>2. CASE n # 0
        <5>1. 1 \in 1 .. n
          BY <1>1, <4>2
        <5> QED
          BY <1>1, <5>1 DEF Turn
      <4> QED
        BY <4>1, <4>2
    <3> QED
      BY <2>2, <3>1 DEF CallOf
  <2> QED
    BY <2>1, <2>2
<1>5. CASE UNCHANGED tasks
  <2>1. tasks' = tasks
    BY <1>5
  <2> QED
    BY <1>2, <1>3, <1>4, <2>1 DEF Waiting
<1>6. CASE g.at \in {"posted", "blocked"}
  <2> DEFINE t == [c |-> m_currentIterator, caller |-> IF g.at = "posted" THEN NoThread ELSE p]
             k == Len(tasks) + 1
  <2>1. tasks' = Append(tasks, t)
    BY <1>6 DEF TurnOfData
  <2>2. t.caller = IF g.at = "posted" THEN NoThread ELSE p
    OBVIOUS
  <2> HIDE DEF t
  <2>3. /\ DOMAIN tasks = 1 .. Len(tasks) /\ DOMAIN tasks' = 1 .. k /\ Len(tasks) \in Nat
        /\ tasks'[k] = t /\ \A i \in DOMAIN tasks : tasks'[i] = tasks[i]
    BY <1>2, <2>1
  <2>4. \A i \in DOMAIN tasks : tasks[i].caller # p
    BY <1>2 DEF Waiting
  <2>5. NoThread \notin Actors
    BY SigslotAssumption DEF Actors
  <2>6. ~CallOf(p)
    BY <1>2 DEF Waiting
  <2> HIDE DEF k
  <2>7. \A i \in DOMAIN tasks' : i \in DOMAIN tasks \/ i = k
    BY <2>3 DEF k
  <2>8. ASSUME NEW i \in DOMAIN tasks', NEW q \in Actors, tasks'[i].caller = q
        PROVE  /\ IsAt(q, "blocked")' /\ ~CallOf(q)'
               /\ \A j \in DOMAIN tasks' : tasks'[j].caller = q => j = i
    <3>1. CASE i \in DOMAIN tasks
      <4>1. tasks[i].caller = q /\ q # p
        BY <2>3, <2>4, <2>8, <3>1
      <4>2. IsAt(q, "blocked") /\ ~CallOf(q) /\ \A j \in DOMAIN tasks : tasks[j].caller = q => j = i
        BY <1>2, <3>1, <4>1 DEF Waiting
      <4>3. tasks'[k].caller # q
        BY <2>2, <2>3, <2>5, <4>1
      <4> QED
        BY <1>3, <1>4, <2>3, <2>7, <4>2, <4>3
    <3>2. CASE i = k
      <4>1. q = p /\ g.at = "blocked"
        BY <1>6, <2>2, <2>3, <2>5, <2>8, <3>2
      <4>2. \A j \in DOMAIN tasks' : tasks'[j].caller = p => j = i
        BY <2>3, <2>4, <2>7, <3>2
      <4> QED
        BY <1>1, <1>4, <2>6, <4>1, <4>2
    <3> QED
      BY <2>7, <2>8, <3>1, <3>2
  <2>9. \A q \in Actors : CallOf(q)' => IsAt(q, "blocked")'
    BY <1>2, <1>3, <1>4 DEF Waiting
  <2> QED
    BY <2>8, <2>9 DEF Waiting
<1> QED
  <2>1. g.at \in {"next", "calling", "posted", "blocked"}
    BY DEF Turn, Emitting
  <2> QED
    BY <1>5, <1>6, <2>1 DEF TurnOfData

LEMMA TurnKeepsDue ==
  ASSUME SlotInv2, NEW p \in Actors, NEW n, NEW f \in AFrame, NEW g \in AFrame, Turn(p, n, f, g), TurnOfData(p, g)
  PROVE  Due'
<1>1. /\ stack[p] \in Seq(AFrame) /\ stack'[p] \in Seq(AFrame) /\ n \in Nat /\ n + 1 \in DOMAIN stack[p]
      /\ m_currentIterator \in Made /\ Made \subseteq Nat /\ m_connectionList \in SUBSET Conns
      /\ \A i \in DOMAIN stack'[p] : i \in 1 .. n \/ i = n + 1 \/ (i = n + 2 /\ g.at = "calling")
      /\ NoConn \notin m_connectionList /\ m_connectionList \subseteq Made
  <2>1. Typed2
    BY DEF SlotInv2
  <2> QED
    BY <2>1, TurnOfStack, MadeAreNumbers
<1>2. Typed2 /\ Due
  BY DEF SlotInv2
<1>3. /\ m_connectionList' = m_connectionList /\ reentered' = reentered
      /\ m_currentIterator' = From(m_connectionList, m_currentIterator + 1)
      /\ stack'[p][n + 1] = g /\ \A i \in 1 .. n : stack'[p][i] = stack[p][i]
      /\ \A q \in Actors : q # p => stack'[q] = stack[q]
      /\ f = stack[p][n + 1] /\ f.at = "next" /\ g.due = f.due \ {m_currentIterator}
  BY DEF Turn, TurnOfData, OnlyStackOf
<1>4. Emits(p, n + 1)
  BY <1>1, <1>3 DEF Emits, Emitting
<1>5. ASSUME NEW q \in Actors, NEW i, Emits(q, i)'
      PROVE  /\ Emits(q, i)
             /\ stack'[q][i] = stack[q][i] \/ (q = p /\ i = n + 1)
  <2>1. i \in DOMAIN stack'[q] /\ stack'[q][i].at \in Emitting
    BY <1>5 DEF Emits
  <2>2. CASE q # p
    BY <1>3, <1>5, <2>2 DEF Emits
  <2>3. CASE q = p /\ i \in 1 .. n
    <3>1. i \in DOMAIN stack[p]
      BY <1>1, <2>3
    <3> QED
      BY <1>3, <2>1, <2>3, <3>1 DEF Emits
  <2>4. CASE q = p /\ i = n + 1
    BY <1>4, <2>4
  <2>5. CASE q = p /\ i = n + 2 /\ g.at = "calling"
    <3>1. stack'[p][i] = Slot(m_currentIterator)
      BY <2>5 DEF Turn
    <3>2. Slot(m_currentIterator).at = "slot"
      BY <1>1, <1>2, SlotIs
    <3> QED
      BY <2>1, <2>5, <3>1, <3>2 DEF Emitting
  <2> QED
    BY <1>1, <2>1, <2>2, <2>3, <2>4, <2>5
<1>6. ASSUME NEW q \in Actors, NEW i, Emits(q, i)', Emits(q, i), ~reentered,
             NEW c \in stack'[q][i].due \cap m_connectionList'
      PROVE  /\ c \in stack[q][i].due \cap m_connectionList
             /\ m_currentIterator # NoConn /\ m_currentIterator <= c =>
                  m_currentIterator' # NoConn /\ m_currentIterator' <= c
  <2>1. i \in Nat /\ n + 1 \in Nat
    <3>1. stack[q] \in Seq(AFrame) /\ i \in DOMAIN stack[q]
      BY <1>2, <1>6 DEF Typed2, Emits
    <3> QED
      BY <1>1, <3>1
  <2>2. q = p /\ i = n + 1
    BY <1>2, <1>4, <1>6, <2>1 DEF Due
  <2>3. c \in f.due /\ c # m_currentIterator /\ c \in m_connectionList
    BY <1>3, <1>6, <2>2
  <2>4. c \in Nat /\ m_currentIterator \in Nat /\ m_currentIterator + 1 \in Nat
    BY <1>1, <2>3
  <2>5. m_currentIterator <= c => m_currentIterator + 1 <= c
    BY <2>3, <2>4
  <2>6. \/ m_currentIterator' = NoConn /\ \A m \in m_connectionList : m < m_currentIterator + 1
        \/ /\ m_currentIterator' \in m_connectionList
           /\ \A m \in m_connectionList : m_currentIterator + 1 <= m => m_currentIterator' <= m
    BY <1>1, <1>3, <2>4, FromIs
  <2>7. m_currentIterator + 1 <= c => ~(c < m_currentIterator + 1)
    BY <2>4
  <2> QED
    BY <1>1, <1>3, <2>2, <2>3, <2>5, <2>6, <2>7
<1>7. reentered => reentered'
  BY <1>3
<1> QED
  BY <1>2, <1>5, <1>6, <1>7, DueNext

LEMMA TurnKeepsSingle ==
  ASSUME SlotInv2, NEW p \in Actors, NEW n, NEW f \in AFrame, NEW g \in AFrame, Turn(p, n, f, g), TurnOfData(p, g)
  PROVE  Single'
<1>0. PICK it : it = m_currentIterator
  OBVIOUS
<1>1. /\ stack[p] \in Seq(AFrame) /\ stack'[p] \in Seq(AFrame) /\ n \in Nat /\ n + 1 \in DOMAIN stack[p]
      /\ Made' = Made /\ it \in Made /\ it \in m_connectionList
      /\ \A c \in Conns : conn'[c].single = conn[c].single /\ conn'[c].emitted = conn[c].emitted
  BY <1>0, TurnOfStack
<1>2. Typed2 /\ Due /\ Single /\ tasks \in Seq(Task) /\ it \in Conns /\ fires \in [Conns -> Nat]
  BY <1>1 DEF SlotInv2, Typed2, DataTyped, Made
<1>3. /\ m_connectionList' = m_connectionList /\ reentered' = reentered
      /\ stack'[p][n + 1] = g /\ \A i \in 1 .. n : stack'[p][i] = stack[p][i]
      /\ \A q \in Actors : q # p => stack'[q] = stack[q]
      /\ f = stack[p][n + 1] /\ f.at = "next" /\ g.c = it /\ g.at \in Emitting
      /\ Len(stack[p]) = n + 1
  BY <1>0 DEF Turn, TurnOfData, OnlyStackOf
<1>4. n + 1 \in DOMAIN stack'[p]
  BY <1>1 DEF Turn
<1>5. ASSUME NEW c \in Conns, Attempted(c) PROVE Attempted(c)'
  <2>1. CASE conn[c].emitted \/ c \notin m_connectionList
    BY <1>1, <1>3, <2>1 DEF Attempted
  <2>2. CASE \E q \in Actors : \E i \in DOMAIN stack[q] : stack[q][i].at \in Slots /\ stack[q][i].c = c
    <3>0. PICK q \in Actors : \E i \in DOMAIN stack[q] : stack[q][i].at \in Slots /\ stack[q][i].c = c
      BY <2>2
    <3>1. PICK i \in DOMAIN stack[q] : stack[q][i].at \in Slots /\ stack[q][i].c = c
      BY <3>0
    <3>2. CASE q # p
      BY <1>3, <3>1, <3>2 DEF Attempted
    <3>3. CASE q = p
      <4>1. i # n + 1
        BY <1>3, <3>1, <3>3 DEF Slots
      <4>2. i \in 1 .. n
        BY <1>1, <1>3, <3>1, <3>3, <4>1
      <4>3. i \in DOMAIN stack'[p] /\ stack'[p][i] = stack[p][i]
        BY <1>1, <1>3, <1>4, <4>2
      <4> QED
        BY <3>1, <3>3, <4>3 DEF Attempted
    <3> QED
      BY <3>2, <3>3
  <2> QED
    BY <1>5, <2>1, <2>2 DEF Attempted
<1>6. CASE g.at = "next"
  <2>1. UNCHANGED <<tasks, fires>>
    BY <1>6 DEF TurnOfData
  <2>2. \A c : Posted(c)' = Posted(c)
    BY <2>1 DEF Posted
  <2> QED
    BY <1>1, <1>2, <1>3, <1>5, <2>1, <2>2 DEF Single
<1>7. CASE g.at # "next"
  <2>1. Attempted(it)'
    <3>1. g.at \in Slots
      BY <1>3, <1>7 DEF Emitting, Slots
    <3> QED
      BY <1>3, <1>4, <3>1 DEF Attempted
  <2>2. ASSUME ~reentered, conn[it].single PROVE ~Attempted(it)
    <3>1. ~conn[it].emitted
      BY <1>0, <1>7, <2>2 DEF Turn, Skipped
    <3>2. ASSUME NEW q \in Actors, NEW i \in DOMAIN stack[q], stack[q][i].at \in Slots PROVE FALSE
      <4>1. Emits(q, i) /\ Emits(p, n + 1)
        BY <1>1, <1>3, <3>2 DEF Emits, Slots, Emitting
      <4>2. i \in Nat /\ n + 1 \in Nat
        BY <1>1, <1>2, <3>2 DEF Typed2
      <4>3. q = p /\ i = n + 1
        BY <1>2, <2>2, <4>1, <4>2 DEF Due
      <4> QED
        BY <1>3, <3>2, <4>3 DEF Slots
    <3> QED
      BY <1>1, <3>1, <3>2 DEF Attempted
  <2>3. CASE g.at = "calling"
    <3>1. fires' = [fires EXCEPT ![it] = fires[it] + 1] /\ UNCHANGED tasks
      BY <1>0, <2>3 DEF TurnOfData, Fired
    <3>2. \A c : Posted(c)' = Posted(c)
      BY <3>1 DEF Posted
    <3>3. fires'[it] = fires[it] + 1 /\ \A c \in Conns : c # it => fires'[c] = fires[c]
      BY <1>2, <3>1
    <3>4. ASSUME ~reentered', conn'[it].single
          PROVE  /\ fires'[it] <= 1 /\ Posted(it)' = {} /\ Attempted(it)'
      BY <1>1, <1>2, <1>3, <2>1, <2>2, <3>2, <3>3, <3>4 DEF Single
    <3>5. ASSUME ~reentered', NEW c \in Conns, conn'[c].single, c # it
          PROVE  /\ fires'[c] <= 1
                 /\ \A i, j \in Posted(c)' : i = j /\ fires'[c] = 0
                 /\ fires'[c] # 0 \/ Posted(c)' # {} => Attempted(c)'
      <4>1. ~reentered /\ conn[c].single /\ fires'[c] = fires[c] /\ Posted(c)' = Posted(c)
        BY <1>1, <1>3, <3>2, <3>3, <3>5
      <4>2. /\ fires[c] <= 1 /\ \A i, j \in Posted(c) : i = j /\ fires[c] = 0
            /\ fires[c] # 0 \/ Posted(c) # {} => Attempted(c)
        BY <1>2, <4>1 DEF Single
      <4> QED
        BY <1>5, <4>1, <4>2
    <3> QED
      BY <3>4, <3>5 DEF Single
  <2>4. CASE g.at \in {"posted", "blocked"}
    <3> DEFINE t == [c |-> it, caller |-> IF g.at = "posted" THEN NoThread ELSE p]
               k == Len(tasks) + 1
    <3>1. UNCHANGED fires /\ tasks' = Append(tasks, t)
      BY <1>0, <2>4 DEF TurnOfData
    <3>2. t.c = it
      OBVIOUS
    <3> HIDE DEF t
    <3>3. /\ DOMAIN tasks' = DOMAIN tasks \cup {k} /\ k \notin DOMAIN tasks
          /\ tasks'[k].c = it /\ \A i \in DOMAIN tasks : tasks'[i] = tasks[i]
      BY <1>2, <3>1, <3>2
    <3> HIDE DEF k
    <3>4. \A c : c # it => Posted(c)' = Posted(c)
      BY <3>3 DEF Posted
    <3>5. Posted(it)' = Posted(it) \cup {k}
      BY <3>3 DEF Posted
    <3>6. ASSUME ~reentered', conn'[it].single
          PROVE  /\ fires'[it] <= 1 /\ \A i, j \in Posted(it)' : i = j /\ fires'[it] = 0
                 /\ Attempted(it)'
      <4>1. Posted(it) = {} /\ fires[it] = 0
        BY <1>1, <1>2, <1>3, <2>2, <3>6 DEF Single
      <4> QED
        BY <2>1, <3>1, <3>5, <4>1
    <3>7. ASSUME ~reentered', NEW c \in Conns, conn'[c].single, c # it
          PROVE  /\ fires'[c] <= 1
                 /\ \A i, j \in Posted(c)' : i = j /\ fires'[c] = 0
                 /\ fires'[c] # 0 \/ Posted(c)' # {} => Attempted(c)'
      BY <1>1, <1>2, <1>3, <1>5, <3>1, <3>4, <3>7 DEF Single
    <3> QED
      BY <3>6, <3>7 DEF Single
  <2> QED
    BY <1>3, <1>7, <2>3, <2>4 DEF Emitting
<1> QED
  BY <1>6, <1>7

LEMMA EmitNextKeeps ==
  ASSUME SlotInv2, NEW p \in Actors, EmitNext(p)
  PROVE  SlotInv2'
<1>1. PICK n \in Nat, f \in AFrame, g \in AFrame : Turn(p, n, f, g) /\ TurnOfData(p, g)
  BY EmitNextIs
<1>2. IsAt(p, "next")
  BY DEF EmitNext
<1>3. /\ \A b : IsAt(p, b) <=> b = "next"
      /\ senders \in [Receivers -> Nat] /\ destroyed \subseteq Receivers /\ held \cap destroyed = {}
      /\ Typed2 /\ Frames /\ LockHeld /\ Trace /\ Iterator
  BY <1>2, Standing
<1>4. /\ Made' = Made /\ \A r : Of(r)' = Of(r)
      /\ conn' \in [Conns -> Connection]
      /\ m_currentIterator \in Made /\ m_currentIterator \in m_connectionList
      /\ \A b : IsAt(p, b)' => b \in {"slot", "next", "posted", "blocked"}
  BY <1>1, TurnOfStack
<1>5. /\ OnlyStackOf(p) /\ Cardinality(Holds(stack'[p])) = Cardinality(Holds(stack[p]))
      /\ m_currentIterator' = From(m_connectionList, m_currentIterator + 1)
      /\ UNCHANGED <<recursive, lock, m_connectionList, m_unique, senders, held, destroyed,
                     calls, partial, reentered>>
  BY <1>1 DEF Turn, TurnOfData
<1>6. m_connectionList \in SUBSET Conns /\ m_currentIterator + 1 \in Nat /\ m_connectionList \subseteq Made
  BY <1>3, <1>4, MadeAreNumbers
<1>7. m_currentIterator' \in m_connectionList \cup {NoConn}
  BY <1>5, <1>6, FromIs
<1>8. fires' \in [Conns -> Nat] /\ \A c \in Conns \ Made : fires'[c] = 0
  <2>1. fires' = fires \/ fires' = [fires EXCEPT ![m_currentIterator] = fires[m_currentIterator] + 1]
    BY <1>1 DEF TurnOfData, Turn, Emitting, Fired
  <2>2. fires \in [Conns -> Nat] /\ \A c \in Conns \ Made : fires[c] = 0
    BY <1>3 DEF Typed2, DataTyped
  <2> QED
    BY <1>4, <2>1, <2>2
<1>9. tasks' \in Seq(Task) /\ \A i \in DOMAIN tasks' : tasks'[i].c \in Made
  <2>1. tasks \in Seq(Task) /\ \A i \in DOMAIN tasks : tasks[i].c \in Made
    BY <1>3 DEF Typed2
  <2>2. tasks' = tasks \/ \E t \in Task : t.c = m_currentIterator /\ tasks' = Append(tasks, t)
    <3> DEFINE t == [c |-> m_currentIterator, caller |-> IF g.at = "posted" THEN NoThread ELSE p]
    <3>1. t \in Task /\ t.c = m_currentIterator
      BY <1>4 DEF Task, Made
    <3>2. tasks' = tasks \/ tasks' = Append(tasks, t)
      BY <1>1 DEF TurnOfData, Turn, Emitting
    <3> HIDE DEF t
    <3> QED
      BY <3>1, <3>2
  <2>3. CASE tasks' = tasks
    BY <2>1, <2>3
  <2>4. CASE tasks' # tasks
    <3>1. PICK t \in Task : t.c = m_currentIterator /\ tasks' = Append(tasks, t)
      BY <2>2, <2>4
    <3>2. \A i \in DOMAIN tasks' : tasks'[i] = t \/ (i \in DOMAIN tasks /\ tasks'[i] = tasks[i])
      BY <2>1, <3>1
    <3> QED
      BY <1>4, <2>1, <3>1, <3>2
  <2> QED
    BY <2>3, <2>4
<1>10. Typed2'
  <2>1. DataTyped'
    BY <1>3, <1>4, <1>5, <1>6, <1>7, <1>8 DEF Typed2, DataTyped
  <2> QED
    BY <1>3, <1>4, <1>5, <1>9, <2>1 DEF Typed2, OnlyStackOf
<1>11. Frames' /\ Due' /\ Single'
  BY <1>1, TurnKeepsFrames, TurnKeepsDue, TurnKeepsSingle
<1>12. Waiting'
  BY <1>1, <1>3, TurnKeepsWaiting
<1>13. LockHeld'
  BY <1>3, <1>5, LockKept DEF OnlyStackOf
<1>14. Trace'
  <2>1. ~IsAt(p, "dropSender")'
    BY <1>4
  <2> QED
    BY <1>3, <1>4, <1>5, <2>1, TraceKept
<1>15. Iterator'
  BY <1>5, <1>7 DEF Iterator
<1> QED
  BY <1>10, <1>11, <1>12, <1>13, <1>14, <1>15 DEF SlotInv2

LEMMA EmittedKeeps ==
  ASSUME SlotInv2, NEW p \in Actors, Emitted(p)
  PROVE  SlotInv2'
<1> DEFINE n == Len(stack[p]) - 1
<1>1. PICK at \in {"calling", "posted"} : IsAt(p, at)
  BY DEF Emitted
<1>2. PICK f \in AFrame : f = Top(p) /\ f.at = at /\ FrameOK(p, f)
  BY <1>1, Standing
<1>3. /\ \A b : IsAt(p, b) <=> b = at
      /\ senders \in [Receivers -> Nat] /\ destroyed \subseteq Receivers /\ held \cap destroyed = {}
      /\ Typed2 /\ Frames /\ LockHeld /\ Trace /\ Iterator
  BY <1>1, Standing
<1> DEFINE c == f.c
           fired == IsAt(p, "calling") /\ conn[c].single
           new == [conn[c] EXCEPT !.fired = conn[c].fired \/ fired,
                                  !.emitted = conn[c].emitted \/ (conn[c].single /\ c \in m_connectionList)]
<1>4. /\ stack' = Changed(p, [f EXCEPT !.at = "next"])
      /\ conn' = [conn EXCEPT ![c].fired = conn[c].fired \/ fired,
                              ![c].emitted = conn[c].emitted \/ (conn[c].single /\ c \in m_connectionList)]
      /\ UNCHANGED <<recursive, lock, m_connectionList, m_currentIterator, m_unique, senders, held, destroyed,
                     tasks, calls, fires, partial, reentered>>
  BY <1>2 DEF Emitted, GoTo, listVars, histVars
<1>5. /\ c \in Made /\ c \in Conns /\ conn \in [Conns -> Connection] /\ f.r \notin destroyed
      /\ f.due \subseteq Made
  BY <1>2, <1>3 DEF FrameOK, Slots, Emitting, Typed2, DataTyped, Made
<1>6. conn' = [conn EXCEPT ![c] = new]
  BY <1>4
<1>7. /\ new \in Connection /\ new.type = conn[c].type /\ new.receiver = conn[c].receiver
      /\ new.single = conn[c].single /\ new.emitted = (conn[c].emitted \/ (conn[c].single /\ c \in m_connectionList))
  <2>1. conn[c] \in Connection /\ fired \in BOOLEAN
    BY <1>5 DEF IsAt
  <2> HIDE DEF fired
  <2> QED
    BY <2>1 DEF Connection
<1> HIDE DEF new, c
<1>8. /\ conn' \in [Conns -> Connection] /\ conn'[c] = new
      /\ \A d \in Conns : d # c => conn'[d] = conn[d]
      /\ \A d \in Conns : conn'[d].type = conn[d].type /\ conn'[d].receiver = conn[d].receiver
  BY <1>5, <1>6, <1>7
<1>9. Made' = Made /\ \A r : Of(r)' = Of(r)
  <2>1. m_connectionList' = m_connectionList /\ m_connectionList \subseteq Conns
    BY <1>3, <1>4 DEF Typed2, DataTyped, Made
  <2> QED
    BY <1>8, <2>1 DEF Made, Of
<1>10. "next" \in Places /\ "next" \in Holding /\ at \in Holding /\ at \in Slots /\ at \in Emitting /\ "next" \in Emitting
  BY DEF Places, Holding, Emitting, Slots
<1>11. PICK g \in AFrame : g = [f EXCEPT !.at = "next"] /\ g.at = "next" /\ g.r = f.r /\ g.due = f.due
  BY <1>10, ElsewhereIs
<1>12. stack' = Changed(p, g)
  BY <1>4, <1>11
<1>13. FrameOK(p, g)'
  BY <1>4, <1>5, <1>9, <1>11 DEF FrameOK, Slots
<1>14. stack[p] # << >> /\ Top(p).at = at /\ f = stack[p][Len(stack[p])] /\ stack[p] \in Seq(AFrame)
       /\ Len(stack[p]) \in Nat /\ Len(stack[p]) >= 1
  BY <1>1, <1>2, <1>3, TopOfStack
<1>15. /\ Moves(p, n) /\ n \in Nat /\ Frames' /\ OnlyStackOf(p)
       /\ Len(stack'[p]) = n + 1 /\ stack'[p][n + 1] = g
       /\ \A b : IsAt(p, b)' <=> b = g.at
       /\ Cardinality(Holds(stack[p])) + (IF g.at \in Holding THEN 1 ELSE 0) =
            Cardinality(Holds(stack'[p])) + IF Top(p).at \in Holding THEN 1 ELSE 0
  <2>1. UNCHANGED destroyed /\ Made \subseteq Made' /\ g.at \notin {"task", "call"}
    BY <1>4, <1>9, <1>11
  <2> QED
    BY <1>3, <1>12, <1>13, <1>14, <2>1, GoToIs
<1>16. LockHeld'
  <2>1. Cardinality(Holds(stack[p])) \in Nat /\ Cardinality(Holds(stack'[p])) \in Nat
    BY <1>14, <1>15, HoldsIsFinite DEF OnlyStackOf
  <2>2. Cardinality(Holds(stack'[p])) = Cardinality(Holds(stack[p]))
    BY <1>10, <1>11, <1>14, <1>15, <2>1
  <2> QED
    BY <1>3, <1>4, <1>15, <2>2, LockKept DEF OnlyStackOf
<1>17. Typed2'
  <2>1. DataTyped'
    BY <1>3, <1>4, <1>8, <1>9 DEF Typed2, DataTyped
  <2> QED
    BY <1>3, <1>4, <1>9, <1>15, <2>1 DEF Typed2, OnlyStackOf
<1>18. Waiting'
  <2>1. ~IsAt(p, "blocked") /\ g.at # "call" /\ Waiting
    BY <1>3, <1>11 DEF SlotInv2
  <2> QED
    BY <1>3, <1>4, <1>15, <2>1, WaitingKept
<1>19. Trace'
  <2>1. ~IsAt(p, "dropSender")'
    BY <1>11, <1>15
  <2> QED
    BY <1>3, <1>4, <1>9, <1>15, <2>1, TraceKept
<1>20. Iterator'
  BY <1>3, <1>4, <1>15, IteratorKept
<1>21. /\ \A i \in 1 .. n : stack'[p][i] = stack[p][i]
       /\ stack'[p] \in Seq(AFrame) /\ n + 1 = Len(stack[p]) /\ f = stack[p][n + 1]
       /\ \A q \in Actors : q # p => stack'[q] = stack[q]
  BY <1>14, <1>15 DEF Moves, OnlyStackOf, Same
<1> HIDE DEF n
<1>22. n + 1 \in DOMAIN stack[p] /\ n + 1 \in DOMAIN stack'[p]
  BY <1>14, <1>15, <1>21
<1>23. Due'
  <2>1. ASSUME NEW q \in Actors, NEW i, Emits(q, i)'
        PROVE  Emits(q, i) /\ stack'[q][i].due = stack[q][i].due
    <3>1. i \in DOMAIN stack'[q] /\ stack'[q][i].at \in Emitting
      BY <2>1 DEF Emits
    <3>2. CASE q # p
      BY <1>21, <2>1, <3>2 DEF Emits
    <3>3. CASE q = p /\ i = n + 1
      BY <1>2, <1>10, <1>11, <1>15, <1>21, <1>22, <3>3 DEF Emits
    <3>4. CASE q = p /\ i # n + 1
      <4>1. i \in 1 .. n
        BY <1>15, <1>21, <3>1, <3>4
      <4>2. i \in DOMAIN stack[p]
        BY <1>14, <1>15, <1>21, <4>1
      <4> QED
        BY <1>21, <3>1, <3>4, <4>1, <4>2 DEF Emits
    <3> QED
      BY <3>2, <3>3, <3>4
  <2>2. Due /\ m_connectionList' = m_connectionList /\ m_currentIterator' = m_currentIterator
        /\ reentered' = reentered
    BY <1>4 DEF SlotInv2
  <2> QED
    BY <2>1, <2>2, DueNext
<1>24. Single'
  <2>1. Single /\ m_connectionList' = m_connectionList /\ fires' = fires /\ reentered' = reentered
    BY <1>4 DEF SlotInv2
  <2>2. \A d : Posted(d)' = Posted(d)
    BY <1>4 DEF Posted
  <2>3. \A d \in Conns : conn'[d].single = conn[d].single
    BY <1>7, <1>8
  <2>4. ASSUME conn[c].single PROVE Attempted(c)'
    <3>1. conn'[c].emitted \/ c \notin m_connectionList'
      BY <1>7, <1>8, <2>1, <2>4
    <3> QED
      BY <3>1 DEF Attempted
  <2>5. ASSUME NEW d \in Conns, d # c, Attempted(d) PROVE Attempted(d)'
    <3>1. CASE conn[d].emitted \/ d \notin m_connectionList
      BY <1>8, <2>1, <2>5, <3>1 DEF Attempted
    <3>2. CASE \E q \in Actors : \E i \in DOMAIN stack[q] : stack[q][i].at \in Slots /\ stack[q][i].c = d
      <4>1. PICK q \in Actors : \E i \in DOMAIN stack[q] : stack[q][i].at \in Slots /\ stack[q][i].c = d
        BY <3>2
      <4>2. PICK i \in DOMAIN stack[q] : stack[q][i].at \in Slots /\ stack[q][i].c = d
        BY <4>1
      <4>3. CASE q # p
        BY <1>21, <4>2, <4>3 DEF Attempted
      <4>4. CASE q = p
        <5>1. i # n + 1
          BY <1>21, <2>5, <4>2, <4>4 DEF c
        <5>2. i \in 1 .. n
          BY <1>14, <1>15, <1>21, <4>2, <4>4, <5>1
        <5>3. i \in DOMAIN stack'[p] /\ stack'[p][i] = stack[p][i]
          BY <1>15, <1>21, <5>2
        <5> QED
          BY <4>2, <4>4, <5>3 DEF Attempted
      <4> QED
        BY <4>3, <4>4
    <3> QED
      BY <2>5, <3>1, <3>2 DEF Attempted
  <2> QED
    BY <2>1, <2>2, <2>3, <2>4, <2>5 DEF Single
<1> QED
  BY <1>15, <1>16, <1>17, <1>18, <1>19, <1>20, <1>23, <1>24 DEF SlotInv2

-----------------------------------------------------------------------------
(* What is posted to the rtc::Thread.                                      *)
LEMMA RunTaskIs ==
  ASSUME SlotInv2, RunTask
  PROVE  \E t \in Task, k \in AFrame :
           /\ t = tasks[1] /\ t.c \in Made /\ k.r = NoReceiver /\ k.c = t.c /\ k.due = {t.caller}
           /\ k.at = IF t.caller = NoThread THEN "task" ELSE "call"
           /\ stack[RtcThread] = << >> /\ RtcThread \in Actors /\ OnlyStackOf(RtcThread)
           /\ stack'[RtcThread][1] = k
           /\ DOMAIN stack'[RtcThread] = IF Wanted(t) THEN {1, 2} ELSE {1}
           /\ Len(stack'[RtcThread]) = IF Wanted(t) THEN 2 ELSE 1
           /\ Wanted(t) => stack'[RtcThread][2] = Slot(t.c)
           /\ Top(RtcThread)' = (IF Wanted(t) THEN Slot(t.c) ELSE k)
           /\ \A i \in DOMAIN tasks' : i \in Nat /\ i + 1 \in DOMAIN tasks /\ tasks'[i] = tasks[i + 1]
           /\ 1 \in DOMAIN tasks /\ tasks' \in Seq(Task)
           /\ fires' = IF Wanted(t) THEN Fired(t.c) ELSE fires
<1>1. tasks \in Seq(Task) /\ stack \in [Actors -> Seq(AFrame)] /\ Typed2
  BY DEF SlotInv2, Typed2
<1>2. tasks # << >> /\ stack[RtcThread] = << >> /\ tasks' = Tail(tasks) /\ RtcThread \in Actors
  BY DEF RunTask, Actors
<1>3. /\ 1 \in DOMAIN tasks /\ Head(tasks) = tasks[1] /\ tasks[1] \in Task /\ tasks' \in Seq(Task)
      /\ \A i \in DOMAIN tasks' : i \in Nat /\ i + 1 \in DOMAIN tasks /\ tasks'[i] = tasks[i + 1]
  BY <1>1, <1>2
<1>4. PICK t \in Task : t = Head(tasks) /\ t = tasks[1]
  BY <1>3
<1>5. t.c \in Made /\ t.c \in Conns /\ t.caller \in Actors \cup {NoThread}
  BY <1>1, <1>3, <1>4 DEF Typed2, Task
<1> DEFINE at == IF t.caller = NoThread THEN "task" ELSE "call"
<1>6. PICK k \in AFrame : /\ k = Frame(at, t.c, NoReceiver, 0, {t.caller})
                          /\ k.at = at /\ k.r = NoReceiver /\ k.c = t.c /\ k.due = {t.caller}
  <2>1. at \in Places /\ 0 \in Nat /\ {t.caller} \in SUBSET (Kinds \cup Conns \cup Actors \cup {NoThread})
    BY <1>5 DEF Places, Under
  <2> HIDE DEF at
  <2>2. \E k : k = Frame(at, t.c, NoReceiver, 0, {t.caller})
    OBVIOUS
  <2>3. PICK k : k = Frame(at, t.c, NoReceiver, 0, {t.caller})
    BY <2>2
  <2>4. k \in AFrame /\ k.at = at /\ k.r = NoReceiver /\ k.c = t.c /\ k.due = {t.caller}
    BY <1>5, <2>1, <2>3, FrameIs
  <2> QED
    BY <2>3, <2>4
<1>7. /\ stack' = [stack EXCEPT ![RtcThread] = <<k>> \o IF Wanted(t) THEN <<Slot(t.c)>> ELSE << >>]
      /\ fires' = IF Wanted(t) THEN Fired(t.c) ELSE fires
  BY <1>4, <1>6 DEF RunTask
<1>8. Slot(t.c) \in AFrame
  BY <1>1, <1>5, SlotIs
<1>9. PICK s \in AFrame : s = Slot(t.c)
  BY <1>8
<1>10. PICK new : new = <<k>> \o IF Wanted(t) THEN <<s>> ELSE << >>
  OBVIOUS
<1>11. /\ new \in Seq(AFrame) /\ new[1] = k /\ new # << >>
       /\ DOMAIN new = IF Wanted(t) THEN {1, 2} ELSE {1}
       /\ Len(new) = IF Wanted(t) THEN 2 ELSE 1
       /\ Wanted(t) => new[2] = s
  <2>1. CASE Wanted(t)
    <3>1. new = <<k>> \o <<s>> /\ <<k>> \in Seq(AFrame) /\ <<s>> \in Seq(AFrame)
      BY <1>10, <2>1
    <3>2. new \in Seq(AFrame) /\ Len(new) = 2 /\ new[1] = k /\ new[2] = s
      BY <3>1
    <3>3. DOMAIN new = 1 .. 2 /\ 1 .. 2 = {1, 2} /\ new # << >>
      BY <3>2
    <3> HIDE DEF at
    <3>4. DOMAIN new = {1, 2}
      BY <3>3
    <3> QED
      BY <2>1, <3>2, <3>3, <3>4
  <2>2. CASE ~Wanted(t)
    <3>1. new = <<k>>
      BY <1>10, <2>2
    <3> QED
      BY <2>2, <3>1
  <2> QED
    BY <2>1, <2>2
<1>12. stack' = [stack EXCEPT ![RtcThread] = new]
  BY <1>7, <1>9, <1>10
<1>13. stack'[RtcThread] = new /\ OnlyStackOf(RtcThread)
  BY <1>1, <1>2, <1>11, <1>12 DEF OnlyStackOf
<1>14. Top(RtcThread)' = IF Wanted(t) THEN Slot(t.c) ELSE k
  BY <1>9, <1>11, <1>13 DEF Top, Last
<1> QED
  BY <1>2, <1>3, <1>4, <1>5, <1>6, <1>7, <1>9, <1>11, <1>13, <1>14

LEMMA RunTaskKeeps ==
  ASSUME SlotInv2, RunTask
  PROVE  SlotInv2'
<1>1. PICK t \in Task, k \in AFrame :
        /\ t = tasks[1] /\ t.c \in Made /\ k.r = NoReceiver /\ k.c = t.c /\ k.due = {t.caller}
        /\ k.at = IF t.caller = NoThread THEN "task" ELSE "call"
        /\ stack[RtcThread] = << >> /\ RtcThread \in Actors /\ OnlyStackOf(RtcThread)
        /\ stack'[RtcThread][1] = k
        /\ DOMAIN stack'[RtcThread] = IF Wanted(t) THEN {1, 2} ELSE {1}
        /\ Len(stack'[RtcThread]) = IF Wanted(t) THEN 2 ELSE 1
        /\ Wanted(t) => stack'[RtcThread][2] = Slot(t.c)
        /\ Top(RtcThread)' = (IF Wanted(t) THEN Slot(t.c) ELSE k)
        /\ \A i \in DOMAIN tasks' : i \in Nat /\ i + 1 \in DOMAIN tasks /\ tasks'[i] = tasks[i + 1]
        /\ 1 \in DOMAIN tasks /\ tasks' \in Seq(Task)
        /\ fires' = IF Wanted(t) THEN Fired(t.c) ELSE fires
  BY RunTaskIs
<1> DEFINE p == RtcThread
           c == t.c
<1>2. UNCHANGED <<recursive, lock, m_connectionList, m_currentIterator, m_unique, conn, senders, held, destroyed,
                  calls, partial, reentered>>
  BY DEF RunTask, listVars
<1>3. Typed2 /\ Frames /\ LockHeld /\ Waiting /\ Trace /\ Iterator /\ Due /\ Single
  BY DEF SlotInv2
<1>4. Made' = Made /\ \A r : Of(r)' = Of(r)
  BY <1>2, SameConnections
<1>5. /\ tasks \in Seq(Task) /\ stack \in [Actors -> Seq(AFrame)] /\ fires \in [Conns -> Nat] /\ c \in Conns
      /\ destroyed \subseteq Receivers /\ NoReceiver \notin destroyed
      /\ \A i \in DOMAIN tasks : tasks[i].c \in Made /\ tasks[i].caller \in Actors \cup {NoThread}
  <2>1. \A i \in DOMAIN tasks : tasks[i] \in Task /\ tasks[i].c \in Made
    BY <1>3 DEF Typed2
  <2>2. \A i \in DOMAIN tasks : tasks[i].caller \in Actors \cup {NoThread}
    BY <2>1 DEF Task
  <2> QED
    BY <1>1, <1>3, <2>1, <2>2, SigslotAssumption DEF Typed2, DataTyped, Made
<1>6. /\ Slot(c).at = "slot" /\ Slot(c).c = c /\ Slot(c).r = conn[c].receiver
      /\ Wanted(t) => Slot(c).r \notin destroyed
  BY <1>1, <1>3, SlotIs DEF Wanted
<1>7. \A i \in DOMAIN stack'[p] : \/ i = 1 /\ stack'[p][i] = k
                                  \/ i = 2 /\ Wanted(t) /\ stack'[p][i] = Slot(c)
  BY <1>1
<1>8. k.at \in {"task", "call"} /\ \A b : IsAt(p, b)' => b \in {"task", "call", "slot"}
  BY <1>1, <1>6 DEF IsAt
<1>9. \A b : ~IsAt(p, b)
  BY <1>1 DEF IsAt
<1>10. \A q \in Actors : q # p => /\ \A at : IsAt(q, at)' <=> IsAt(q, at)
                                  /\ Top(q)' = Top(q) /\ stack'[q] = stack[q]
  BY <1>1, TopsOfOthers
<1>11. Typed2'
  <2>1. fires' \in [Conns -> Nat] /\ \A d \in Conns \ Made : fires'[d] = 0
    <3>1. fires' = fires \/ fires' = [fires EXCEPT ![c] = fires[c] + 1]
      BY <1>1 DEF Fired
    <3>2. c \in Made /\ \A d \in Conns \ Made : fires[d] = 0
      BY <1>1, <1>3 DEF Typed2, DataTyped
    <3> QED
      BY <1>5, <3>1, <3>2
  <2>2. DataTyped'
    BY <1>2, <1>3, <1>4, <2>1 DEF Typed2, DataTyped
  <2>3. \A i \in DOMAIN tasks' : tasks'[i].c \in Made'
    BY <1>1, <1>4, <1>5
  <2> QED
    BY <1>1, <1>2, <1>3, <2>2, <2>3 DEF Typed2, OnlyStackOf
<1>12. Frames'
  <2>1. \A q, h : FrameOK(q, h)' <=> FrameOK(q, h)
    BY <1>2, <1>4 DEF FrameOK
  <2>2. FrameOK(p, k)
    <3>1. k.at = "call" => \E q \in Actors : k.due = {q}
      BY <1>1, <1>5
    <3> QED
      BY <1>1, <1>5, <1>8, <3>1 DEF FrameOK, Emitting
  <2>3. Wanted(t) => FrameOK(p, Slot(c))
    BY <1>1, <1>6 DEF FrameOK, Emitting, Slots
  <2>4. ASSUME NEW q \in Actors, NEW i \in DOMAIN stack'[q], NEW h, h = stack'[q][i]
        PROVE  /\ FrameOK(q, h)' /\ (h.at \in {"task", "call"} => q = RtcThread /\ i = 1)
               /\ i < Len(stack'[q]) => h.at \in Under
    <3>1. CASE q # p
      BY <1>3, <1>10, <2>1, <2>4, <3>1 DEF Frames
    <3>2. CASE q = p /\ i = 1
      <4>1. h = k
        BY <1>1, <2>4, <3>2
      <4> QED
        BY <1>8, <2>1, <2>2, <3>2, <4>1 DEF Under
    <3>3. CASE q = p /\ i = 2 /\ Wanted(t)
      <4>1. Len(stack'[q]) = 2 /\ stack'[q][2] = Slot(c)
        BY <1>1, <3>3
      <4>2. h = Slot(c) /\ ~(i < Len(stack'[q]))
        BY <2>4, <3>3, <4>1
      <4> QED
        BY <1>6, <2>1, <2>3, <3>3, <4>2
    <3> QED
      BY <1>7, <2>4, <3>1, <3>2, <3>3
  <2> QED
    BY <2>4, FramesNext
<1>13. LockHeld'
  <2>1. Holds(stack[p]) = {} /\ Holds(stack'[p]) = {}
    <3>1. k.at \notin Holding /\ "slot" \notin Holding
      BY <1>8 DEF Holding, Emitting
    <3> QED
      BY <1>1, <1>6, <1>7, <3>1 DEF Holds
  <2>2. \A q \in Actors : Cardinality(Holds(stack'[q])) = Cardinality(Holds(stack[q]))
    BY <1>10, <2>1
  <2> QED
    BY <1>2, <1>3, <2>2, LockKept
<1>14. Waiting'
  <2>1. ASSUME NEW q \in Actors PROVE CallOf(q)' <=> t.caller = q
    <3>1. stack'[p] # << >> /\ stack'[p][1] = k
      BY <1>1
    <3>2. NoThread \notin Actors
      BY SigslotAssumption DEF Actors
    <3> QED
      BY <1>1, <3>1, <3>2 DEF CallOf
  <2>2. \A q \in Actors : IsAt(q, "blocked") => IsAt(q, "blocked")'
    BY <1>9, <1>10
  <2>3. ASSUME NEW i \in DOMAIN tasks', NEW q \in Actors, tasks'[i].caller = q
        PROVE  /\ IsAt(q, "blocked")' /\ ~CallOf(q)'
               /\ \A j \in DOMAIN tasks' : tasks'[j].caller = q => j = i
    <3>1. /\ i + 1 \in DOMAIN tasks /\ tasks[i + 1].caller = q /\ i + 1 # 1
          /\ i \in DOMAIN tasks' /\ DOMAIN tasks' \subseteq Nat
      <4>1. i \in 1 .. Len(tasks') /\ Len(tasks') \in Nat /\ DOMAIN tasks' = 1 .. Len(tasks')
        BY <1>1
      <4> QED
        BY <1>1, <2>3, <4>1
    <3>2. IsAt(q, "blocked") /\ \A j \in DOMAIN tasks : tasks[j].caller = q => j = i + 1
      BY <1>3, <3>1 DEF Waiting
    <3>3. t.caller # q
      BY <1>1, <3>1, <3>2
    <3>4. \A j \in DOMAIN tasks' : tasks'[j].caller = q => j + 1 = i + 1
      BY <1>1, <3>2
    <3> QED
      BY <2>1, <2>2, <3>1, <3>2, <3>3, <3>4
  <2>4. ASSUME NEW q \in Actors, CallOf(q)' PROVE IsAt(q, "blocked")'
    BY <1>1, <1>3, <2>1, <2>2, <2>4 DEF Waiting
  <2> QED
    BY <2>3, <2>4 DEF Waiting
<1>15. Trace'
  <2>1. ~IsAt(p, "dropSender")'
    BY <1>8
  <2> QED
    BY <1>1, <1>2, <1>3, <1>4, <1>5, <1>9, <2>1, TraceKept
<1>16. Iterator'
  BY <1>1, <1>2, <1>3, <1>9, IteratorKept
<1>17. Due'
  <2>1. ASSUME NEW q \in Actors, NEW i, Emits(q, i)'
        PROVE  Emits(q, i) /\ stack'[q][i] = stack[q][i]
    <3>1. CASE q # p
      BY <1>10, <2>1, <3>1 DEF Emits
    <3>2. CASE q = p
      BY <1>6, <1>7, <1>8, <2>1, <3>2 DEF Emits, Emitting
    <3> QED
      BY <3>1, <3>2
  <2> QED
    BY <1>2, <1>3, <2>1, DueNext
<1>18. Single'
  <2>1. ASSUME NEW d, Attempted(d) PROVE Attempted(d)'
    <3>1. CASE conn[d].emitted \/ d \notin m_connectionList
      BY <1>2, <3>1 DEF Attempted
    <3>2. CASE \E q \in Actors : \E i \in DOMAIN stack[q] : stack[q][i].at \in Slots /\ stack[q][i].c = d
      <4>1. PICK q \in Actors : \E i \in DOMAIN stack[q] : stack[q][i].at \in Slots /\ stack[q][i].c = d
        BY <3>2
      <4>2. q # p
        BY <1>1, <4>1
      <4> QED
        BY <1>10, <4>1, <4>2 DEF Attempted
    <3> QED
      BY <2>1, <3>1, <3>2 DEF Attempted
  <2>2. \A d : \A i \in Posted(d)' : i + 1 \in Posted(d) /\ i \in Nat
    BY <1>1 DEF Posted
  <2>3. 1 \in Posted(c)
    BY <1>1 DEF Posted
  <2>4. \A d \in Conns : d # c => fires'[d] = fires[d]
    BY <1>1, <1>5 DEF Fired
  <2>5. fires'[c] = fires[c] \/ fires'[c] = fires[c] + 1
    BY <1>1, <1>5 DEF Fired
  <2>6. ASSUME ~reentered', conn'[c].single
        PROVE  /\ fires'[c] <= 1 /\ Posted(c)' = {} /\ Attempted(c)'
    <3>1. /\ fires[c] = 0 /\ Attempted(c) /\ \A i \in Posted(c) : i = 1
      BY <1>2, <1>3, <1>5, <2>3, <2>6 DEF Single
    <3>2. \A i \in Posted(c)' : FALSE
      <4>1. \A i \in Posted(c)' : i + 1 = 1 /\ i \in DOMAIN tasks'
        BY <2>2, <3>1 DEF Posted
      <4>2. \A i \in DOMAIN tasks' : i \in Nat /\ i # 0
        BY <1>1
      <4> QED
        BY <4>1, <4>2
    <3> QED
      BY <2>1, <2>5, <3>1, <3>2
  <2>7. ASSUME ~reentered', NEW d \in Conns, conn'[d].single, d # c
        PROVE  /\ fires'[d] <= 1
               /\ \A i, j \in Posted(d)' : i = j /\ fires'[d] = 0
               /\ fires'[d] # 0 \/ Posted(d)' # {} => Attempted(d)'
    <3>1. /\ fires[d] <= 1
          /\ \A i, j \in Posted(d) : i = j /\ fires[d] = 0
          /\ fires[d] # 0 \/ Posted(d) # {} => Attempted(d)
      BY <1>2, <1>3, <2>7 DEF Single
    <3>2. \A i, j \in Posted(d)' : i = j /\ fires[d] = 0
      <4>1. \A i, j \in Posted(d)' : i + 1 = j + 1 /\ fires[d] = 0 /\ i \in Nat /\ j \in Nat
        BY <2>2, <3>1
      <4> QED
        BY <4>1
    <3>3. Posted(d)' # {} => Posted(d) # {}
      BY <2>2
    <3> QED
      BY <2>1, <2>4, <2>7, <3>1, <3>2, <3>3
  <2> QED
    BY <2>6, <2>7 DEF Single
<1> QED
  BY <1>11, <1>12, <1>13, <1>14, <1>15, <1>16, <1>17, <1>18 DEF SlotInv2

LEMMA TaskDoneKeeps ==
  ASSUME SlotInv2, TaskDone
  PROVE  SlotInv2'
<1> DEFINE p == RtcThread
<1>1. RtcThread \in Actors /\ Typed2 /\ Frames /\ LockHeld /\ Waiting /\ Trace /\ Iterator /\ Due /\ Single
  BY DEF SlotInv2, Actors
<1>2. ASSUME NEW at \in {"task", "call"}, IsAt(p, at)
      PROVE  /\ stack[p] \in Seq(AFrame) /\ Len(stack[p]) = 1 /\ stack[p] # << >> /\ Top(p) = stack[p][1]
             /\ Top(p).at = at /\ Top(p) \in AFrame /\ FrameOK(p, Top(p))
             /\ \A b : IsAt(p, b) <=> b = at
  <2>1. /\ stack[p] # << >> /\ stack[p] \in Seq(AFrame) /\ Len(stack[p]) \in Nat /\ Len(stack[p]) >= 1
        /\ Top(p) = stack[p][Len(stack[p])] /\ Top(p).at = at /\ Len(stack[p]) \in DOMAIN stack[p]
        /\ Top(p) \in AFrame /\ FrameOK(p, Top(p))
    BY <1>1, <1>2, TopOfStack
  <2>2. Len(stack[p]) = 1
    BY <1>1, <1>2, <2>1 DEF Frames
  <2> QED
    BY <2>1, <2>2 DEF IsAt
<1>3. CASE IsAt(p, "task")
  <2> DEFINE n == Len(stack[p]) - 1
  <2>1. /\ stack[p] \in Seq(AFrame) /\ Len(stack[p]) = 1 /\ stack[p] # << >>
        /\ Top(p).at = "task" /\ \A b : IsAt(p, b) <=> b = "task"
    BY <1>2, <1>3
  <2>2. PICK f \in AFrame : f = Top(p) /\ f.at = "task" /\ FrameOK(p, f)
    BY <1>2, <1>3
  <2>3. /\ stack' = Popped(p) /\ conn' = [conn EXCEPT ![f.c].fired = conn[f.c].fired \/ conn[f.c].single]
        /\ UNCHANGED <<recursive, lock, m_connectionList, m_currentIterator, m_unique, senders, held, destroyed,
                       tasks, calls, fires, partial, reentered>>
    BY <2>1, <2>2 DEF TaskDone, listVars, histVars
  <2> DEFINE c == f.c
             new == [conn[c] EXCEPT !.fired = conn[c].fired \/ conn[c].single]
  <2>4. c \in Made /\ c \in Conns /\ conn \in [Conns -> Connection]
    BY <1>1, <2>2 DEF FrameOK, Typed2, DataTyped, Made
  <2>5. conn' = [conn EXCEPT ![c] = new]
    BY <2>3
  <2>6. /\ new \in Connection /\ new.type = conn[c].type /\ new.receiver = conn[c].receiver
        /\ new.single = conn[c].single /\ new.emitted = conn[c].emitted
    <3>1. conn[c] \in Connection
      BY <2>4
    <3> QED
      BY <3>1 DEF Connection
  <2> HIDE DEF new, c
  <2>7. /\ conn' \in [Conns -> Connection]
        /\ \A d \in Conns : /\ conn'[d].type = conn[d].type /\ conn'[d].receiver = conn[d].receiver
                            /\ conn'[d].single = conn[d].single /\ conn'[d].emitted = conn[d].emitted
    BY <2>4, <2>5, <2>6
  <2>8. Made' = Made /\ \A r : Of(r)' = Of(r)
    <3>1. m_connectionList' = m_connectionList /\ m_connectionList \subseteq Conns
      BY <1>1, <2>3 DEF Typed2, DataTyped, Made
    <3> QED
      BY <2>7, <3>1 DEF Made, Of
  <2>9. /\ OnlyStackOf(p) /\ Same(p, Len(stack[p]) - 1)
        /\ Len(stack'[p]) = Len(stack[p]) - 1
        /\ Cardinality(Holds(stack[p])) =
             Cardinality(Holds(stack'[p])) + IF Top(p).at \in Holding THEN 1 ELSE 0
    BY <1>1, <2>1, <2>3, PopIs
  <2>10. Moves(p, n) /\ n = 0 /\ Len(stack'[p]) = n
    BY <2>1, <2>9 DEF Moves
  <2>11. stack'[p] = << >>
    <3>1. stack'[p] \in Seq(AFrame) /\ Len(stack'[p]) = 0
      BY <1>1, <2>9, <2>10 DEF OnlyStackOf
    <3> QED
      BY <3>1
  <2>12. \A b : ~IsAt(p, b)'
    BY <2>11 DEF IsAt
  <2>13. LockHeld'
    <3>1. "task" \notin Holding /\ Cardinality(Holds(stack[p])) \in Nat /\ Cardinality(Holds(stack'[p])) \in Nat
      BY <1>1, <2>1, <2>9, HoldsIsFinite DEF Holding, Emitting, OnlyStackOf
    <3>2. Cardinality(Holds(stack'[p])) = Cardinality(Holds(stack[p]))
      BY <2>1, <2>9, <3>1
    <3> QED
      BY <1>1, <2>3, <2>9, <3>2, LockKept DEF OnlyStackOf
  <2>14. Typed2'
    <3>1. DataTyped'
      BY <1>1, <2>3, <2>7, <2>8 DEF Typed2, DataTyped
    <3> QED
      BY <1>1, <2>3, <2>8, <2>9, <3>1 DEF Typed2, OnlyStackOf
  <2> HIDE DEF n
  <2>15. Frames'
    <3>1. ~(Len(stack'[p]) = n + 1) /\ destroyed' \ destroyed = {} /\ Made \subseteq Made'
      BY <2>3, <2>8, <2>10
    <3> QED
      BY <1>1, <2>10, <3>1, FramesKept
  <2>16. Waiting'
    <3>1. ~IsAt(p, "blocked") /\ ~(Len(stack'[p]) = n + 1)
      BY <2>1, <2>10
    <3> QED
      BY <1>1, <2>3, <2>10, <3>1, WaitingKept
  <2>17. Trace'
    <3>1. destroyed \subseteq Receivers
      BY <1>1 DEF Typed2
    <3> QED
      BY <1>1, <2>1, <2>3, <2>8, <2>9, <2>12, <3>1, TraceKept
  <2>18. Iterator'
    BY <1>1, <2>1, <2>3, <2>9, IteratorKept
  <2>19. Due'
    <3>1. ASSUME NEW q \in Actors, NEW i, Emits(q, i)'
          PROVE  Emits(q, i) /\ stack'[q][i] = stack[q][i]
      <4>1. q # p
        BY <2>11, <3>1 DEF Emits
      <4> QED
        BY <2>9, <3>1, <4>1 DEF Emits, OnlyStackOf
    <3> QED
      BY <1>1, <2>3, <3>1, DueNext
  <2>20. Single'
    <3>1. /\ Top(p).at \notin Slots /\ Made \cap m_connectionList' \subseteq m_connectionList
          /\ \A d \in Made : conn'[d].single = conn[d].single /\ (conn[d].emitted => conn'[d].emitted)
      BY <2>1, <2>3, <2>7 DEF Slots, Made
    <3>2. UNCHANGED <<tasks, fires, reentered>>
      BY <2>3
    <3> QED
      BY <1>1, <2>10, <3>1, <3>2, SingleKept
  <2> QED
    BY <2>13, <2>14, <2>15, <2>16, <2>17, <2>18, <2>19, <2>20 DEF SlotInv2
<1>4. CASE IsAt(p, "call")
  <2>1. /\ stack[p] \in Seq(AFrame) /\ Len(stack[p]) = 1 /\ stack[p] # << >> /\ Top(p) = stack[p][1]
        /\ Top(p).at = "call" /\ \A b : IsAt(p, b) <=> b = "call"
    BY <1>2, <1>4
  <2>2. PICK f \in AFrame : f = Top(p) /\ f.at = "call" /\ FrameOK(p, f)
    BY <1>2, <1>4
  <2>3. PICK q \in Actors : f.due = {q}
    BY <2>2 DEF FrameOK
  <2>4. /\ stack' = [Popped(p) EXCEPT ![q] = Append(Front(Popped(p)[q]), [Top(q) EXCEPT !.at = "calling"])]
        /\ UNCHANGED <<recursive, lock, m_connectionList, m_currentIterator, m_unique, conn, senders, held, destroyed,
                       tasks, calls, fires, partial, reentered>>
    BY <2>1, <2>2, <2>3 DEF TaskDone, listVars, histVars
  <2>5. CallOf(q) /\ IsAt(q, "blocked") /\ q # p
    <3>1. CallOf(q)
      BY <2>1, <2>2, <2>3 DEF CallOf
    <3>2. IsAt(q, "blocked")
      BY <1>1, <3>1 DEF Waiting
    <3> QED
      BY <2>1, <3>1, <3>2
  <2>6. PICK h \in AFrame : h = Top(q) /\ h.at = "blocked" /\ FrameOK(q, h)
    BY <2>5, Standing
  <2>7. PICK g \in AFrame : g = [h EXCEPT !.at = "calling"] /\ g.at = "calling" /\ g.c = h.c /\ g.r = h.r /\ g.due = h.due
    BY ElsewhereIs DEF Places, Under
  <2>8. PICK n \in Nat : /\ n + 1 = Len(stack[q]) /\ h = stack[q][n + 1] /\ stack[q] \in Seq(AFrame)
                         /\ stack[q] # << >>
    <3>1. /\ stack[q] # << >> /\ stack[q] \in Seq(AFrame) /\ Len(stack[q]) \in Nat /\ Len(stack[q]) >= 1
          /\ h = stack[q][Len(stack[q])]
      BY <1>1, <2>5, <2>6, TopOfStack
    <3>2. Len(stack[q]) - 1 \in Nat /\ (Len(stack[q]) - 1) + 1 = Len(stack[q])
      BY <3>1
    <3> QED
      BY <3>1, <3>2
  <2>9. /\ Front(stack[q]) \in Seq(AFrame) /\ Len(Front(stack[q])) = n
        /\ \A i \in 1 .. n : Front(stack[q])[i] = stack[q][i]
        /\ stack[q] = Append(Front(stack[q]), h)
        /\ Front(stack[p]) \in Seq(AFrame) /\ Len(Front(stack[p])) = 0
    <3>1. /\ Front(stack[q]) \in Seq(AFrame) /\ Len(Front(stack[q])) = Len(stack[q]) - 1
          /\ \A i \in 1 .. Len(stack[q]) - 1 : Front(stack[q])[i] = stack[q][i]
          /\ stack[q] = Append(Front(stack[q]), Last(stack[q]))
      BY <2>8, FrontIs
    <3>2. Front(stack[p]) \in Seq(AFrame) /\ Len(Front(stack[p])) = Len(stack[p]) - 1
      BY <2>1, FrontIs
    <3>3. n = Len(stack[q]) - 1 /\ h = Last(stack[q])
      BY <2>6, <2>8 DEF Top
    <3> QED
      BY <2>1, <3>1, <3>2, <3>3
  <2>10. PICK front \in Seq(AFrame) : front = Front(stack[q])
    BY <2>9
  <2>11. stack \in [Actors -> Seq(AFrame)] /\ Popped(p) = [stack EXCEPT ![p] = Front(stack[p])]
    BY <1>1 DEF Typed2, Popped
  <2>12. Popped(p)[q] = stack[q] /\ Popped(p)[p] = << >> /\ DOMAIN Popped(p) = Actors
         /\ \A z \in Actors : z # p => Popped(p)[z] = stack[z]
    <3>1. Front(stack[p]) = << >>
      BY <2>9
    <3> QED
      BY <1>1, <2>5, <2>11, <3>1
  <2>13. stack' = [Popped(p) EXCEPT ![q] = Append(front, g)]
    BY <2>4, <2>6, <2>7, <2>10, <2>12
  <2>14. /\ stack' \in [Actors -> Seq(AFrame)]
         /\ stack'[q] = Append(front, g) /\ stack'[p] = << >>
         /\ \A z \in Actors : z # p /\ z # q => stack'[z] = stack[z]
    <3>1. Append(front, g) \in Seq(AFrame)
      BY <2>10
    <3>2. Popped(p) \in [Actors -> Seq(AFrame)]
      BY <2>9, <2>11
    <3> QED
      BY <1>1, <2>5, <2>12, <2>13, <3>1, <3>2
  <2>15. /\ Len(stack'[q]) = n + 1 /\ stack'[q][n + 1] = g /\ n + 1 \in DOMAIN stack'[q]
         /\ \A i \in 1 .. n : stack'[q][i] = stack[q][i]
         /\ n + 1 \in DOMAIN stack[q] /\ DOMAIN stack'[q] = DOMAIN stack[q] /\ DOMAIN stack[q] = 1 .. n + 1
         /\ Top(q)' = g /\ stack'[q] # << >>
    BY <2>8, <2>9, <2>10, <2>14 DEF Top, Last
  <2>16. /\ \A z \in Actors : z # p /\ z # q => /\ \A b : IsAt(z, b)' <=> IsAt(z, b)
                                                /\ Top(z)' = Top(z)
         /\ \A b : ~IsAt(p, b)' /\ (IsAt(q, b)' <=> b = "calling") /\ (IsAt(q, b) <=> b = "blocked")
    BY <2>5, <2>6, <2>7, <2>14, <2>15 DEF IsAt, Top
  <2>17. Made' = Made /\ \A r : Of(r)' = Of(r)
    BY <2>4, SameConnections
  <2>18. Typed2'
    <3>1. DataTyped'
      BY <1>1, <2>4, <2>17 DEF Typed2, DataTyped
    <3> QED
      BY <1>1, <2>4, <2>14, <2>17, <3>1 DEF Typed2
  <2>19. Frames'
    <3>1. \A z, k : FrameOK(z, k)' <=> FrameOK(z, k)
      BY <2>4, <2>17 DEF FrameOK
    <3>2. FrameOK(q, g)
      BY <2>6, <2>7 DEF FrameOK, Slots, Emitting
    <3>3. ASSUME NEW z \in Actors, NEW i \in DOMAIN stack'[z], NEW k, k = stack'[z][i]
          PROVE  /\ FrameOK(z, k)' /\ (k.at \in {"task", "call"} => z = RtcThread /\ i = 1)
                 /\ i < Len(stack'[z]) => k.at \in Under
      <4>1. z # p
        BY <2>14, <3>3
      <4>2. CASE z # q
        BY <1>1, <2>14, <3>1, <3>3, <4>1, <4>2 DEF Frames
      <4>3. CASE z = q /\ i = n + 1
        BY <2>7, <2>15, <3>1, <3>2, <3>3, <4>3 DEF Under
      <4>4. CASE z = q /\ i # n + 1
        <5>1. i \in DOMAIN stack[q] /\ k = stack[q][i] /\ Len(stack'[q]) = Len(stack[q])
          BY <2>8, <2>15, <3>3, <4>4
        <5> QED
          BY <1>1, <3>1, <3>3, <4>4, <5>1 DEF Frames
      <4> QED
        BY <4>2, <4>3, <4>4
    <3> QED
      BY <3>3, FramesNext
  <2>20. LockHeld'
    <3>1. "blocked" \in Holding /\ "calling" \in Holding /\ "call" \notin Holding
      BY DEF Holding, Emitting
    <3>2. Holds(stack'[q]) = Holds(stack[q])
      <4>1. ASSUME NEW i \in DOMAIN stack[q]
            PROVE  stack'[q][i].at \in Holding <=> stack[q][i].at \in Holding
        <5>1. CASE i = n + 1
          <6>1. stack[q][i] = h /\ stack'[q][i] = g
            BY <2>8, <2>15, <5>1
          <6> QED
            BY <2>6, <2>7, <3>1, <6>1
        <5>2. CASE i # n + 1
          <6>1. i \in 1 .. n
            BY <2>8, <2>15, <4>1, <5>2
          <6> QED
            BY <2>15, <6>1
        <5> QED
          BY <5>1, <5>2
      <4> QED
        BY <2>15, <4>1 DEF Holds
    <3>3. Holds(stack[p]) = {}
      <4>1. \A i \in DOMAIN stack[p] : i = 1
        BY <2>1
      <4> QED
        BY <2>1, <3>1, <4>1 DEF Holds
    <3>4. Holds(stack'[p]) = {}
      BY <2>14 DEF Holds
    <3>5. \A z \in Actors : Cardinality(Holds(stack'[z])) = Cardinality(Holds(stack[z]))
      BY <2>14, <3>2, <3>3, <3>4
    <3> QED
      BY <1>1, <2>4, <3>5, LockKept
  <2>21. Waiting'
    <3>1. \A z : ~CallOf(z)'
      BY <2>14 DEF CallOf
    <3>2. ASSUME NEW i \in DOMAIN tasks', NEW z \in Actors, tasks'[i].caller = z
          PROVE  /\ IsAt(z, "blocked")'
                 /\ \A j \in DOMAIN tasks' : tasks'[j].caller = z => j = i
      <4>1. /\ IsAt(z, "blocked") /\ ~CallOf(z)
            /\ \A j \in DOMAIN tasks' : tasks'[j].caller = z => j = i
        BY <1>1, <2>4, <3>2 DEF Waiting
      <4>2. z # p /\ z # q
        BY <2>1, <2>5, <4>1
      <4> QED
        BY <2>16, <4>1, <4>2
    <3> QED
      BY <3>1, <3>2 DEF Waiting
  <2>22. Trace'
    <3>1. \A z \in Actors, b \in {"clear", "addSender", "leaving", "leave", "dropSender"} :
            /\ IsAt(z, b)' <=> IsAt(z, b)
            /\ IsAt(z, b) => Top(z)' = Top(z)
      BY <2>1, <2>16
    <3>2. UNCHANGED <<senders, partial, destroyed>>
      BY <2>4
    <3>3. ASSUME NEW r \in Receivers, Of(r)' # {}
          PROVE  \/ senders'[r] > 0 \/ r \in partial'
                 \/ \E z \in Actors : \/ IsAt(z, "clear")'
                                      \/ (IsAt(z, "addSender")' \/ IsAt(z, "leaving")') /\ Top(z)'.r = r
      <4>1. \/ senders[r] > 0 \/ r \in partial
            \/ \E z \in Actors : \/ IsAt(z, "clear")
                                 \/ (IsAt(z, "addSender") \/ IsAt(z, "leaving")) /\ Top(z).r = r
        BY <1>1, <2>17, <3>3 DEF Trace
      <4>2. ASSUME NEW z \in Actors, \/ IsAt(z, "clear")
                                     \/ (IsAt(z, "addSender") \/ IsAt(z, "leaving")) /\ Top(z).r = r
            PROVE  \/ IsAt(z, "clear")'
                   \/ (IsAt(z, "addSender")' \/ IsAt(z, "leaving")') /\ Top(z)'.r = r
        BY <3>1, <4>2
      <4> QED
        BY <3>2, <4>1, <4>2
    <3>4. ASSUME NEW z \in Actors, NEW r \in Receivers, IsAt(z, "dropSender")', Top(z)'.r = r
          PROVE  Of(r)' = {} \/ r \in partial'
      BY <1>1, <2>17, <3>1, <3>2, <3>4 DEF Trace
    <3>5. ASSUME NEW r \in destroyed', senders'[r] > 0
          PROVE  \E z \in Actors : IsAt(z, "leave")' /\ Top(z)'.r = r
      BY <1>1, <3>1, <3>2, <3>5 DEF Trace
    <3> QED
      BY <3>3, <3>4, <3>5 DEF Trace
  <2>23. Iterator'
    BY <1>1, <2>1, <2>4, <2>16 DEF Iterator
  <2>24. ASSUME NEW z \in Actors, NEW i \in DOMAIN stack'[z], stack'[z][i].at \in Emitting
         PROVE  /\ i \in DOMAIN stack[z] /\ stack[z][i].at \in Emitting /\ stack'[z][i].due = stack[z][i].due
    <3>1. CASE z = q /\ i = n + 1
      BY <2>6, <2>7, <2>8, <2>15, <3>1 DEF Emitting
    <3>2. CASE z = q /\ i # n + 1
      BY <2>8, <2>15, <2>24, <3>2
    <3>3. CASE z # q
      <4>1. z # p
        <5>1. stack'[p] = << >> => DOMAIN stack'[p] = {}
          OBVIOUS
        <5> QED
          BY <2>14, <2>24, <5>1
      <4>2. stack'[z] = stack[z]
        BY <2>14, <3>3, <4>1
      <4> QED
        BY <2>24, <4>2
    <3> QED
      BY <3>1, <3>2, <3>3
  <2>25. Due'
    <3>1. ASSUME NEW z \in Actors, NEW i, Emits(z, i)'
          PROVE  Emits(z, i) /\ stack'[z][i].due = stack[z][i].due
      BY <2>24, <3>1 DEF Emits
    <3> QED
      BY <1>1, <2>4, <3>1, DueNext
  <2>26. Single'
    <3>1. ASSUME NEW d, Attempted(d) PROVE Attempted(d)'
      <4>1. CASE conn[d].emitted \/ d \notin m_connectionList
        BY <2>4, <4>1 DEF Attempted
      <4>2. CASE \E z \in Actors : \E i \in DOMAIN stack[z] : stack[z][i].at \in Slots /\ stack[z][i].c = d
        <5>1. PICK z \in Actors : \E i \in DOMAIN stack[z] : stack[z][i].at \in Slots /\ stack[z][i].c = d
          BY <4>2
        <5>2. PICK i \in DOMAIN stack[z] : stack[z][i].at \in Slots /\ stack[z][i].c = d
          BY <5>1
        <5>3. z # p
          <6>1. ASSUME z = p PROVE FALSE
            <7>1. i = 1
              BY <2>1, <5>2, <6>1
            <7> QED
              BY <2>1, <5>2, <6>1, <7>1 DEF Slots
          <6> QED
            BY <6>1
        <5>4. CASE z # q
          BY <2>14, <5>2, <5>3, <5>4 DEF Attempted
        <5>5. CASE z = q /\ i = n + 1
          BY <2>6, <2>7, <2>8, <2>15, <5>2, <5>5 DEF Attempted, Slots
        <5>6. CASE z = q /\ i # n + 1
          <6>1. i \in DOMAIN stack'[q] /\ stack'[q][i] = stack[q][i]
            BY <2>8, <2>15, <5>2, <5>6
          <6> QED
            BY <5>2, <5>6, <6>1 DEF Attempted
        <5> QED
          BY <5>4, <5>5, <5>6
      <4> QED
        BY <3>1, <4>1, <4>2 DEF Attempted
    <3>2. \A d : Posted(d)' = Posted(d)
      BY <2>4 DEF Posted
    <3> QED
      BY <1>1, <2>4, <3>1, <3>2 DEF Single
  <2> QED
    BY <2>18, <2>19, <2>20, <2>21, <2>22, <2>23, <2>25, <2>26 DEF SlotInv2
<1> QED
  BY <1>3, <1>4 DEF TaskDone

-----------------------------------------------------------------------------
(* The invariant holds from the beginning and in every step, and gives the *)
(* properties.                                                             *)
LEMMA SlotInv2Initially == ASSUME Init PROVE SlotInv2
<1>1. /\ NoThread \notin Actors /\ Sig \in Locks /\ NoConn \notin Conns
  BY SigslotAssumption DEF Actors, Locks
<1>2. /\ lock = [l \in Locks |-> Unlocked] /\ m_connectionList = {} /\ m_currentIterator = NoConn
      /\ conn = [c \in Conns |-> NoKind] /\ senders = [r \in Receivers |-> 0] /\ held = Receivers
      /\ destroyed = {} /\ tasks = << >> /\ stack = [p \in Actors |-> << >>]
      /\ fires = [c \in Conns |-> 0] /\ partial = {} /\ reentered = FALSE
  BY DEF Init
<1>3. \A p \in Actors : stack[p] = << >> /\ \A at : ~IsAt(p, at)
  BY <1>2 DEF IsAt
<1>4. Typed2
  <2>1. Unlocked \in [owner : Actors \cup {NoThread}, depth : Int] /\ Unlocked.depth = 0
    BY DEF Unlocked
  <2>2. NoKind \in Connection
    BY DEF NoKind, Connection
  <2>3. << >> \in Seq(AFrame) /\ << >> \in Seq(Task) /\ DOMAIN << >> = {}
    OBVIOUS
  <2>4. DataTyped
    <3>1. lock \in [Locks -> [owner : Actors \cup {NoThread}, depth : Int]] /\ lock[Sig].depth \in Nat
      BY <1>1, <1>2, <2>1
    <3>2. conn \in [Conns -> Connection]
      BY <1>2, <2>2
    <3>3. fires \in [Conns -> Nat] /\ \A c \in Conns \ Made : fires[c] = 0
      BY <1>2
    <3> QED
      BY <1>2, <3>1, <3>2, <3>3 DEF DataTyped
  <2> QED
    BY <1>2, <2>3, <2>4 DEF Typed2
<1>5. Frames
  BY <1>3 DEF Frames
<1>6. LockHeld
  <2>1. lock[Sig].owner = NoThread /\ lock[Sig].depth = 0
    BY <1>1, <1>2 DEF Unlocked
  <2>2. ASSUME NEW p \in Actors PROVE Cardinality(Holds(stack[p])) = 0
    <3>1. Holds(stack[p]) = {}
      BY <1>3 DEF Holds
    <3> QED
      BY <3>1, FS_EmptySet
  <2> QED
    BY <1>1, <2>1, <2>2 DEF LockHeld
<1>7. Waiting
  <2>1. RtcThread \in Actors
    BY DEF Actors
  <2> QED
    BY <1>2, <1>3, <2>1 DEF Waiting, CallOf
<1>8. Trace
  BY <1>2, <1>3 DEF Trace, Of
<1>9. Iterator
  BY <1>2 DEF Iterator
<1>10. Due
  BY <1>2, <1>3 DEF Due, Emits
<1>11. Single
  <2>1. \A c \in Conns : conn[c].single = FALSE
    BY <1>2 DEF NoKind
  <2> QED
    BY <2>1 DEF Single
<1> QED
  BY <1>4, <1>5, <1>6, <1>7, <1>8, <1>9, <1>10, <1>11 DEF SlotInv2

LEMMA StutterKeeps == ASSUME SlotInv2, UNCHANGED vars PROVE SlotInv2'
<1>1. UNCHANGED <<recursive, lock, m_connectionList, m_currentIterator, m_unique, conn, senders, held,
                  destroyed, tasks, stack, calls, fires, partial, reentered>>
  BY DEF vars, listVars, histVars
<1>2. /\ Typed2' = Typed2 /\ Frames' = Frames /\ LockHeld' = LockHeld /\ Waiting' = Waiting
  BY <1>1 DEF Typed2, DataTyped, Made, Frames, FrameOK, LockHeld, Waiting, CallOf, IsAt, Top
<1>3. Trace' = Trace /\ Iterator' = Iterator
  BY <1>1 DEF Trace, Iterator, Of, IsAt, Top
<1>4. Due' = Due
  BY <1>1 DEF Due, Emits
<1>5. Single' = Single
  BY <1>1 DEF Single, Posted, Attempted
<1> QED
  BY <1>2, <1>3, <1>4, <1>5 DEF SlotInv2

LEMMA Slot2StepKeeps == ASSUME SlotInv2, [Next]_vars PROVE SlotInv2'
<1>1. ASSUME NEW p \in Actors, ProgramCall(p) PROVE SlotInv2'
  BY <1>1, ProgramCallKeeps, DropKeeps DEF ProgramCall
<1>2. ASSUME NEW p \in Actors, Step(p) PROVE SlotInv2'
  <2>1. CASE ConnectEnter(p)
    BY <2>1, ConnectEnterKeeps
  <2>2. CASE AddSender(p)
    BY <2>2, AddSenderKeeps
  <2>3. CASE DisconnectEnter(p)
    BY <2>3, DisconnectEnterKeeps
  <2>4. CASE DropSender(p)
    BY <2>4, DropSenderKeeps
  <2>5. CASE DisconnectConnEnter(p)
    BY <2>5, DisconnectConnEnterKeeps
  <2>6. CASE DisconnectAllEnter(p)
    BY <2>6, DisconnectAllEnterKeeps
  <2>7. CASE Clear(p)
    BY <2>7, ClearKeeps
  <2>8. CASE Cleared(p)
    BY <2>8, ClearedKeeps
  <2>9. CASE LeaveEnter(p)
    BY <2>9, LeaveEnterKeeps
  <2>10. CASE Leaving(p)
    BY <2>10, LeavingKeeps
  <2>11. CASE EmitEnter(p)
    BY <2>11, EmitEnterKeeps
  <2>12. CASE EmitReturn(p)
    BY <2>12, EmitReturnKeeps
  <2>13. CASE EmitNext(p)
    BY <2>13, EmitNextKeeps
  <2>14. CASE Emitted(p)
    BY <2>14, EmittedKeeps
  <2>15. CASE SlotReturn(p)
    BY <2>15, SlotReturnKeeps
  <2> QED
    BY <1>2, <2>1, <2>2, <2>3, <2>4, <2>5, <2>6, <2>7, <2>8, <2>9, <2>10, <2>11, <2>12, <2>13,
       <2>14, <2>15 DEF Step
<1> QED
  BY <1>1, <1>2, RunTaskKeeps, TaskDoneKeeps, StutterKeeps DEF Next

LEMMA NoTraceLeft == ASSUME SlotInv2 PROVE DeadLeaveNoTrace
<1>1. Typed2 /\ Frames /\ Trace
  BY DEF SlotInv2
<1>2. ASSUME NEW p \in Actors, NEW at, IsAt(p, at), NEW r, Top(p).r = r PROVE InUse(r, stack)
  <2>1. Len(stack[p]) \in DOMAIN stack[p] /\ Top(p) = stack[p][Len(stack[p])]
    BY <1>1, <1>2, TopOfStack
  <2> QED
    BY <1>2, <2>1 DEF InUse
<1>3. ASSUME NEW r \in destroyed \ partial
      PROVE  InUse(r, stack) \/ Of(r) = {} \/ \E p \in Actors : IsAt(p, "clear")
  <2>1. r \in Receivers /\ senders[r] \in Nat
    BY <1>1, <1>3 DEF Typed2, DataTyped
  <2>2. CASE Of(r) # {} /\ senders[r] > 0
    BY <1>1, <1>2, <1>3, <2>2 DEF Trace
  <2>3. CASE Of(r) # {} /\ ~(senders[r] > 0)
    BY <1>1, <1>2, <1>3, <2>1, <2>3 DEF Trace
  <2> QED
    BY <2>2, <2>3
<1> QED
  BY <1>3 DEF DeadLeaveNoTrace

LEMMA OnceAtMost == ASSUME SlotInv2 PROVE SingleShotOnce
<1>1. Single /\ \A c \in Conns : fires[c] \in Nat
  BY DEF SlotInv2, Typed2, DataTyped
<1> QED
  BY <1>1 DEF Single, SingleShotOnce

LEMMA NoneIsMissed ==
  ASSUME SlotInv2, NEW p \in Actors, EmitReturn(p)
  PROVE  reentered \/ Top(p).due \cap m_connectionList = {}
<1>1. Typed2 /\ Frames /\ Due /\ IsAt(p, "next") /\ m_currentIterator = NoConn
  BY DEF SlotInv2, EmitReturn
<1>2. /\ Len(stack[p]) \in DOMAIN stack[p] /\ Top(p) = stack[p][Len(stack[p])] /\ Top(p).at = "next"
  BY <1>1, TopOfStack
<1>3. Emits(p, Len(stack[p]))
  BY <1>2 DEF Emits, Emitting
<1> QED
  BY <1>1, <1>2, <1>3 DEF Due

LEMMA DeadAreNotCalled ==
  ASSUME SlotInv2, [Next]_vars, NEW c \in Conns, fires'[c] > fires[c], conn[c].receiver # NoReceiver
  PROVE  Alive(conn[c].receiver)
<1>1. fires \in [Conns -> Nat] /\ Typed2
  BY DEF SlotInv2, Typed2, DataTyped
<1>2. fires' # fires
  BY <1>1
<1>3. ASSUME NEW d, fires' = Fired(d) PROVE d = c
  BY <1>1, <1>3 DEF Fired
<1>4. CASE \E p \in Actors : EmitNext(p)
  <2>1. ~Skipped(m_currentIterator) /\ fires' = Fired(m_currentIterator)
    BY <1>2, <1>4 DEF EmitNext
  <2> QED
    BY <1>3, <2>1 DEF Skipped, Expired
<1>5. CASE RunTask
  <2>1. PICK t : t = Head(tasks)
    OBVIOUS
  <2>2. Wanted(t) /\ fires' = Fired(t.c)
    BY <1>2, <1>5, <2>1 DEF RunTask
  <2> QED
    BY <1>3, <2>2 DEF Wanted, Expired, Runs
<1>6. ASSUME NEW p \in Actors, ProgramCall(p) PROVE fires' = fires
  BY <1>6 DEF ProgramCall, Connect, Disconnect, Leave, Drop, DisconnectConn, DisconnectAll, Emit, Call, histVars
<1>7. ASSUME NEW p \in Actors, Step(p), ~EmitNext(p) PROVE fires' = fires
  BY <1>7 DEF Step, ConnectEnter, AddSender, DisconnectEnter, DropSender, DisconnectConnEnter, DisconnectAllEnter,
              Clear, Cleared, LeaveEnter, Leaving, EmitEnter, EmitReturn, Emitted, SlotReturn, histVars
<1>8. TaskDone \/ UNCHANGED vars => fires' = fires
  BY DEF TaskDone, vars, histVars
<1> QED
  BY <1>2, <1>4, <1>5, <1>6, <1>7, <1>8 DEF Next

(* Where a mutex cannot be entered again, nobody holds the signal's twice. *)
Once == ~recursive => lock[Sig].depth <= 1

LEMMA OnceWith ==
  ASSUME Typed2, Once, recursive' = recursive, NEW l, NEW p,
         lock' = lock \/ (Free(l, p) /\ lock' = Locked(l, p)) \/ lock' = Released(l)
  PROVE  Once'
<1>1. /\ Sig \in Locks /\ lock \in [Locks -> [owner : Actors \cup {NoThread}, depth : Int]]
      /\ lock[Sig].depth \in Nat
  BY SigIsALock
<1>2. CASE Free(l, p) /\ lock' = Locked(l, p)
  <2>1. lock'[Sig] = IF l = Sig THEN [owner |-> p, depth |-> lock[Sig].depth + 1] ELSE lock[Sig]
    BY <1>1, <1>2 DEF Locked
  <2> QED
    BY <1>1, <1>2, <2>1 DEF Free, Once
<1>3. CASE lock' = Released(l)
  <2>1. lock'[Sig] = IF l # Sig THEN lock[Sig]
                     ELSE IF lock[Sig].depth = 1 THEN Unlocked
                     ELSE [owner |-> lock[Sig].owner, depth |-> lock[Sig].depth - 1]
    BY <1>1, <1>3 DEF Released
  <2> QED
    BY <1>1, <2>1 DEF Once, Unlocked
<1> QED
  BY <1>2, <1>3 DEF Once

LEMMA OnceInitially == ASSUME Init PROVE Once
<1>1. Sig \in Locks
  BY DEF Locks
<1> QED
  BY <1>1 DEF Init, Once, Unlocked

LEMMA OnceKept == ASSUME Typed2, Once, [Next]_vars PROVE Once'
<1>1. ASSUME NEW p \in Actors, ProgramCall(p) PROVE Once'
  <2>1. UNCHANGED <<recursive, lock>>
    BY <1>1 DEF ProgramCall, Connect, Disconnect, Leave, Drop, DisconnectConn, DisconnectAll, Emit, Call
  <2> QED
    BY <2>1 DEF Once
<1>2. ASSUME NEW p \in Actors, Step(p) PROVE Once'
  <2>1. recursive' = recursive
    BY <1>2 DEF Step, ConnectEnter, AddSender, DisconnectEnter, DropSender, DisconnectConnEnter,
                DisconnectAllEnter, Clear, Cleared, LeaveEnter, Leaving, EmitEnter, EmitReturn, EmitNext,
                Emitted, SlotReturn
  <2>2. CASE ConnectEnter(p) \/ DisconnectEnter(p) \/ DisconnectAllEnter(p) \/ EmitEnter(p)
    <3>1. lock' = lock \/ (Free(Sig, p) /\ lock' = Locked(Sig, p))
      BY <2>2 DEF ConnectEnter, DisconnectEnter, DisconnectAllEnter, EmitEnter
    <3> QED
      BY <2>1, <3>1, OnceWith
  <2>3. CASE AddSender(p) \/ DropSender(p) \/ Cleared(p) \/ EmitReturn(p)
    <3>1. lock' = Released(Sig)
      BY <2>3 DEF AddSender, DropSender, Cleared, EmitReturn
    <3> QED
      BY <2>1, <3>1, OnceWith
  <2>4. CASE LeaveEnter(p)
    <3>1. PICK l : l = Top(p).r
      OBVIOUS
    <3>2. lock' = lock \/ (Free(l, p) /\ lock' = Locked(l, p))
      BY <2>4, <3>1 DEF LeaveEnter
    <3> QED
      BY <2>1, <3>2, OnceWith
  <2>5. CASE Leaving(p)
    <3>1. PICK l : l = Top(p).r
      OBVIOUS
    <3>2. lock' = lock \/ lock' = Released(l)
      BY <2>5, <3>1 DEF Leaving
    <3> QED
      BY <2>1, <3>2, OnceWith
  <2>6. CASE DisconnectConnEnter(p) \/ Clear(p) \/ EmitNext(p) \/ Emitted(p) \/ SlotReturn(p)
    <3>1. lock' = lock
      BY <2>6 DEF DisconnectConnEnter, Clear, EmitNext, Emitted, SlotReturn
    <3> QED
      BY <2>1, <3>1 DEF Once
  <2> QED
    BY <1>2, <2>2, <2>3, <2>4, <2>5, <2>6 DEF Step
<1>3. CASE RunTask \/ TaskDone \/ UNCHANGED vars
  <2>1. UNCHANGED <<recursive, lock>>
    BY <1>3 DEF RunTask, TaskDone, vars
  <2> QED
    BY <2>1 DEF Once
<1> QED
  BY <1>1, <1>2, <1>3 DEF Next

(* Whoever takes a connection away holds the signal's mutex or may enter   *)
(* it; so it is the one who emits, and its build lets it enter again.      *)
LEMMA TakenAwayBy ==
  ASSUME Typed2, [Next]_vars, NEW c \in m_connectionList \ m_connectionList'
  PROVE  \E q \in Actors :
           \/ Free(Sig, q) /\ (IsAt(q, "disconnect") \/ IsAt(q, "disconnectConn") \/ IsAt(q, "leaving"))
           \/ IsAt(q, "clear")
<1>1. ASSUME NEW p \in Actors, ProgramCall(p) PROVE FALSE
  BY <1>1 DEF ProgramCall, Connect, Disconnect, Leave, Drop, DisconnectConn, DisconnectAll, Emit, Call, listVars
<1>2. ASSUME NEW p \in Actors, Step(p),
             ~(DisconnectEnter(p) \/ DisconnectConnEnter(p) \/ Clear(p) \/ Leaving(p))
      PROVE  FALSE
  BY <1>2 DEF Step, ConnectEnter, NewConn, AddSender, DropSender, DisconnectAllEnter, Cleared, LeaveEnter,
              EmitEnter, EmitReturn, EmitNext, Emitted, SlotReturn, listVars
<1>3. RunTask \/ TaskDone \/ UNCHANGED vars => FALSE
  BY DEF RunTask, TaskDone, vars, listVars
<1>4. PICK q \in Actors : DisconnectEnter(q) \/ DisconnectConnEnter(q) \/ Clear(q) \/ Leaving(q)
  BY <1>1, <1>2, <1>3 DEF Next
<1> QED
  BY <1>4 DEF DisconnectEnter, DisconnectConnEnter, Clear, Leaving

LEMMA OnlyItsSlotErases ==
  ASSUME SlotInv2, Once, [Next]_vars, NEW p \in Actors, NEW i \in DOMAIN stack[p],
         stack[p][i].at \in Slots, stack[p][i].c \in m_connectionList \ m_connectionList'
  PROVE  /\ recursive /\ stack[p][i].at = "calling"
         /\ Top(p).at \in {"disconnect", "disconnectConn", "clear", "leaving"}
<1>1. /\ Typed2 /\ Frames /\ LockHeld
      /\ stack[p] \in Seq(AFrame) /\ IsFiniteSet(Holds(stack[p])) /\ i \in Holds(stack[p])
  BY HoldsIsFinite DEF SlotInv2, Typed2, DataTyped, Holds, Holding, Emitting, Slots
<1>2. PICK q \in Actors :
           \/ Free(Sig, q) /\ (IsAt(q, "disconnect") \/ IsAt(q, "disconnectConn") \/ IsAt(q, "leaving"))
           \/ IsAt(q, "clear")
  BY <1>1, TakenAwayBy
<1>3. q = p /\ lock[Sig].owner = p
  <2>1. Free(Sig, q) \/ Holds(stack[q]) # {}
    BY <1>1, <1>2, TopHolds DEF IsAt, Holding
  <2> QED
    BY <1>1, <2>1, OnlyHolder
<1>4. /\ stack[p] # << >> /\ Top(p).at \in {"disconnect", "disconnectConn", "clear", "leaving"}
  BY <1>2, <1>3 DEF IsAt
<1>5. Len(stack[p]) \in DOMAIN stack[p] /\ Top(p) = stack[p][Len(stack[p])]
  BY <1>1, <1>4 DEF Top, Last
<1>6. i < Len(stack[p])
  BY <1>1, <1>4, <1>5 DEF Slots
<1>7. stack[p][i].at = "calling"
  BY <1>1, <1>6 DEF Frames, Under, Slots
<1>8. ASSUME ~recursive PROVE FALSE
  <2>1. lock[Sig].depth \in Nat /\ lock[Sig].depth <= 1 /\ Cardinality(Holds(stack[p])) = lock[Sig].depth
    BY <1>1, <1>3, <1>8, SigIsALock DEF Once, LockHeld
  <2>2. /\ IsFiniteSet(Holds(stack[p]) \ {i})
        /\ Cardinality(Holds(stack[p]) \ {i}) = Cardinality(Holds(stack[p])) - 1
    BY <1>1, FS_RemoveElement
  <2>3. lock[Sig].depth = 1 /\ Holds(stack[p]) \ {i} = {}
    <3>1. Cardinality(Holds(stack[p]) \ {i}) \in Nat
      BY <2>2, FS_CardinalityType
    <3>2. lock[Sig].depth = 1
      BY <2>1, <2>2, <3>1
    <3>3. Cardinality(Holds(stack[p]) \ {i}) = 0
      BY <2>1, <2>2, <3>2
    <3> QED
      BY <2>2, <3>2, <3>3, FS_EmptySet
  <2>4. ~IsAt(p, "clear")
    BY <1>5, <1>6, <2>3 DEF IsAt, Holds, Holding
  <2> QED
    BY <1>2, <1>3, <1>8, <2>3, <2>4 DEF Free
<1> QED
  BY <1>4, <1>7, <1>8

(* A receiver whose destructor is done has no connection left, for any     *)
(* number of receivers, threads and calls (HasSlots::disconnectAll).       *)
THEOREM TheDeadLeaveNoTrace == Spec => []DeadLeaveNoTrace
<1>1. Init => SlotInv2
  BY SlotInv2Initially
<1>2. SlotInv2 /\ [Next]_vars => SlotInv2'
  BY Slot2StepKeeps
<1>3. SlotInv2 => DeadLeaveNoTrace
  BY NoTraceLeft
<1> QED
  BY <1>1, <1>2, <1>3, PTL DEF Spec

(* An emission calls every slot it has to, a single shot once and a dead   *)
(* receiver never; and only a slot itself, in a build whose mutexes may be *)
(* entered again, takes the connection away that it is called through: for *)
(* any number of threads, receivers and connections (Signal::emit).        *)
THEOREM SlotsAreCalledAsDue == Spec => SlotsCalledAsDue
<1> DEFINE Inv == SlotInv2 /\ Once
<1>1. Init => Inv
  BY SlotInv2Initially, OnceInitially
<1>2. Inv /\ [Next]_vars => Inv'
  BY Slot2StepKeeps, OnceKept DEF SlotInv2
<1>3. Inv => SingleShotOnce
  BY OnceAtMost
<1>4. Inv /\ [Next]_vars
        => [\A p \in Actors : EmitReturn(p) => reentered \/ Top(p).due \cap m_connectionList = {}]_vars
  BY NoneIsMissed
<1>5. Inv /\ [Next]_vars
        => [\A c \in Conns : fires'[c] > fires[c] /\ conn[c].receiver # NoReceiver
                               => Alive(conn[c].receiver)]_vars
  BY DeadAreNotCalled
<1>6. Inv /\ [Next]_vars
        => [\A p \in Actors : \A i \in DOMAIN stack[p] :
              /\ stack[p][i].at \in {"calling", "posted", "blocked"}
              /\ stack[p][i].c \in m_connectionList \ m_connectionList'
              => /\ recursive /\ stack[p][i].at = "calling"
                 /\ Top(p).at \in {"disconnect", "disconnectConn", "clear", "leaving"}]_vars
  BY OnlyItsSlotErases DEF Slots
<1> HIDE DEF Inv
<1> QED
  BY <1>1, <1>2, <1>3, <1>4, <1>5, <1>6, PTL
     DEF Spec, SlotsCalledAsDue, EmissionComplete, DeadReceiverNotCalled, ErasedBySlotOnly

-----------------------------------------------------------------------------
(* A behaviour of MCSignals is one of both libraries, of which one is idle.*)
LEMMA OneOfThem == MCSpec => P!Spec /\ Spec
<1>1. MCInit => P!Init /\ Init
  BY DEF MCInit
<1>2. [MCNext]_<<subject, vars, plainVars>> => [P!Next]_P!vars /\ [Next]_vars
  <2>1. ASSUME UNCHANGED plainVars PROVE UNCHANGED P!vars
    BY <2>1 DEF plainVars, P!vars
  <2> QED
    BY <2>1 DEF MCNext
<1> QED
  BY <1>1, <1>2, PTL DEF MCSpec, P!Spec, Spec

(* What MCSignals checks of the two libraries together, but for CallsReturn.*)
THEOREM BothCallSlotsRight ==
  MCSpec => []SlotsCalledRight /\ []DeadLeaveNoTrace /\ SlotsCalledAsDue
BY OneOfThem, SignalsCallSlotsRight, TheDeadLeaveNoTrace, SlotsAreCalledAsDue
=============================================================================
