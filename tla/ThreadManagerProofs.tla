--------------------------- MODULE ThreadManagerProofs ---------------------------
(***************************************************************************)
(* Which rtc::Thread is current on which system thread, and what a thread  *)
(* lets itself call, for any number of threads and scopes in scopes: the   *)
(* invariants of ThreadManager and of ThreadPolicies, and the property     *)
(* ThreadsAgree of MCServices.  And what the flush of all queues waits     *)
(* for: EarlierMessagesDispatched.                                         *)
(***************************************************************************)
EXTENDS MCServices, FiniteSetTheorems, SequenceTheorems, TLAPS

-----------------------------------------------------------------------------
(* The scopes of ThreadPolicies.                                           *)

Pairs == [1 .. 2 -> Int]
PolicyScopes == [kind : {"disallow", "count"}, previous : BOOLEAN, base : Pairs, least : Int, made : Pairs]

PoliciesTyped ==
  /\ blocking_calls_allowed_ \in BOOLEAN
  /\ blocking_call_count_ \in Int /\ could_be_blocking_call_count_ \in Int
  /\ scopes \in Seq(PolicyScopes)

NoneForbids(n) == \A k \in 1 .. n : scopes[k].kind # "disallow"
CountsOf(scope) == [i \in 1 .. 2 |-> P!GetBlockingCallCount[i] - scope.base[i]]

(* A scope that forbids knows whether one around it does, and a scope that *)
(* counts has made the calls since its base.                               *)
PoliciesInv ==
  /\ PoliciesTyped
  /\ blocking_calls_allowed_ <=> NoneForbids(Len(scopes))
  /\ \A k \in 1 .. Len(scopes) :
       /\ scopes[k].kind = "disallow" => (scopes[k].previous <=> NoneForbids(k - 1))
       /\ scopes[k].kind = "count" => scopes[k].made = CountsOf(scopes[k])
  /\ reports.said = reports.made

LEMMA EnterScopeKeeps ==
  ASSUME PoliciesInv, P!ScopedDisallowBlockingCalls \/ \E least \in 0 .. 1 : P!ScopedCountBlockingCalls(least)
  PROVE  PoliciesInv'
<1>1. PICK scope \in PolicyScopes :
        /\ scopes' = Append(scopes, scope)
        /\ UNCHANGED <<blocking_call_count_, could_be_blocking_call_count_, reports>>
        /\ \/ /\ scope.kind = "disallow" /\ scope.previous = blocking_calls_allowed_
              /\ blocking_calls_allowed_' = FALSE
           \/ /\ scope.kind = "count" /\ scope.made = CountsOf(scope)
              /\ blocking_calls_allowed_' = blocking_calls_allowed_
  <2>1. <<0, 0>> \in Pairs /\ \A i \in 1 .. 2 : <<0, 0>>[i] = 0
    BY DEF Pairs
  <2>2. CASE P!ScopedDisallowBlockingCalls
    <3> DEFINE scope == [kind |-> "disallow", previous |-> blocking_calls_allowed_, base |-> <<0, 0>>,
                         least |-> 0, made |-> <<0, 0>>]
    <3>1. scope \in PolicyScopes
      BY <2>1 DEF PolicyScopes, PoliciesInv, PoliciesTyped
    <3>2. QED
      BY <2>2, <3>1 DEF P!ScopedDisallowBlockingCalls, P!Enter, P!SetAllowBlockingCalls, P!counts
  <2>3. ASSUME NEW least \in 0 .. 1, P!ScopedCountBlockingCalls(least)
        PROVE  \E scope \in PolicyScopes :
                 /\ scopes' = Append(scopes, scope)
                 /\ UNCHANGED <<blocking_call_count_, could_be_blocking_call_count_, reports>>
                 /\ scope.kind = "count" /\ scope.made = CountsOf(scope)
                 /\ blocking_calls_allowed_' = blocking_calls_allowed_
    <3> DEFINE scope == [kind |-> "count", previous |-> TRUE, base |-> P!GetBlockingCallCount,
                         least |-> least, made |-> <<0, 0>>]
    <3>1. P!GetBlockingCallCount \in Pairs
      BY DEF P!GetBlockingCallCount, PoliciesInv, PoliciesTyped, Pairs
    <3>2. scope \in PolicyScopes
      BY <2>1, <3>1 DEF PolicyScopes
    <3>3. \A i \in 1 .. 2 : P!GetBlockingCallCount[i] - P!GetBlockingCallCount[i] = 0
      BY <3>1 DEF Pairs
    <3>4. scope.made = CountsOf(scope)
      BY <2>1, <3>3 DEF CountsOf, Pairs
    <3>5. QED
      BY <2>3, <3>2, <3>4 DEF P!ScopedCountBlockingCalls, P!Enter, P!counts
  <2>4. QED
    BY <2>2, <2>3
<1>2. /\ scopes' \in Seq(PolicyScopes) /\ Len(scopes) \in Nat /\ Len(scopes') = Len(scopes) + 1
      /\ scopes'[Len(scopes) + 1] = scope
      /\ \A k \in 1 .. Len(scopes) : scopes'[k] = scopes[k]
  BY <1>1, AppendProperties DEF PoliciesInv, PoliciesTyped
<1>3. \A n \in 0 .. Len(scopes) : NoneForbids(n)' <=> NoneForbids(n)
  BY <1>2 DEF NoneForbids
<1>4. NoneForbids(Len(scopes))' <=> NoneForbids(Len(scopes)) /\ scope.kind # "disallow"
  <2>1. \A k \in 1 .. Len(scopes') : k \in 1 .. Len(scopes) \/ k = Len(scopes) + 1
    BY <1>2
  <2>2. Len(scopes) + 1 \in 1 .. Len(scopes') /\ \A k \in 1 .. Len(scopes) : k \in 1 .. Len(scopes')
    BY <1>2
  <2>3. QED
    BY <1>2, <2>1, <2>2 DEF NoneForbids
<1>5. \A c \in PolicyScopes : CountsOf(c)' = CountsOf(c)
  BY <1>1 DEF CountsOf, P!GetBlockingCallCount
<1>6. ASSUME NEW k \in 1 .. Len(scopes')
      PROVE  /\ scopes'[k].kind = "disallow" => (scopes'[k].previous <=> NoneForbids(k - 1)')
             /\ scopes'[k].kind = "count" => scopes'[k].made = CountsOf(scopes[k])'
  <2>1. CASE k = Len(scopes) + 1
    <3>1. scopes'[k] = scope /\ (NoneForbids(k - 1)' <=> NoneForbids(Len(scopes)))
      BY <1>2, <1>3, <2>1
    <3>2. CountsOf(scopes[k])' = CountsOf(scope)
      BY <1>1, <3>1 DEF CountsOf, P!GetBlockingCallCount
    <3>3. QED
      BY <1>1, <3>1, <3>2 DEF PoliciesInv
  <2>2. CASE k \in 1 .. Len(scopes)
    <3>1. scopes'[k] = scopes[k] /\ (NoneForbids(k - 1)' <=> NoneForbids(k - 1))
      BY <1>2, <1>3, <2>2
    <3>2. CountsOf(scopes[k])' = CountsOf(scopes[k])
      BY <1>1, <3>1 DEF CountsOf, P!GetBlockingCallCount
    <3>3. QED
      BY <2>2, <3>1, <3>2 DEF PoliciesInv
  <2>3. QED
    BY <1>2, <2>1, <2>2
<1>7. PoliciesTyped'
  BY <1>1, <1>2 DEF PoliciesInv, PoliciesTyped
<1>8. blocking_calls_allowed_' <=> NoneForbids(Len(scopes))'
  BY <1>1, <1>4 DEF PoliciesInv
<1>9. QED
  BY <1>1, <1>6, <1>7, <1>8 DEF PoliciesInv

LEMMA LeaveScopeKeeps ==
  ASSUME PoliciesInv, P!Leave
  PROVE  PoliciesInv'
<1> DEFINE scope == scopes[Len(scopes)]
           said == [i \in 1 .. 2 |-> P!GetBlockingCallCount[i] - scope.base[i]]
<1>1. /\ scopes # << >> /\ scopes' = SubSeq(scopes, 1, Len(scopes) - 1)
      /\ UNCHANGED <<blocking_call_count_, could_be_blocking_call_count_>>
      /\ \/ scope.kind = "disallow" /\ blocking_calls_allowed_' = scope.previous /\ UNCHANGED reports
         \/ /\ scope.kind # "disallow" /\ UNCHANGED blocking_calls_allowed_
            /\ \/ reports' = [said |-> said, made |-> scope.made]
               \/ reports' = P!NoReport
  BY DEF P!Leave, P!Front, P!Last, P!counts, P!SetAllowBlockingCalls
<1>2. /\ scopes \in Seq(PolicyScopes) /\ Len(scopes) \in Nat /\ Len(scopes) > 0 /\ scope \in PolicyScopes
  BY <1>1, EmptySeq, ElementOfSeq DEF PoliciesInv, PoliciesTyped
<1>3. /\ scopes' \in Seq(PolicyScopes) /\ Len(scopes') = Len(scopes) - 1
      /\ \A k \in 1 .. Len(scopes') : scopes'[k] = scopes[k]
  <2>1. PICK n \in Nat : n = Len(scopes) - 1
    BY <1>2
  <2>2. \A k \in 1 .. n : scopes[k] \in PolicyScopes
    BY <1>2, <2>1, ElementOfSeq
  <2>3. /\ SubSeq(scopes, 1, n) \in Seq(PolicyScopes)
        /\ Len(SubSeq(scopes, 1, n)) = IF 1 <= n THEN n - 1 + 1 ELSE 0
        /\ \A k \in 1 .. n - 1 + 1 : SubSeq(scopes, 1, n)[k] = scopes[1 + k - 1]
    BY <2>2, SubSeqProperties
  <2>4. scopes' = SubSeq(scopes, 1, n)
    BY <1>1, <2>1
  <2>5. Len(scopes') = n
    BY <2>3, <2>4
  <2>6. QED
    BY <2>1, <2>3, <2>4, <2>5
<1>4. \A n \in 0 .. Len(scopes) - 1 : NoneForbids(n)' <=> NoneForbids(n)
  BY <1>2, <1>3 DEF NoneForbids
<1>5. NoneForbids(Len(scopes))' <=> NoneForbids(Len(scopes) - 1)
  BY <1>2, <1>3, <1>4
<1>6. NoneForbids(Len(scopes)) <=> NoneForbids(Len(scopes) - 1) /\ scope.kind # "disallow"
  <2>1. \A k \in 1 .. Len(scopes) : k \in 1 .. Len(scopes) - 1 \/ k = Len(scopes)
    BY <1>2
  <2>2. Len(scopes) \in 1 .. Len(scopes) /\ \A k \in 1 .. Len(scopes) - 1 : k \in 1 .. Len(scopes)
    BY <1>2
  <2>3. QED
    BY <2>1, <2>2 DEF NoneForbids
<1>7. Len(scopes) \in 1 .. Len(scopes)
  BY <1>2
<1>8. blocking_calls_allowed_' <=> NoneForbids(Len(scopes))'
  BY <1>1, <1>2, <1>5, <1>6, <1>7 DEF PoliciesInv
<1>9. reports'.said = reports'.made
  <2>1. scope.kind # "disallow" => scope.made = said
    BY <1>2, <1>7 DEF PoliciesInv, PolicyScopes, CountsOf
  <2> HIDE DEF said, scope
  <2>2. QED
    BY <1>1, <2>1 DEF PoliciesInv, P!NoReport
<1>10. ASSUME NEW k \in 1 .. Len(scopes')
       PROVE  /\ scopes'[k].kind = "disallow" => (scopes'[k].previous <=> NoneForbids(k - 1)')
              /\ scopes'[k].kind = "count" => scopes'[k].made = CountsOf(scopes[k])'
  <2>1. k \in 1 .. Len(scopes) /\ scopes'[k] = scopes[k] /\ (NoneForbids(k - 1)' <=> NoneForbids(k - 1))
    BY <1>2, <1>3, <1>4
  <2>2. CountsOf(scopes[k])' = CountsOf(scopes[k])
    BY <1>1, <2>1 DEF CountsOf, P!GetBlockingCallCount
  <2>3. QED
    BY <2>1, <2>2 DEF PoliciesInv
<1>11. PoliciesTyped'
  BY <1>1, <1>2, <1>3 DEF PoliciesInv, PoliciesTyped, PolicyScopes
<1>12. QED
  BY <1>8, <1>9, <1>10, <1>11 DEF PoliciesInv

(* A call counts in every open scope.                                      *)
LEMMA CalledKeeps ==
  ASSUME PoliciesInv, NEW n \in 1 .. 2, P!Called(n), UNCHANGED <<blocking_calls_allowed_, reports>>,
         blocking_call_count_' = blocking_call_count_ + IF n = 1 THEN 1 ELSE 0,
         could_be_blocking_call_count_' = could_be_blocking_call_count_ + IF n = 2 THEN 1 ELSE 0
  PROVE  PoliciesInv'
<1>1. /\ scopes \in Seq(PolicyScopes) /\ DOMAIN scopes = 1 .. Len(scopes) /\ Len(scopes) \in Nat
      /\ \A k \in 1 .. Len(scopes) : scopes[k] \in PolicyScopes
  BY ElementOfSeq, LenProperties DEF PoliciesInv, PoliciesTyped
<1>2. scopes' = [k \in 1 .. Len(scopes) |-> [scopes[k] EXCEPT !.made[n] = @ + 1]]
  BY <1>1 DEF P!Called
<1>3. ASSUME NEW k \in 1 .. Len(scopes)
      PROVE  /\ scopes'[k] \in PolicyScopes
             /\ scopes'[k].kind = scopes[k].kind /\ scopes'[k].previous = scopes[k].previous
             /\ scopes'[k].base = scopes[k].base
             /\ scopes'[k].made = [scopes[k].made EXCEPT ![n] = @ + 1]
  <2>1. scopes[k] \in PolicyScopes
    BY <1>1
  <2>2. scopes'[k] = [scopes[k] EXCEPT !.made[n] = @ + 1]
    BY <1>2
  <2>3. [scopes[k].made EXCEPT ![n] = @ + 1] \in Pairs
    BY <2>1 DEF PolicyScopes, Pairs
  <2>4. QED
    BY <2>1, <2>2, <2>3 DEF PolicyScopes
<1>4. scopes' \in [1 .. Len(scopes) -> PolicyScopes]
  BY <1>2, <1>3
<1>5. scopes' \in Seq(PolicyScopes) /\ Len(scopes') = Len(scopes)
  <2>1. scopes' \in Seq(PolicyScopes)
    BY <1>1, <1>4, SeqDef
  <2>2. DOMAIN scopes' = 1 .. Len(scopes)
    BY <1>4
  <2>3. QED
    BY <1>1, <2>1, <2>2, LenProperties
<1>6. PoliciesTyped'
  BY <1>5 DEF PoliciesInv, PoliciesTyped
<1>7. \A m \in 0 .. Len(scopes) : NoneForbids(m)' <=> NoneForbids(m)
  <2>1. \A m \in 0 .. Len(scopes) : \A k \in 1 .. m : k \in 1 .. Len(scopes)
    BY <1>1
  <2>2. \A k \in 1 .. Len(scopes) : scopes'[k].kind = scopes[k].kind
    BY <1>3
  <2>3. QED
    BY <2>1, <2>2 DEF NoneForbids
<1>8. blocking_calls_allowed_' <=> NoneForbids(Len(scopes))'
  BY <1>1, <1>5, <1>7 DEF PoliciesInv
<1>9. ASSUME NEW k \in 1 .. Len(scopes'), scopes'[k].kind = "count"
      PROVE  scopes'[k].made = CountsOf(scopes[k])'
  <2>1. /\ k \in 1 .. Len(scopes) /\ scopes[k] \in PolicyScopes
        /\ scopes'[k].base = scopes[k].base
        /\ scopes'[k].made = [scopes[k].made EXCEPT ![n] = @ + 1]
        /\ scopes[k].made = CountsOf(scopes[k])
    BY <1>1, <1>3, <1>5, <1>9 DEF PoliciesInv
  <2>2. /\ CountsOf(scopes[k])' = [i \in 1 .. 2 |-> P!GetBlockingCallCount'[i] - scopes[k].base[i]]
        /\ CountsOf(scopes[k]) = [i \in 1 .. 2 |-> P!GetBlockingCallCount[i] - scopes[k].base[i]]
    BY <2>1 DEF CountsOf
  <2>3. ASSUME NEW i \in 1 .. 2
        PROVE  P!GetBlockingCallCount'[i] - scopes[k].base[i]
                 = P!GetBlockingCallCount[i] - scopes[k].base[i] + IF i = n THEN 1 ELSE 0
    <3>1. scopes[k].base[i] \in Int
      BY <2>1 DEF PolicyScopes, Pairs
    <3>2. P!GetBlockingCallCount[i] \in Int
      BY DEF P!GetBlockingCallCount, PoliciesInv, PoliciesTyped
    <3>3. P!GetBlockingCallCount'[i] = P!GetBlockingCallCount[i] + IF i = n THEN 1 ELSE 0
      BY DEF P!GetBlockingCallCount, PoliciesInv, PoliciesTyped
    <3>4. QED
      BY <3>1, <3>2, <3>3
  <2>4. scopes'[k].made = [i \in 1 .. 2 |-> P!GetBlockingCallCount'[i] - scopes[k].base[i]]
    <3>1. scopes[k].made \in [1 .. 2 -> Int] /\ \A i \in 1 .. 2 :
            scopes[k].made[i] = P!GetBlockingCallCount[i] - scopes[k].base[i]
      BY <2>1, <2>2 DEF PolicyScopes, Pairs
    <3>2. \A i \in 1 .. 2 : scopes'[k].made[i] = scopes[k].made[i] + IF i = n THEN 1 ELSE 0
      BY <2>1, <3>1
    <3>3. scopes'[k].made \in [1 .. 2 -> Int]
      BY <2>1, <3>1
    <3>4. QED
      BY <2>3, <3>1, <3>2, <3>3
  <2>5. QED
    BY <2>2, <2>4
<1>10. ASSUME NEW k \in 1 .. Len(scopes'), scopes'[k].kind = "disallow"
       PROVE  scopes'[k].previous <=> NoneForbids(k - 1)'
  <2>1. /\ k \in 1 .. Len(scopes) /\ k - 1 \in 0 .. Len(scopes)
        /\ scopes[k].kind = "disallow" /\ scopes'[k].previous = scopes[k].previous
    <3>1. k \in 1 .. Len(scopes)
      BY <1>5
    <3>2. k - 1 \in 0 .. Len(scopes)
      BY <1>1, <3>1
    <3>3. QED
      BY <1>3, <1>10, <3>1, <3>2
  <2>2. QED
    BY <1>7, <2>1 DEF PoliciesInv
<1>11. QED
  BY <1>6, <1>8, <1>9, <1>10 DEF PoliciesInv

LEMMA PoliciesKeep ==
  ASSUME PoliciesInv, [P!Next]_P!vars
  PROVE  PoliciesInv'
<1>1. ASSUME UNCHANGED <<blocking_calls_allowed_, blocking_call_count_, could_be_blocking_call_count_,
                         scopes, reports>>
      PROVE  PoliciesInv'
  BY <1>1 DEF PoliciesInv, PoliciesTyped, NoneForbids, CountsOf, P!GetBlockingCallCount
<1>2. ASSUME P!CallSelf PROVE PoliciesInv'
  BY <1>1, <1>2, CalledKeeps DEF P!CallSelf, P!settings, PoliciesInv, PoliciesTyped
<1>3. ASSUME NEW target \in Targets, P!CallOther(target) PROVE PoliciesInv'
  BY <1>1, <1>3, CalledKeeps DEF P!CallOther, P!settings, PoliciesInv, PoliciesTyped
<1>4. QED
  BY <1>1, <1>2, <1>3, EnterScopeKeeps, LeaveScopeKeeps
  DEF P!Next, P!ChangePolicy, P!PostChange, P!RunChange, P!counts, P!settings, P!vars

(* What a thread may call is what its innermost scopes say, and each scope *)
(* that counts has counted the calls made in it (thread.cc).               *)
THEOREM PoliciesAreKept == P!Spec => []P!PoliciesHold
<1>1. P!Init => PoliciesInv
  <2>1. P!Init => scopes \in Seq(PolicyScopes) /\ Len(scopes) = 0
    BY EmptySeq DEF P!Init
  <2>2. P!Init => blocking_call_count_ \in Int /\ could_be_blocking_call_count_ \in Int
    BY DEF P!Init
  <2>3. P!Init => PoliciesTyped
    BY <2>1, <2>2 DEF P!Init, PoliciesTyped
  <2>4. P!Init => reports.said = reports.made
    BY DEF P!Init, P!NoReport
  <2>5. QED
    BY <2>1, <2>3, <2>4 DEF P!Init, PoliciesInv, NoneForbids
<1>2. PoliciesInv => P!PoliciesHold
  <2>1. PoliciesInv => DOMAIN scopes = 1 .. Len(scopes)
    BY LenProperties DEF PoliciesInv, PoliciesTyped
  <2>2. QED
    BY <2>1 DEF PoliciesInv, PoliciesTyped, NoneForbids, CountsOf, P!PoliciesHold
<1>3. QED
  BY <1>1, <1>2, PoliciesKeep, PTL DEF P!Spec

-----------------------------------------------------------------------------
(* What is current in ThreadManager.                                       *)

Apart == Null \notin Threads /\ Null \notin Mains /\ Mains \cap Threads = {}
Scoped == {"AutoThread", "AutoSocketServerThread"}

ManagerTyped ==
  /\ current \in [M!SystemThreads -> Threads \cup {Null}]
  /\ taskQueue \in [M!SystemThreads -> Threads \cup {Null}]
  /\ registration \in [Threads -> {<< >>, <<Null>>}]
  /\ kind \in [Threads -> {"none", "Thread", "deleted"} \cup Scoped]
  /\ thread_ \in [Threads -> M!SystemThreads \cup {Null}]
  /\ old_thread_ \in [Threads -> Threads \cup {Null}]
  /\ run \in [Threads -> {"off", "prerun", "loop", "idle", "postrun", "ended"}]
  /\ message_queues_ \in [Threads -> Nat]
  /\ stack \in [Mains -> Seq(Threads)]
  /\ joining \in [Mains -> {<< >>} \cup (Threads \X BOOLEAN)]

OnStack(m, t) == \E i \in 1 .. Len(stack[m]) : stack[m][i] = t
Below(m, o, t) ==
  \E i, j \in 1 .. Len(stack[m]) : i < j /\ stack[m][i] = o /\ stack[m][j] = t
IsCurrent(t) == \E s \in M!SystemThreads : current[s] = t

(* One thread is current at one place, where it is the task queue too, in  *)
(* place of none.                                                          *)
OneIsCurrent ==
  /\ \A s \in M!SystemThreads : taskQueue[s] = current[s]
  /\ \A r, s \in M!SystemThreads : current[r] = current[s] /\ current[s] # Null => r = s
  /\ \A t \in Threads : registration[t] = IF IsCurrent(t) THEN <<Null>> ELSE << >>
Currents ==
  /\ OneIsCurrent
  /\ \A s \in M!SystemThreads :
       current[s] # Null => M!Exists(current[s]) /\ message_queues_[current[s]] = 1
  /\ \A m \in Mains : current[m] # Null =>
       \/ kind[current[m]] = "Thread" /\ thread_[current[m]] = m
       \/ kind[current[m]] \in Scoped /\ OnStack(m, current[m])

(* A started thread runs on a system thread of its own, and a thread that  *)
(* does not run is current nowhere.                                        *)
Started ==
  \A t \in Threads :
    /\ thread_[t] = t <=> run[t] # "off"
    /\ current[t] = IF run[t] \in {"loop", "idle", "postrun"} THEN t ELSE Null
    /\ kind[t] = "Thread" /\ thread_[t] \in {Null, t} => message_queues_[t] = 1
    /\ kind[t] # "Thread" => thread_[t] = Null
    /\ kind[t] = "none" => message_queues_[t] = 0 /\ old_thread_[t] = Null

(* The stacks of the program's threads hold the scoped ones, each once.    *)
EachOnStackOnce ==
  \A m, n \in Mains : \A i \in 1 .. Len(stack[m]), j \in 1 .. Len(stack[n]) :
    stack[m][i] = stack[n][j] => m = n /\ i = j
Stacks ==
  /\ \A m \in Mains : \A i \in 1 .. Len(stack[m]) : kind[stack[m][i]] \in Scoped
  /\ EachOnStackOnce

(* A thread that another hides is below it or wrapped, and nothing ends    *)
(* it.                                                                     *)
Hides(m, t, o) ==
  /\ OnStack(m, t) /\ M!Exists(o) /\ message_queues_[o] = 0 /\ ~IsCurrent(o)
  /\ Below(m, o, t) \/ (kind[o] = "Thread" /\ thread_[o] = m)
Hidings ==
  /\ \A t \in Threads : M!Exists(t) /\ old_thread_[t] # Null =>
       \E m \in Mains : Hides(m, t, old_thread_[t])
  /\ \A t, u \in Threads :
       M!Exists(t) /\ M!Exists(u) /\ old_thread_[t] = old_thread_[u] /\ old_thread_[t] # Null => t = u

(* Who is stopped is not wrapped, and stopped by one.                      *)
Joins ==
  /\ \A m \in Mains : joining[m] # << >> =>
       /\ joining[m][1] \in Threads
       /\ kind[joining[m][1]] = "Thread" /\ thread_[joining[m][1]] \in {Null, joining[m][1]}
  /\ \A m, n \in Mains :
       joining[m] # << >> /\ joining[n] # << >> /\ joining[m][1] = joining[n][1] => m = n

ManagerInv == ManagerTyped /\ Currents /\ Started /\ Stacks /\ Hidings /\ Joins

(* What becomes current where nobody is, and nobody where somebody was.    *)
LEMMA NobodyIsCurrent ==
  ASSUME Apart, ManagerInv, NEW s \in M!SystemThreads
  PROVE  LET w == M!SetCurrentThread(M!Where, s, Null)
         IN  /\ w.current = [current EXCEPT ![s] = Null]
             /\ w.taskQueue = [taskQueue EXCEPT ![s] = Null]
             /\ w.registration = IF current[s] = Null THEN registration
                                 ELSE [registration EXCEPT ![current[s]] = << >>]
<1>1. CASE current[s] = Null
  <2>1. M!SetCurrentThread(M!Where, s, Null) = [M!Where EXCEPT !.current[s] = Null]
    BY <1>1 DEF Apart, M!SetCurrentThread, M!Where
  <2>2. taskQueue = [taskQueue EXCEPT ![s] = Null]
    BY <1>1 DEF ManagerInv, ManagerTyped, Currents, OneIsCurrent
  <2>3. QED
    BY <1>1, <2>1, <2>2 DEF M!Where
<1>2. CASE current[s] # Null
  <2>1. /\ current[s] \in Threads /\ registration[current[s]] = <<Null>>
        /\ registration[current[s]] # << >> /\ registration[current[s]][1] = Null
    BY <1>2 DEF ManagerInv, ManagerTyped, Currents, OneIsCurrent, IsCurrent
  <2>2. M!SetCurrentThread(M!Where, s, Null) =
          [[M!Where EXCEPT !.registration[current[s]] = << >>, !.taskQueue[s] = Null]
             EXCEPT !.current[s] = Null]
    BY <1>2, <2>1 DEF M!SetCurrentThread, M!ClearCurrentTaskQueue, M!Where
  <2>3. QED
    BY <1>2, <2>2 DEF M!Where
<1>3. QED
  BY <1>1, <1>2

LEMMA SomebodyIsCurrent ==
  ASSUME Apart, NEW t \in Threads, NEW s, NEW w,
         w = [current |-> w.current, taskQueue |-> w.taskQueue, registration |-> w.registration],
         w.taskQueue[s] = Null, w.registration[t] = << >>
  PROVE  LET v == M!SetCurrentThread(w, s, t)
         IN  /\ v.current = [w.current EXCEPT ![s] = t]
             /\ v.taskQueue = [w.taskQueue EXCEPT ![s] = t]
             /\ v.registration = [w.registration EXCEPT ![t] = <<Null>>]
<1>1. t # Null
  BY DEF Apart
<1>2. M!EnsureIsCurrentTaskQueue(w, s, t)
        = [[w EXCEPT !.registration[t] = <<Null>>] EXCEPT !.taskQueue[s] = t]
  BY DEF M!EnsureIsCurrentTaskQueue
<1>3. M!SetCurrentThread(w, s, t) = [M!EnsureIsCurrentTaskQueue(w, s, t) EXCEPT !.current[s] = t]
  BY <1>1 DEF M!SetCurrentThread
<1>4. QED
  BY <1>2, <1>3

(* Who is current, and who is hidden.                                      *)
LEMMA CurrentIs ==
  ASSUME ManagerInv, NEW s \in M!SystemThreads, current[s] # Null
  PROVE  /\ current[s] \in Threads /\ M!Exists(current[s]) /\ message_queues_[current[s]] = 1
         /\ registration[current[s]] = <<Null>> /\ IsCurrent(current[s])
BY DEF ManagerInv, ManagerTyped, Currents, OneIsCurrent, IsCurrent

LEMMA HiddenIs ==
  ASSUME ManagerInv, NEW t \in Threads, M!Exists(t), old_thread_[t] # Null
  PROVE  \E m \in Mains : old_thread_[t] \in Threads /\ Hides(m, t, old_thread_[t])
BY DEF ManagerInv, ManagerTyped, Hidings

(* What is current of a system thread changes, to one that is current      *)
(* nowhere or to nobody.                                                   *)
Switches(s, c) ==
  /\ current' = [current EXCEPT ![s] = c]
  /\ taskQueue' = [taskQueue EXCEPT ![s] = c]
  /\ registration' = [t \in Threads |-> IF t = c THEN <<Null>>
                                           ELSE IF t = current[s] THEN << >> ELSE registration[t]]

LEMMA SetsNobody ==
  ASSUME Apart, ManagerInv, NEW s \in M!SystemThreads,
         M!Becomes(M!SetCurrentThread(M!Where, s, Null))
  PROVE  Switches(s, Null)
<1>1. /\ current' = [current EXCEPT ![s] = Null] /\ taskQueue' = [taskQueue EXCEPT ![s] = Null]
      /\ registration' = IF current[s] = Null THEN registration
                         ELSE [registration EXCEPT ![current[s]] = << >>]
  BY NobodyIsCurrent DEF M!Becomes
<1>2. registration' = [t \in Threads |-> IF t = Null THEN <<Null>>
                                           ELSE IF t = current[s] THEN << >> ELSE registration[t]]
  <2>1. registration \in [Threads -> {<< >>, <<Null>>}] /\ \A t \in Threads : t # Null
    BY DEF Apart, ManagerInv, ManagerTyped
  <2>2. CASE current[s] = Null
    BY <1>1, <2>1, <2>2
  <2>3. CASE current[s] # Null
    BY <1>1, <2>1, <2>3
  <2>4. QED
    BY <2>2, <2>3
<1>3. QED
  BY <1>1, <1>2 DEF Switches

LEMMA ReplacesCurrent ==
  ASSUME Apart, ManagerInv, NEW s \in M!SystemThreads, NEW c \in Threads \cup {Null},
         c # Null => ~IsCurrent(c), M!Becomes(M!Replace(s, c))
  PROVE  Switches(s, c)
<1> DEFINE w == M!SetCurrentThread(M!Where, s, Null)
           r == IF current[s] = Null THEN registration ELSE [registration EXCEPT ![current[s]] = << >>]
           v == M!SetCurrentThread(w, s, c)
<1>1. /\ w.current = [current EXCEPT ![s] = Null] /\ w.taskQueue = [taskQueue EXCEPT ![s] = Null]
      /\ w.registration = r
  BY NobodyIsCurrent
<1>2. w = [current |-> w.current, taskQueue |-> w.taskQueue, registration |-> w.registration]
  <2> DEFINE Rec(x) == x = [current |-> x.current, taskQueue |-> x.taskQueue,
                            registration |-> x.registration]
  <2>1. Rec(M!Where)
    BY DEF M!Where
  <2>2. \A x : Rec(x) => Rec([x EXCEPT !.current[s] = Null])
    OBVIOUS
  <2>3. \A x, t : Rec(x) => Rec(M!ClearCurrentTaskQueue(x, s, t))
    BY DEF M!ClearCurrentTaskQueue
  <2>4. QED
    <3>1. CASE M!Where.current[s] = Null
      BY <2>1, <2>2, <3>1 DEF M!SetCurrentThread
    <3>2. CASE M!Where.current[s] # Null
      <4>1. w = [M!ClearCurrentTaskQueue(M!Where, s, M!Where.current[s]) EXCEPT !.current[s] = Null]
        BY <3>2 DEF M!SetCurrentThread
      <4>2. Rec(M!ClearCurrentTaskQueue(M!Where, s, M!Where.current[s]))
        BY <2>1, <2>3
      <4>3. QED
        BY <2>2, <4>1, <4>2
    <3>3. QED
      BY <3>1, <3>2
<1>3. current' = v.current /\ taskQueue' = v.taskQueue /\ registration' = v.registration
  BY DEF M!Replace, M!Becomes
<1>4. /\ r \in [Threads -> {<< >>, <<Null>>}]
      /\ \A t \in Threads : t # Null /\ r[t] = IF t = current[s] THEN << >> ELSE registration[t]
  BY DEF Apart, ManagerInv, ManagerTyped
<1>5. current \in [M!SystemThreads -> Threads \cup {Null}]
      /\ taskQueue \in [M!SystemThreads -> Threads \cup {Null}]
  BY DEF ManagerInv, ManagerTyped
<1> HIDE DEF w, r
<1>6. CASE c = Null
  <2>1. v = [w EXCEPT !.current[s] = Null]
    BY <1>1, <1>6, <1>5 DEF M!SetCurrentThread
  <2>2. v.current = [w.current EXCEPT ![s] = Null] /\ v.taskQueue = w.taskQueue
        /\ v.registration = w.registration
    BY <1>2, <2>1
  <2>3. v.current = [current EXCEPT ![s] = Null]
    BY <1>1, <1>5, <2>2
  <2>4. r = [t \in Threads |-> IF t = c THEN <<Null>>
                                 ELSE IF t = current[s] THEN << >> ELSE registration[t]]
    BY <1>4, <1>6
  <2>5. QED
    BY <1>1, <1>3, <1>6, <2>2, <2>3, <2>4 DEF Switches
<1>7. CASE c # Null
  <2>1. c \in Threads /\ c # current[s] /\ w.registration[c] = << >> /\ w.taskQueue[s] = Null
    BY <1>1, <1>4, <1>5, <1>7, CurrentIs DEF ManagerInv, Currents, OneIsCurrent
  <2>2. /\ v.current = [w.current EXCEPT ![s] = c] /\ v.taskQueue = [w.taskQueue EXCEPT ![s] = c]
        /\ v.registration = [r EXCEPT ![c] = <<Null>>]
    <3>1. /\ v.current = [w.current EXCEPT ![s] = c] /\ v.taskQueue = [w.taskQueue EXCEPT ![s] = c]
          /\ v.registration = [w.registration EXCEPT ![c] = <<Null>>]
      <4>1. c \in Threads /\ w.taskQueue[s] = Null /\ w.registration[c] = << >>
        BY <2>1
      <4> HIDE DEF v
      <4>2. v = M!SetCurrentThread(w, s, c)
        BY DEF v
      <4>3. QED
        BY <1>2, <4>1, <4>2, SomebodyIsCurrent, SMTT(30)
    <3>2. QED
      BY <1>1, <3>1
  <2>3. /\ v.current = [current EXCEPT ![s] = c] /\ v.taskQueue = [taskQueue EXCEPT ![s] = c]
    BY <1>1, <1>5, <2>2
  <2>4. [r EXCEPT ![c] = <<Null>>]
          = [t \in Threads |-> IF t = c THEN <<Null>>
                                 ELSE IF t = current[s] THEN << >> ELSE registration[t]]
    BY <1>4, <2>1
  <2>5. QED
    BY <1>3, <2>2, <2>3, <2>4 DEF Switches
<1>8. QED
  BY <1>6, <1>7

LEMMA SetsSomebody ==
  ASSUME Apart, ManagerInv, NEW s \in M!SystemThreads, current[s] = Null, NEW t \in Threads,
         ~IsCurrent(t), M!Becomes(M!SetCurrentThread(M!Where, s, t))
  PROVE  Switches(s, t)
<1>1. registration[t] = << >> /\ taskQueue[s] = Null
  BY DEF ManagerInv, Currents, OneIsCurrent
<1>2. /\ M!Where.current = current /\ M!Where.taskQueue = taskQueue
      /\ M!Where.registration = registration
      /\ M!Where = [current |-> M!Where.current, taskQueue |-> M!Where.taskQueue,
                    registration |-> M!Where.registration]
  BY DEF M!Where
<1>3. /\ current' = [current EXCEPT ![s] = t] /\ taskQueue' = [taskQueue EXCEPT ![s] = t]
      /\ registration' = [registration EXCEPT ![t] = <<Null>>]
  <2> DEFINE w == M!Where
             v == M!SetCurrentThread(w, s, t)
  <2>1. /\ w.current = current /\ w.taskQueue = taskQueue /\ w.registration = registration
        /\ w = [current |-> w.current, taskQueue |-> w.taskQueue, registration |-> w.registration]
        /\ w.taskQueue[s] = Null /\ w.registration[t] = << >>
    BY <1>1, <1>2
  <2>2. current' = v.current /\ taskQueue' = v.taskQueue /\ registration' = v.registration
    BY DEF M!Becomes
  <2> HIDE DEF w
  <2>3. /\ v.current = [w.current EXCEPT ![s] = t]
        /\ v.taskQueue = [w.taskQueue EXCEPT ![s] = t]
        /\ v.registration = [w.registration EXCEPT ![t] = <<Null>>]
    BY <2>1, SomebodyIsCurrent, SMTT(30)
  <2> HIDE DEF v
  <2>4. QED
    BY <2>1, <2>2, <2>3
<1>4. \A u \in Threads : u # Null
  BY DEF Apart
<1>5. registration' = [u \in Threads |-> IF u = t THEN <<Null>>
                                           ELSE IF u = current[s] THEN << >> ELSE registration[u]]
  BY <1>3, <1>4 DEF ManagerInv, ManagerTyped
<1>6. QED
  BY <1>3, <1>5 DEF Switches

LEMMA SwitchKeeps ==
  ASSUME Apart, ManagerInv, NEW s \in M!SystemThreads, NEW c \in Threads \cup {Null},
         c # Null => ~IsCurrent(c), Switches(s, c)
  PROVE  /\ current' \in [M!SystemThreads -> Threads \cup {Null}]
         /\ taskQueue' \in [M!SystemThreads -> Threads \cup {Null}]
         /\ registration' \in [Threads -> {<< >>, <<Null>>}]
         /\ \A r \in M!SystemThreads : current'[r] = IF r = s THEN c ELSE current[r]
         /\ \A t \in Threads : IsCurrent(t)' <=> (t = c \/ (IsCurrent(t) /\ t # current[s]))
         /\ OneIsCurrent'
<1>1. /\ current' \in [M!SystemThreads -> Threads \cup {Null}]
      /\ taskQueue' \in [M!SystemThreads -> Threads \cup {Null}]
      /\ registration' \in [Threads -> {<< >>, <<Null>>}]
  BY DEF ManagerInv, ManagerTyped, Switches
<1>2. \A r \in M!SystemThreads : /\ current'[r] = IF r = s THEN c ELSE current[r]
                                 /\ taskQueue'[r] = IF r = s THEN c ELSE taskQueue[r]
  BY DEF ManagerInv, ManagerTyped, Switches
<1>3. \A t \in Threads : IsCurrent(t)' <=> (t = c \/ (IsCurrent(t) /\ t # current[s]))
  BY <1>2 DEF Apart, ManagerInv, Currents, OneIsCurrent, IsCurrent
<1>4. \A r, q \in M!SystemThreads : current'[r] = current'[q] /\ current'[q] # Null => r = q
  BY <1>2 DEF ManagerInv, Currents, OneIsCurrent, IsCurrent
<1>5. \A t \in Threads : registration'[t] = IF IsCurrent(t)' THEN <<Null>> ELSE << >>
  BY <1>3 DEF ManagerInv, Currents, OneIsCurrent, Switches
<1>6. QED
  BY <1>1, <1>2, <1>3, <1>4, <1>5 DEF ManagerInv, Currents, OneIsCurrent

(* A step that leaves the parts alone which the invariant is about.        *)
LEMMA QueuesKeep ==
  ASSUME ManagerInv,
         UNCHANGED <<current, taskQueue, registration, kind, thread_, old_thread_, run,
                     message_queues_, stack, joining>>
  PROVE  ManagerInv'
BY DEF ManagerInv, ManagerTyped, Currents, OneIsCurrent, Started, Stacks, EachOnStackOnce, Hidings, Hides, Joins, OnStack, Below,
       IsCurrent, M!Exists

LEMMA CreateKeeps ==
  ASSUME Apart, ManagerInv, NEW m \in Mains, NEW t \in Threads, M!Create(m, t)
  PROVE  ManagerInv'
<1>1. /\ kind[t] = "none" /\ kind' = [kind EXCEPT ![t] = "Thread"]
      /\ message_queues_' = [message_queues_ EXCEPT ![t] = @ + 1]
      /\ UNCHANGED <<current, taskQueue, registration, thread_, old_thread_, run, stack, joining>>
  BY DEF M!Create, M!Registered, M!currentVars, M!callVars
<1>2. ManagerTyped'
  BY <1>1 DEF ManagerInv, ManagerTyped
<1>3. /\ \A u \in Threads : u # t => kind'[u] = kind[u] /\ message_queues_'[u] = message_queues_[u]
      /\ kind'[t] = "Thread" /\ message_queues_'[t] = 1
  BY <1>1 DEF ManagerInv, ManagerTyped, Started
<1>4. /\ \A n \in Mains, u \in Threads : OnStack(n, u)' <=> OnStack(n, u)
      /\ \A n \in Mains, u, v \in Threads : Below(n, u, v)' <=> Below(n, u, v)
      /\ \A u \in Threads : IsCurrent(u)' <=> IsCurrent(u)
      /\ \A u \in Threads : u # t => (M!Exists(u)' <=> M!Exists(u))
      /\ ~M!Exists(t)
  BY <1>1, <1>3 DEF OnStack, Below, IsCurrent, M!Exists
<1>5. Currents'
  <2>1. /\ \A s \in M!SystemThreads : current[s] # Null => current[s] # t /\ M!Exists(current[s])
                                                         /\ current[s] \in Threads
        /\ \A n \in Mains : n \in M!SystemThreads
    BY <1>4, CurrentIs DEF M!SystemThreads
  <2>2. \A s \in M!SystemThreads :
          current'[s] # Null => M!Exists(current[s])' /\ message_queues_'[current'[s]] = 1
    BY <1>1, <1>3, <1>4, <2>1, CurrentIs
  <2>3. \A n \in Mains : current'[n] # Null =>
          \/ kind'[current'[n]] = "Thread" /\ thread_'[current'[n]] = n
          \/ kind'[current'[n]] \in Scoped /\ OnStack(n, current[n])'
    BY <1>1, <1>3, <1>4, <2>1 DEF ManagerInv, Currents, OneIsCurrent
  <2>4. QED
    BY <1>1, <1>4, <2>2, <2>3 DEF ManagerInv, Currents, OneIsCurrent
<1>6. Started'
  BY <1>1, <1>3 DEF ManagerInv, ManagerTyped, Started
<1>7. Stacks'
  BY <1>1, <1>3 DEF ManagerInv, ManagerTyped, Stacks, EachOnStackOnce, Scoped
<1>8. Hidings'
  <2>1. ASSUME NEW u \in Threads, M!Exists(u)', old_thread_'[u] # Null
        PROVE  u # t /\ M!Exists(u) /\ \E n \in Mains : Hides(n, u, old_thread_[u])'
    <3>1. u # t /\ M!Exists(u) /\ old_thread_[u] # Null
      BY <1>1, <1>4, <2>1 DEF ManagerInv, ManagerTyped, Started
    <3>2. PICK n \in Mains : old_thread_[u] \in Threads /\ Hides(n, u, old_thread_[u])
      BY <3>1, HiddenIs
    <3>3. Hides(n, u, old_thread_[u])'
      BY <1>1, <1>3, <1>4, <3>2 DEF Hides
    <3>4. QED
      BY <3>1, <3>3
  <2>2. QED
    BY <1>1, <2>1 DEF ManagerInv, Hidings
<1>9. Joins'
  BY <1>1, <1>3 DEF ManagerInv, ManagerTyped, Joins
<1>10. QED
  BY <1>2, <1>5, <1>6, <1>7, <1>8, <1>9 DEF ManagerInv

LEMMA StartKeeps ==
  ASSUME Apart, ManagerInv, NEW m \in Mains, NEW t \in Threads, M!Start(m, t)
  PROVE  ManagerInv'
<1>1. /\ kind[t] = "Thread" /\ thread_[t] = Null
      /\ thread_' = [thread_ EXCEPT ![t] = t]
      /\ run' = [run EXCEPT ![t] = "prerun"]
      /\ UNCHANGED <<current, taskQueue, registration, kind, old_thread_, message_queues_, stack, joining>>
  BY DEF M!Start, M!currentVars, M!callVars
<1>2. ManagerTyped'
  BY <1>1 DEF ManagerInv, ManagerTyped, M!SystemThreads
<1>3. /\ \A u \in Threads : u # t => thread_'[u] = thread_[u] /\ run'[u] = run[u]
      /\ thread_'[t] = t /\ run'[t] = "prerun" /\ run[t] = "off"
  BY <1>1 DEF Apart, ManagerInv, ManagerTyped, Started
<1>4. /\ \A n \in Mains, u \in Threads : OnStack(n, u)' <=> OnStack(n, u)
      /\ \A n \in Mains, u, v \in Threads : Below(n, u, v)' <=> Below(n, u, v)
      /\ \A u \in Threads : IsCurrent(u)' <=> IsCurrent(u)
      /\ \A u \in Threads : M!Exists(u)' <=> M!Exists(u)
  BY <1>1 DEF OnStack, Below, IsCurrent, M!Exists
<1>5. Currents'
  BY <1>1, <1>3, <1>4 DEF Apart, ManagerInv, ManagerTyped, Currents, OneIsCurrent, M!SystemThreads
<1>6. Started'
  BY <1>1, <1>3 DEF Apart, ManagerInv, ManagerTyped, Started
<1>7. Stacks'
  BY <1>1 DEF ManagerInv, Stacks, EachOnStackOnce
<1>8. Hidings'
  BY <1>1, <1>3, <1>4 DEF Apart, ManagerInv, ManagerTyped, Hidings, Hides
<1>9. Joins'
  BY <1>1, <1>3 DEF ManagerInv, ManagerTyped, Joins
<1>10. QED
  BY <1>2, <1>5, <1>6, <1>7, <1>8, <1>9 DEF ManagerInv

LEMMA UnregisteredTyped ==
  ASSUME NEW q \in [Threads -> Nat], NEW t
  PROVE  M!Unregistered(q, t) \in [Threads -> Nat]
<1>1. t \in Threads => (IF q[t] > 0 THEN q[t] - 1 ELSE 0) \in Nat
  OBVIOUS
<1>2. QED
  BY <1>1 DEF M!Unregistered

LEMMA StopKeeps ==
  ASSUME Apart, ManagerInv, NEW m \in Mains, NEW t \in Threads, NEW d \in BOOLEAN, M!Stop(m, t, d)
  PROVE  ManagerInv'
<1>1. /\ kind[t] = "Thread" /\ thread_[t] \in {Null, t} /\ joining[m] = << >>
      /\ \A n \in Mains : joining[n] # << >> => joining[n][1] # t
      /\ joining' = [joining EXCEPT ![m] = <<t, d>>]
      /\ UNCHANGED <<current, taskQueue, registration, kind, thread_, old_thread_, run, message_queues_, stack>>
  BY DEF M!Stop, M!Unlocked, M!currentVars
<1>2. ManagerTyped'
  BY <1>1 DEF ManagerInv, ManagerTyped
<1>3. Currents' /\ Started' /\ Stacks' /\ Hidings'
  BY <1>1 DEF ManagerInv, Currents, OneIsCurrent, Started, Stacks, EachOnStackOnce, Hidings, Hides,
              OnStack, Below, IsCurrent, M!Exists
<1>4. Joins'
  <2>1. \A n \in Mains : joining'[n] = IF n = m THEN <<t, d>> ELSE joining[n]
    BY <1>1 DEF ManagerInv, ManagerTyped
  <2>2. <<t, d>>[1] = t
    OBVIOUS
  <2>3. QED
    BY <1>1, <2>1, <2>2 DEF ManagerInv, Joins
<1>5. QED
  BY <1>2, <1>3, <1>4 DEF ManagerInv

(* Who does not run on its own thread, nor is wrapped, is current nowhere  *)
(* and hidden by nobody.                                                   *)
LEMMA WhoDoesNotRun ==
  ASSUME Apart, ManagerInv, NEW t \in Threads, kind[t] = "Thread", thread_[t] \in {Null, t},
         run[t] \notin {"loop", "idle", "postrun"}
  PROVE  /\ ~IsCurrent(t) /\ message_queues_[t] = 1
         /\ \A n \in Mains : ~OnStack(n, t)
         /\ \A u \in Threads : M!Exists(u) => old_thread_[u] # t
<1>1. \A n \in Mains : ~OnStack(n, t)
  BY DEF ManagerInv, Stacks, OnStack, Scoped
<1>2. message_queues_[t] = 1 /\ t # Null /\ \A n \in Mains : n # t /\ n # Null
  BY DEF Apart, ManagerInv, Started
<1>3. ASSUME NEW s \in M!SystemThreads, current[s] = t
      PROVE  FALSE
  <2>1. CASE s \in Threads
    BY <1>2, <1>3, <2>1 DEF ManagerInv, Started
  <2>2. CASE s \in Mains
    BY <1>1, <1>2, <1>3, <2>2 DEF ManagerInv, Currents
  <2>3. QED
    BY <2>1, <2>2 DEF M!SystemThreads
<1>4. ASSUME NEW u \in Threads, M!Exists(u), old_thread_[u] = t
      PROVE  FALSE
  <2>1. PICK n \in Mains : Hides(n, u, t)
    BY <1>2, <1>4, HiddenIs
  <2>2. QED
    BY <1>2, <2>1 DEF Hides
<1>5. QED
  BY <1>1, <1>2, <1>3, <1>4 DEF IsCurrent

LEMMA PreRunKeeps ==
  ASSUME Apart, ManagerInv, NEW t \in Threads, M!PreRun(t)
  PROVE  ManagerInv'
<1>1. /\ run[t] = "prerun" /\ run' = [run EXCEPT ![t] = "loop"]
      /\ M!Becomes(M!SetCurrentThread(M!Where, t, t))
      /\ UNCHANGED <<kind, thread_, old_thread_, message_queues_, stack, joining>>
  BY DEF M!PreRun, M!callVars
<1>2. /\ kind[t] = "Thread" /\ thread_[t] = t /\ current[t] = Null /\ t \in M!SystemThreads
  BY <1>1 DEF Apart, ManagerInv, Started, M!SystemThreads
<1>3. /\ ~IsCurrent(t) /\ message_queues_[t] = 1
      /\ \A u \in Threads : M!Exists(u) => old_thread_[u] # t
  BY <1>1, <1>2, WhoDoesNotRun
<1>4. Switches(t, t)
  BY <1>1, <1>2, <1>3, SetsSomebody
<1>5. /\ ManagerTyped'
      /\ \A r \in M!SystemThreads : current'[r] = IF r = t THEN t ELSE current[r]
      /\ \A u \in Threads : IsCurrent(u)' <=> (u = t \/ (IsCurrent(u) /\ u # current[t]))
      /\ OneIsCurrent'
  BY <1>1, <1>2, <1>3, <1>4, SwitchKeeps DEF ManagerInv, ManagerTyped
<1>6. /\ \A n \in Mains, u \in Threads : OnStack(n, u)' <=> OnStack(n, u)
      /\ \A n \in Mains, u, v \in Threads : Below(n, u, v)' <=> Below(n, u, v)
      /\ \A u \in Threads : M!Exists(u)' <=> M!Exists(u)
      /\ \A n \in Mains : n # t /\ n \in M!SystemThreads
      /\ \A u \in Threads : u \in M!SystemThreads /\ u # Null
  BY <1>1 DEF Apart, OnStack, Below, M!Exists, M!SystemThreads
<1>7. Currents'
  <2>1. \A s \in M!SystemThreads :
          current'[s] # Null => M!Exists(current[s])' /\ message_queues_'[current'[s]] = 1
    BY <1>1, <1>2, <1>3, <1>5, <1>6, CurrentIs DEF M!Exists
  <2>2. \A n \in Mains : current'[n] # Null =>
          \/ kind'[current'[n]] = "Thread" /\ thread_'[current'[n]] = n
          \/ kind'[current'[n]] \in Scoped /\ OnStack(n, current[n])'
    BY <1>1, <1>5, <1>6, CurrentIs DEF ManagerInv, Currents
  <2>3. QED
    BY <1>5, <2>1, <2>2 DEF Currents
<1>8. Started'
  BY <1>1, <1>2, <1>5, <1>6 DEF ManagerInv, ManagerTyped, Started
<1>9. Stacks' /\ Joins'
  BY <1>1 DEF ManagerInv, Stacks, EachOnStackOnce, Joins
<1>10. Hidings'
  <2>1. ASSUME NEW u \in Threads, M!Exists(u)', old_thread_'[u] # Null
        PROVE  \E n \in Mains : Hides(n, u, old_thread_[u])'
    <3>1. PICK n \in Mains : old_thread_[u] \in Threads /\ Hides(n, u, old_thread_[u])
      BY <1>1, <1>6, <2>1, HiddenIs
    <3>2. Hides(n, u, old_thread_[u])'
      BY <1>1, <1>3, <1>5, <1>6, <2>1, <3>1 DEF Hides
    <3>3. QED
      BY <3>2
  <2>2. QED
    BY <1>1, <1>6, <2>1 DEF ManagerInv, Hidings
<1>11. QED
  BY <1>5, <1>7, <1>8, <1>9, <1>10 DEF ManagerInv

(* A thread that runs goes on, waits or is about to end.                   *)
LEMMA RunKeeps ==
  ASSUME ManagerInv, NEW t \in Threads, NEW r \in {"loop", "idle", "postrun"},
         run[t] \in {"loop", "idle", "postrun"}, run' = [run EXCEPT ![t] = r],
         UNCHANGED <<current, taskQueue, registration, kind, thread_, old_thread_,
                     message_queues_, stack, joining>>
  PROVE  ManagerInv'
<1>1. ManagerTyped'
  BY DEF ManagerInv, ManagerTyped
<1>2. Currents' /\ Stacks' /\ Hidings' /\ Joins'
  BY DEF ManagerInv, Currents, OneIsCurrent, Stacks, EachOnStackOnce, Hidings, Hides,
         Joins, OnStack, Below, IsCurrent, M!Exists
<1>3. Started'
  BY DEF ManagerInv, ManagerTyped, Started
<1>4. QED
  BY <1>1, <1>2, <1>3 DEF ManagerInv

LEMMA NothingReadyKeeps ==
  ASSUME ManagerInv, NEW t \in Threads, M!NothingReady(t)
  PROVE  ManagerInv'
<1> DEFINE r == IF stop_[t] THEN "postrun" ELSE "idle"
<1>1. run[t] \in {"loop", "idle"} /\ run' = [run EXCEPT ![t] = r]
  BY DEF M!NothingReady
<1>2. r \in {"loop", "idle", "postrun"}
  OBVIOUS
<1> HIDE DEF r
<1>3. UNCHANGED <<current, taskQueue, registration, kind, thread_, old_thread_,
                  message_queues_, stack, joining>>
  BY DEF M!NothingReady, M!currentVars, M!callVars
<1>4. QED
  BY <1>1, <1>2, <1>3, RunKeeps

LEMMA HandsOutKeeps ==
  ASSUME ManagerInv, NEW t \in Threads, M!Dispatch(t)
  PROVE  ManagerInv'
<1>1. /\ run' = [run EXCEPT ![t] = IF @ = "idle" THEN "loop" ELSE @]
      /\ UNCHANGED <<current, taskQueue, registration, kind, thread_, old_thread_,
                     message_queues_, stack, joining>>
  BY DEF M!Dispatch, M!currentVars, M!callVars
<1>2. CASE run[t] = "idle"
  BY <1>1, <1>2, RunKeeps
<1>3. CASE run[t] # "idle"
  <2>1. run' = run
    BY <1>1, <1>3 DEF ManagerInv, ManagerTyped
  <2>2. QED
    BY <1>1, <2>1, QueuesKeep
<1>4. QED
  BY <1>2, <1>3

LEMMA EndRunKeeps ==
  ASSUME Apart, ManagerInv, NEW t \in Threads, M!EndRun(t)
  PROVE  ManagerInv'
<1>1. /\ run[t] = "postrun" /\ run' = [run EXCEPT ![t] = "ended"]
      /\ M!Becomes(M!SetCurrentThread(M!Where, t, Null))
      /\ UNCHANGED <<kind, thread_, old_thread_, message_queues_, stack, joining>>
  BY DEF M!EndRun, M!callVars
<1>2. t \in M!SystemThreads /\ current[t] = t
  BY <1>1 DEF ManagerInv, Started, M!SystemThreads
<1>3. Switches(t, Null)
  BY <1>1, <1>2, SetsNobody
<1>4. /\ ManagerTyped'
      /\ \A r \in M!SystemThreads : current'[r] = IF r = t THEN Null ELSE current[r]
      /\ \A u \in Threads : IsCurrent(u)' => IsCurrent(u)
      /\ OneIsCurrent'
  BY <1>1, <1>2, <1>3, SwitchKeeps DEF Apart, ManagerInv, ManagerTyped
<1>5. /\ \A n \in Mains, u \in Threads : OnStack(n, u)' <=> OnStack(n, u)
      /\ \A n \in Mains, u, v \in Threads : Below(n, u, v)' <=> Below(n, u, v)
      /\ \A u \in Threads : M!Exists(u)' <=> M!Exists(u)
      /\ \A n \in Mains : n # t /\ n \in M!SystemThreads
      /\ \A u \in Threads : u \in M!SystemThreads
  BY <1>1 DEF Apart, OnStack, Below, M!Exists, M!SystemThreads
<1>6. Currents'
  <2>1. \A s \in M!SystemThreads :
          current'[s] # Null => M!Exists(current[s])' /\ message_queues_'[current'[s]] = 1
    BY <1>1, <1>4, <1>5, CurrentIs DEF M!Exists
  <2>2. \A n \in Mains : current'[n] # Null =>
          \/ kind'[current'[n]] = "Thread" /\ thread_'[current'[n]] = n
          \/ kind'[current'[n]] \in Scoped /\ OnStack(n, current[n])'
    BY <1>1, <1>4, <1>5, CurrentIs DEF ManagerInv, Currents
  <2>3. QED
    BY <1>4, <2>1, <2>2 DEF Currents
<1>7. Started'
  BY <1>1, <1>4, <1>5 DEF ManagerInv, ManagerTyped, Started
<1>8. Stacks' /\ Joins'
  BY <1>1 DEF ManagerInv, Stacks, EachOnStackOnce, Joins
<1>9. Hidings'
  <2>1. ASSUME NEW u \in Threads, M!Exists(u)', old_thread_'[u] # Null
        PROVE  \E n \in Mains : Hides(n, u, old_thread_[u])'
    <3>1. PICK n \in Mains : old_thread_[u] \in Threads /\ Hides(n, u, old_thread_[u])
      BY <1>1, <1>5, <2>1, HiddenIs
    <3>2. Hides(n, u, old_thread_[u])'
      BY <1>1, <1>4, <1>5, <3>1 DEF Hides
    <3>3. QED
      BY <3>2
  <2>2. QED
    BY <1>1, <1>5, <2>1 DEF ManagerInv, Hidings
<1>10. QED
  BY <1>4, <1>6, <1>7, <1>8, <1>9 DEF ManagerInv

LEMMA JoinKeeps ==
  ASSUME Apart, ManagerInv, NEW m \in Mains, M!Join(m)
  PROVE  ManagerInv'
<1> DEFINE t == joining[m][1]
<1>1. /\ joining[m] # << >> /\ (thread_[t] = Null \/ run[t] = "ended")
      /\ thread_' = [thread_ EXCEPT ![t] = Null]
      /\ run' = [run EXCEPT ![t] = "off"]
      /\ joining' = [joining EXCEPT ![m] = << >>]
      /\ \/ /\ kind' = [kind EXCEPT ![t] = "deleted"]
            /\ message_queues_' = M!Unregistered(message_queues_, t)
         \/ UNCHANGED <<kind, message_queues_>>
      /\ UNCHANGED <<current, taskQueue, registration, old_thread_, stack>>
  BY DEF M!Join, M!Destroyed, M!currentVars
<1>2. t \in Threads /\ kind[t] = "Thread" /\ thread_[t] \in {Null, t}
  BY <1>1 DEF ManagerInv, Joins
<1>3. run[t] \notin {"loop", "idle", "postrun"} /\ current[t] = Null
  BY <1>1, <1>2 DEF Apart, ManagerInv, Started
<1>4. /\ ~IsCurrent(t) /\ message_queues_[t] = 1
      /\ \A n \in Mains : ~OnStack(n, t)
      /\ \A u \in Threads : M!Exists(u) => old_thread_[u] # t
  BY <1>2, <1>3, WhoDoesNotRun
<1> HIDE DEF t
<1>5. /\ \A u \in Threads : u # t => /\ kind'[u] = kind[u] /\ thread_'[u] = thread_[u]
                                        /\ run'[u] = run[u] /\ message_queues_'[u] = message_queues_[u]
      /\ thread_'[t] = Null /\ run'[t] = "off"
      /\ \/ kind'[t] = "deleted"
         \/ kind'[t] = "Thread" /\ message_queues_'[t] = 1
  BY <1>1, <1>2, <1>4 DEF ManagerInv, ManagerTyped, M!Unregistered
<1>6. ManagerTyped'
  <2>1. message_queues_' \in [Threads -> Nat]
    BY <1>1, <1>2 DEF ManagerInv, ManagerTyped, M!Unregistered
  <2>2. kind' \in [Threads -> {"none", "Thread", "deleted"} \cup Scoped]
    BY <1>1, <1>2 DEF ManagerInv, ManagerTyped
  <2>3. QED
    BY <1>1, <1>2, <2>1, <2>2 DEF ManagerInv, ManagerTyped
<1>7. /\ \A n \in Mains, u \in Threads : OnStack(n, u)' <=> OnStack(n, u)
      /\ \A n \in Mains, u, v \in Threads : Below(n, u, v)' <=> Below(n, u, v)
      /\ \A u \in Threads : IsCurrent(u)' <=> IsCurrent(u)
      /\ \A u \in Threads : M!Exists(u)' => M!Exists(u)
      /\ \A u \in Threads : u # t => (M!Exists(u)' <=> M!Exists(u))
      /\ \A n \in Mains : n \in M!SystemThreads
  BY <1>1, <1>2, <1>5 DEF OnStack, Below, IsCurrent, M!Exists, M!SystemThreads
<1>8. Currents'
  <2>1. \A s \in M!SystemThreads : current[s] # t
    BY <1>4 DEF IsCurrent
  <2>2. \A s \in M!SystemThreads :
          current'[s] # Null => M!Exists(current[s])' /\ message_queues_'[current'[s]] = 1
    BY <1>1, <1>5, <1>7, <2>1, CurrentIs
  <2>3. \A n \in Mains : current'[n] # Null =>
          \/ kind'[current'[n]] = "Thread" /\ thread_'[current'[n]] = n
          \/ kind'[current'[n]] \in Scoped /\ OnStack(n, current[n])'
    BY <1>1, <1>5, <1>7, <2>1, CurrentIs DEF ManagerInv, Currents
  <2>4. OneIsCurrent'
    BY <1>1, <1>7 DEF ManagerInv, Currents, OneIsCurrent
  <2>5. QED
    BY <2>2, <2>3, <2>4 DEF Currents
<1>9. Started'
  BY <1>1, <1>2, <1>3, <1>5 DEF Apart, ManagerInv, ManagerTyped, Started
<1>10. Stacks'
  <2>1. \A n \in Mains : \A i \in 1 .. Len(stack[n]) : stack[n][i] \in Threads /\ stack[n][i] # t
    BY <1>4 DEF ManagerInv, ManagerTyped, OnStack
  <2>2. QED
    BY <1>1, <1>5, <2>1 DEF ManagerInv, Stacks, EachOnStackOnce
<1>11. Hidings'
  <2>1. ASSUME NEW u \in Threads, M!Exists(u)', old_thread_'[u] # Null
        PROVE  \E n \in Mains : Hides(n, u, old_thread_[u])'
    <3>1. PICK n \in Mains : old_thread_[u] \in Threads /\ Hides(n, u, old_thread_[u])
      BY <1>1, <1>7, <2>1, HiddenIs
    <3>2. old_thread_[u] # t
      BY <1>4, <1>7, <2>1
    <3>3. Hides(n, u, old_thread_[u])'
      BY <1>1, <1>5, <1>7, <3>1, <3>2 DEF Hides
    <3>4. QED
      BY <3>3
  <2>2. QED
    BY <1>1, <1>7, <2>1 DEF ManagerInv, Hidings
<1>12. Joins'
  <2>1. \A n \in Mains : joining'[n] = IF n = m THEN << >> ELSE joining[n]
    BY <1>1 DEF ManagerInv, ManagerTyped
  <2>2. \A n \in Mains : n # m /\ joining[n] # << >> => joining[n][1] \in Threads /\ joining[n][1] # t
    BY <1>1 DEF t, ManagerInv, Joins
  <2>3. QED
    BY <1>5, <2>1, <2>2 DEF ManagerInv, Joins
<1>13. QED
  BY <1>6, <1>8, <1>9, <1>10, <1>11, <1>12 DEF ManagerInv

(* A thread that is not yet there is current nowhere, on no stack and      *)
(* hidden by nobody.                                                       *)
LEMMA WhoIsNotThere ==
  ASSUME Apart, ManagerInv, NEW t \in Threads, kind[t] = "none"
  PROVE  /\ ~IsCurrent(t) /\ message_queues_[t] = 0 /\ ~M!Exists(t)
         /\ thread_[t] = Null /\ run[t] = "off" /\ old_thread_[t] = Null
         /\ \A n \in Mains : ~OnStack(n, t)
         /\ \A u \in Threads : M!Exists(u) => old_thread_[u] # t
<1>1. \A n \in Mains : ~OnStack(n, t)
  BY DEF ManagerInv, Stacks, OnStack, Scoped
<1>2. /\ message_queues_[t] = 0 /\ ~M!Exists(t) /\ t # Null
      /\ thread_[t] = Null /\ run[t] = "off" /\ old_thread_[t] = Null
  BY DEF Apart, ManagerInv, ManagerTyped, Started, M!Exists
<1>3. ~IsCurrent(t)
  BY <1>2, CurrentIs DEF IsCurrent
<1>4. ASSUME NEW u \in Threads, M!Exists(u), old_thread_[u] = t
      PROVE  FALSE
  BY <1>2, <1>4, HiddenIs DEF Hides
<1>5. QED
  BY <1>1, <1>2, <1>3, <1>4

LEMMA WrapKeeps ==
  ASSUME Apart, ManagerInv, NEW m \in Mains, NEW t \in Threads, M!WrapCurrentThread(m, t)
  PROVE  ManagerInv'
<1>1. /\ current[m] = Null /\ kind[t] = "none"
      /\ kind' = [kind EXCEPT ![t] = "Thread"]
      /\ message_queues_' = [message_queues_ EXCEPT ![t] = @ + 1]
      /\ thread_' = [thread_ EXCEPT ![t] = m]
      /\ M!Becomes(M!SetCurrentThread(M!Where, m, t))
      /\ UNCHANGED <<old_thread_, run, stack, joining>>
  BY DEF M!WrapCurrentThread, M!Registered, M!callVars
<1>2. /\ ~IsCurrent(t) /\ message_queues_[t] = 0 /\ ~M!Exists(t)
      /\ thread_[t] = Null /\ run[t] = "off" /\ old_thread_[t] = Null
      /\ \A n \in Mains : ~OnStack(n, t)
      /\ \A u \in Threads : M!Exists(u) => old_thread_[u] # t
  BY <1>1, WhoIsNotThere
<1>3. /\ m \in M!SystemThreads /\ m # Null
      /\ \A u \in Threads : u \in M!SystemThreads /\ u # Null /\ u # m
      /\ \A n \in Mains : n \in M!SystemThreads
  BY DEF Apart, M!SystemThreads
<1>4. Switches(m, t)
  BY <1>1, <1>2, <1>3, SetsSomebody
<1>5. /\ \A r \in M!SystemThreads : current'[r] = IF r = m THEN t ELSE current[r]
      /\ \A u \in Threads : IsCurrent(u)' <=> (u = t \/ IsCurrent(u))
      /\ OneIsCurrent'
  BY <1>1, <1>2, <1>3, <1>4, SwitchKeeps
<1>6. ManagerTyped'
  <2>1. /\ current' \in [M!SystemThreads -> Threads \cup {Null}]
        /\ taskQueue' \in [M!SystemThreads -> Threads \cup {Null}]
        /\ registration' \in [Threads -> {<< >>, <<Null>>}]
    BY <1>2, <1>3, <1>4, SwitchKeeps
  <2>2. kind' \in [Threads -> {"none", "Thread", "deleted"} \cup Scoped]
    BY <1>1 DEF ManagerInv, ManagerTyped
  <2>3. message_queues_' \in [Threads -> Nat]
    BY <1>1 DEF ManagerInv, ManagerTyped
  <2>4. thread_' \in [Threads -> M!SystemThreads \cup {Null}]
    BY <1>1, <1>3 DEF ManagerInv, ManagerTyped
  <2>5. QED
    BY <1>1, <2>1, <2>2, <2>3, <2>4 DEF ManagerInv, ManagerTyped
<1>7. /\ \A u \in Threads : u # t => /\ kind'[u] = kind[u] /\ thread_'[u] = thread_[u]
                                        /\ message_queues_'[u] = message_queues_[u]
      /\ kind'[t] = "Thread" /\ thread_'[t] = m /\ message_queues_'[t] = 1
  BY <1>1, <1>2 DEF ManagerInv, ManagerTyped
<1>8. /\ \A n \in Mains, u \in Threads : OnStack(n, u)' <=> OnStack(n, u)
      /\ \A n \in Mains, u, v \in Threads : Below(n, u, v)' <=> Below(n, u, v)
      /\ \A u \in Threads : M!Exists(u) => M!Exists(u)'
      /\ \A u \in Threads : u # t => (M!Exists(u)' <=> M!Exists(u))
      /\ M!Exists(t)'
  BY <1>1, <1>2, <1>7 DEF OnStack, Below, M!Exists
<1>9. Currents'
  <2>1. \A s \in M!SystemThreads : s # m /\ current'[s] # Null =>
          current'[s] = current[s] /\ current[s] \in Threads /\ current[s] # t
    BY <1>2, <1>5, CurrentIs
  <2>2. \A s \in M!SystemThreads :
          current'[s] # Null => M!Exists(current[s])' /\ message_queues_'[current'[s]] = 1
    BY <1>3, <1>5, <1>7, <1>8, <2>1, CurrentIs DEF M!Exists
  <2>3. \A n \in Mains : current'[n] # Null =>
          \/ kind'[current'[n]] = "Thread" /\ thread_'[current'[n]] = n
          \/ kind'[current'[n]] \in Scoped /\ OnStack(n, current[n])'
    <3>1. current'[m] = t
      BY <1>3, <1>5
    <3>2. ASSUME NEW n \in Mains, n # m, current'[n] # Null
          PROVE  \/ kind'[current'[n]] = "Thread" /\ thread_'[current'[n]] = n
                 \/ kind'[current'[n]] \in Scoped /\ OnStack(n, current[n])'
      <4>1. /\ current'[n] = current[n] /\ current[n] \in Threads /\ current[n] # t
            /\ kind'[current'[n]] = kind[current[n]] /\ thread_'[current'[n]] = thread_[current[n]]
            /\ OnStack(n, current[n])' <=> OnStack(n, current[n])
        BY <1>3, <1>7, <1>1, <2>1, <3>2 DEF OnStack
      <4>2. QED
        BY <3>2, <4>1 DEF ManagerInv, Currents
    <3>3. QED
      BY <1>7, <3>1, <3>2
  <2>4. QED
    BY <1>5, <2>2, <2>3 DEF Currents
<1>10. Started'
  BY <1>1, <1>2, <1>3, <1>5, <1>7 DEF ManagerInv, ManagerTyped, Started
<1>11. Stacks' /\ Joins'
  <2>1. Stacks'
    BY <1>1, <1>7 DEF ManagerInv, ManagerTyped, Stacks, EachOnStackOnce, Scoped
  <2>2. Joins'
    BY <1>1, <1>7 DEF ManagerInv, Joins
  <2>3. QED
    BY <2>1, <2>2
<1>12. Hidings'
  <2>1. ASSUME NEW u \in Threads, M!Exists(u)', old_thread_'[u] # Null
        PROVE  u # t /\ M!Exists(u) /\ \E n \in Mains : Hides(n, u, old_thread_[u])'
    <3>1. u # t /\ M!Exists(u) /\ old_thread_[u] # Null
      BY <1>1, <1>2, <1>8, <2>1
    <3>2. PICK n \in Mains : old_thread_[u] \in Threads /\ Hides(n, u, old_thread_[u])
      BY <3>1, HiddenIs
    <3>3. old_thread_[u] # t
      BY <1>2, <3>1
    <3>4. Hides(n, u, old_thread_[u])'
      BY <1>1, <1>5, <1>7, <1>8, <3>2, <3>3 DEF Hides
    <3>5. QED
      BY <3>1, <3>4
  <2>2. QED
    BY <1>1, <2>1 DEF ManagerInv, Hidings
<1>13. QED
  BY <1>6, <1>9, <1>10, <1>11, <1>12 DEF ManagerInv

LEMMA UnwrapKeeps ==
  ASSUME Apart, ManagerInv, NEW m \in Mains, M!UnwrapCurrentThread(m)
  PROVE  ManagerInv'
<1> DEFINE t == current[m]
<1>1. /\ t # Null /\ kind[t] = "Thread"
      /\ M!Becomes(M!SetCurrentThread(M!Where, m, Null))
      /\ thread_' = [thread_ EXCEPT ![t] = Null]
      /\ kind' = [kind EXCEPT ![t] = "deleted"]
      /\ message_queues_' = M!Unregistered(message_queues_, t)
      /\ UNCHANGED <<old_thread_, run, stack, joining>>
  BY DEF M!UnwrapCurrentThread, M!Destroyed, M!callVars
<1>2. /\ m \in M!SystemThreads /\ m # Null
      /\ \A u \in Threads : u \in M!SystemThreads /\ u # Null /\ u # m
      /\ \A n \in Mains : n \in M!SystemThreads
  BY DEF Apart, M!SystemThreads
<1>3. t \in Threads /\ IsCurrent(t)
  BY <1>1, <1>2, CurrentIs
<1>4. thread_[t] = m /\ \A n \in Mains : ~OnStack(n, t)
  BY <1>1 DEF ManagerInv, Currents, Stacks, Scoped, OnStack
<1>5. Switches(m, Null)
  BY <1>1, <1>2, SetsNobody
<1>6. /\ \A r \in M!SystemThreads : current'[r] = IF r = m THEN Null ELSE current[r]
      /\ \A u \in Threads : IsCurrent(u)' <=> (IsCurrent(u) /\ u # t)
      /\ OneIsCurrent'
  BY <1>2, <1>5, SwitchKeeps
<1>7. \A s \in M!SystemThreads : s # m => current[s] # t
  BY <1>1, <1>2 DEF ManagerInv, Currents, OneIsCurrent
<1>8. /\ current' \in [M!SystemThreads -> Threads \cup {Null}]
      /\ taskQueue' \in [M!SystemThreads -> Threads \cup {Null}]
      /\ registration' \in [Threads -> {<< >>, <<Null>>}]
  BY <1>2, <1>5, SwitchKeeps
<1> HIDE DEF t
<1>9. ManagerTyped'
  <2>1. kind' \in [Threads -> {"none", "Thread", "deleted"} \cup Scoped]
    BY <1>1 DEF ManagerInv, ManagerTyped
  <2>2. message_queues_' \in [Threads -> Nat]
    BY <1>1, UnregisteredTyped DEF ManagerInv, ManagerTyped
  <2>3. thread_' \in [Threads -> M!SystemThreads \cup {Null}]
    BY <1>1 DEF ManagerInv, ManagerTyped
  <2>4. QED
    BY <1>1, <1>8, <2>1, <2>2, <2>3 DEF ManagerInv, ManagerTyped
<1>10. /\ \A u \in Threads : u # t => /\ kind'[u] = kind[u] /\ thread_'[u] = thread_[u]
                                         /\ message_queues_'[u] = message_queues_[u]
       /\ kind'[t] = "deleted" /\ thread_'[t] = Null
  BY <1>1, <1>3 DEF ManagerInv, ManagerTyped, M!Unregistered
<1>11. /\ \A n \in Mains, u \in Threads : OnStack(n, u)' <=> OnStack(n, u)
       /\ \A n \in Mains, u, v \in Threads : Below(n, u, v)' <=> Below(n, u, v)
       /\ \A u \in Threads : M!Exists(u)' <=> (M!Exists(u) /\ u # t)
  BY <1>1, <1>3, <1>10 DEF OnStack, Below, M!Exists
<1>12. Currents'
  <2>1. \A s \in M!SystemThreads : current'[s] # Null =>
          s # m /\ current'[s] = current[s] /\ current[s] \in Threads /\ current[s] # t
    BY <1>6, <1>7, CurrentIs
  <2>2. \A s \in M!SystemThreads :
          current'[s] # Null => M!Exists(current[s])' /\ message_queues_'[current'[s]] = 1
    BY <1>10, <2>1, CurrentIs DEF M!Exists
  <2>3. \A n \in Mains : current'[n] # Null =>
          \/ kind'[current'[n]] = "Thread" /\ thread_'[current'[n]] = n
          \/ kind'[current'[n]] \in Scoped /\ OnStack(n, current[n])'
    <3>1. ASSUME NEW n \in Mains, current'[n] # Null
          PROVE  \/ kind'[current'[n]] = "Thread" /\ thread_'[current'[n]] = n
                 \/ kind'[current'[n]] \in Scoped /\ OnStack(n, current[n])'
      <4>1. /\ current'[n] = current[n] /\ current[n] \in Threads /\ current[n] # t
            /\ kind'[current'[n]] = kind[current[n]] /\ thread_'[current'[n]] = thread_[current[n]]
            /\ OnStack(n, current[n])' <=> OnStack(n, current[n])
        BY <1>2, <1>10, <1>1, <2>1, <3>1 DEF OnStack
      <4>2. QED
        BY <3>1, <4>1 DEF ManagerInv, Currents
    <3>2. QED
      BY <3>1
  <2>4. QED
    BY <1>6, <2>2, <2>3 DEF Currents
<1>13. Started'
  BY <1>1, <1>2, <1>3, <1>4, <1>6, <1>10 DEF ManagerInv, ManagerTyped, Started
<1>14. Stacks'
  <2>1. \A n \in Mains : \A i \in 1 .. Len(stack[n]) : stack[n][i] \in Threads /\ stack[n][i] # t
    BY <1>4 DEF ManagerInv, ManagerTyped, OnStack
  <2>2. QED
    BY <1>1, <1>10, <2>1 DEF ManagerInv, Stacks, EachOnStackOnce
<1>15. Hidings'
  <2>1. ASSUME NEW u \in Threads, M!Exists(u)', old_thread_'[u] # Null
        PROVE  \E n \in Mains : Hides(n, u, old_thread_[u])'
    <3>1. PICK n \in Mains : old_thread_[u] \in Threads /\ Hides(n, u, old_thread_[u])
      BY <1>1, <1>11, <2>1, HiddenIs
    <3>2. old_thread_[u] # t
      BY <1>3, <3>1 DEF Hides
    <3>3. Hides(n, u, old_thread_[u])'
      BY <1>1, <1>6, <1>10, <1>11, <2>1, <3>1, <3>2 DEF Hides
    <3>4. QED
      BY <3>3
  <2>2. QED
    BY <1>1, <1>11, <2>1 DEF ManagerInv, Hidings
<1>16. Joins'
  <2>1. \A n \in Mains : joining[n] # << >> => joining[n][1] # t
    BY <1>2, <1>3, <1>4 DEF ManagerInv, Joins
  <2>2. QED
    BY <1>1, <1>10, <2>1 DEF ManagerInv, Joins
<1>17. QED
  BY <1>9, <1>12, <1>13, <1>14, <1>15, <1>16 DEF ManagerInv

(* What comes on top of a stack, and what goes from there.                 *)
LEMMA PushKeeps ==
  ASSUME ManagerInv, NEW m \in Mains, NEW t \in Threads, \A n \in Mains : ~OnStack(n, t),
         stack' = [stack EXCEPT ![m] = Append(@, t)]
  PROVE  /\ stack' \in [Mains -> Seq(Threads)] /\ EachOnStackOnce'
         /\ \A n \in Mains : \A u : OnStack(n, u)' <=> (OnStack(n, u) \/ (n = m /\ u = t))
         /\ \A n \in Mains : \A o, u : Below(n, o, u) => Below(n, o, u)'
         /\ \A o : OnStack(m, o) => Below(m, o, t)'
<1>1. /\ stack \in [Mains -> Seq(Threads)] /\ stack[m] \in Seq(Threads)
      /\ \A n \in Mains : Len(stack[n]) \in Nat
  BY DEF ManagerInv, ManagerTyped
<1>2. /\ Append(stack[m], t) \in Seq(Threads)
      /\ Len(Append(stack[m], t)) = Len(stack[m]) + 1
      /\ \A i \in 1 .. Len(stack[m]) : Append(stack[m], t)[i] = stack[m][i]
      /\ Append(stack[m], t)[Len(stack[m]) + 1] = t
  BY <1>1, AppendProperties
<1>3. /\ stack' \in [Mains -> Seq(Threads)]
      /\ \A n \in Mains : n # m => stack'[n] = stack[n]
      /\ Len(stack'[m]) = Len(stack[m]) + 1
      /\ \A i \in 1 .. Len(stack[m]) : stack'[m][i] = stack[m][i]
      /\ stack'[m][Len(stack[m]) + 1] = t
  BY <1>1, <1>2
<1>4. \A n \in Mains : \A i \in 1 .. Len(stack[n]) : i \in 1 .. Len(stack'[n]) /\ stack'[n][i] = stack[n][i]
  BY <1>1, <1>3
<1>5. \A n \in Mains : \A i \in 1 .. Len(stack'[n]) :
        i \in 1 .. Len(stack[n]) \/ (n = m /\ i = Len(stack[m]) + 1)
  BY <1>1, <1>3
<1>6. Len(stack[m]) + 1 \in 1 .. Len(stack'[m])
  BY <1>1, <1>3
<1>7. \A n \in Mains : \A u : OnStack(n, u)' <=> (OnStack(n, u) \/ (n = m /\ u = t))
  BY <1>3, <1>4, <1>5, <1>6 DEF OnStack
<1>8. \A n \in Mains : \A o, u : Below(n, o, u) => Below(n, o, u)'
  BY <1>4 DEF Below
<1>9. \A o : OnStack(m, o) => Below(m, o, t)'
  <2>1. ASSUME NEW i \in 1 .. Len(stack[m]) PROVE i < Len(stack[m]) + 1
    BY <1>1
  <2>2. QED
    BY <1>3, <1>4, <1>6, <2>1 DEF OnStack, Below
<1>10. EachOnStackOnce'
  <2>1. ASSUME NEW n \in Mains, NEW k \in Mains,
               NEW i \in 1 .. Len(stack'[n]), NEW j \in 1 .. Len(stack'[k]), stack'[n][i] = stack'[k][j]
        PROVE  n = k /\ i = j
    <3>1. \A l \in Mains : \A h \in 1 .. Len(stack[l]) : stack[l][h] # t
      BY DEF OnStack
    <3>2. CASE i \in 1 .. Len(stack[n]) /\ j \in 1 .. Len(stack[k])
      BY <1>4, <2>1, <3>2 DEF ManagerInv, Stacks, EachOnStackOnce
    <3>3. CASE i \in 1 .. Len(stack[n]) /\ k = m /\ j = Len(stack[m]) + 1
      BY <1>3, <1>4, <2>1, <3>1, <3>3
    <3>4. CASE j \in 1 .. Len(stack[k]) /\ n = m /\ i = Len(stack[m]) + 1
      BY <1>3, <1>4, <2>1, <3>1, <3>4
    <3>5. CASE n = m /\ i = Len(stack[m]) + 1 /\ k = m /\ j = Len(stack[m]) + 1
      BY <3>5
    <3>6. QED
      BY <1>5, <3>2, <3>3, <3>4, <3>5
  <2>2. QED
    BY <2>1 DEF EachOnStackOnce
<1>11. QED
  BY <1>3, <1>7, <1>8, <1>9, <1>10

LEMMA PopKeeps ==
  ASSUME ManagerInv, NEW m \in Mains, stack[m] # << >>, NEW t, t = M!Last(stack[m]),
         stack' = [stack EXCEPT ![m] = M!Front(@)]
  PROVE  /\ stack' \in [Mains -> Seq(Threads)] /\ EachOnStackOnce' /\ t \in Threads
         /\ OnStack(m, t)
         /\ \A n \in Mains : \A u : OnStack(n, u)' <=> (OnStack(n, u) /\ u # t)
         /\ \A n \in Mains : \A o, u : Below(n, o, u) => o # t
         /\ \A n \in Mains : \A o, u : Below(n, o, u) /\ u # t => Below(n, o, u)'
<1>1. /\ stack \in [Mains -> Seq(Threads)] /\ stack[m] \in Seq(Threads)
      /\ \A n \in Mains : Len(stack[n]) \in Nat
  BY DEF ManagerInv, ManagerTyped
<1>2. Len(stack[m]) >= 1
  BY <1>1, EmptySeq
<1> DEFINE l == Len(stack[m]) - 1
<1>3. l \in Nat /\ l \in Int /\ l + 1 = Len(stack[m])
  BY <1>1, <1>2
<1>4. t = stack[m][l + 1] /\ M!Front(stack[m]) = SubSeq(stack[m], 1, l)
  BY <1>1, <1>3 DEF M!Last, M!Front
<1> HIDE DEF l
<1>5. /\ SubSeq(stack[m], 1, l) \in Seq(Threads)
      /\ Len(SubSeq(stack[m], 1, l)) = l
      /\ \A i \in 1 .. l : SubSeq(stack[m], 1, l)[i] = stack[m][i]
  <2> DEFINE f == SubSeq(stack[m], 1, l)
  <2>1. \A i \in 1 .. l : stack[m][i] \in Threads
    BY <1>1, <1>3, ElementOfSeq
  <2>2. /\ f \in Seq(Threads) /\ Len(f) = IF 1 <= l THEN l - 1 + 1 ELSE 0
        /\ \A i \in 1 .. l - 1 + 1 : f[i] = stack[m][1 + i - 1]
    BY <1>3, <2>1, SubSeqProperties
  <2> HIDE DEF f
  <2>3. Len(f) = l /\ l - 1 + 1 = l /\ \A i \in 1 .. l : 1 + i - 1 = i
    BY <1>3, <2>2
  <2>4. f \in Seq(Threads) /\ Len(f) = l /\ \A i \in 1 .. l : f[i] = stack[m][i]
    BY <2>2, <2>3
  <2>5. QED
    BY <2>4 DEF f
<1>6. /\ stack' \in [Mains -> Seq(Threads)]
      /\ \A n \in Mains : n # m => stack'[n] = stack[n]
      /\ Len(stack'[m]) = l
      /\ \A i \in 1 .. l : stack'[m][i] = stack[m][i]
  BY <1>1, <1>4, <1>5
<1>7. /\ l + 1 \in 1 .. Len(stack[m])
      /\ \A i \in 1 .. Len(stack[m]) : i \in 1 .. l \/ i = l + 1
      /\ \A i \in 1 .. l : i \in 1 .. Len(stack[m]) /\ i # l + 1
  BY <1>1, <1>3
<1>8. t \in Threads /\ OnStack(m, t)
  <2>1. stack[m][l + 1] \in Threads
    BY <1>1, <1>7, ElementOfSeq
  <2>2. QED
    BY <1>4, <1>7, <2>1 DEF OnStack
<1>9. \A n \in Mains : \A i \in 1 .. Len(stack'[n]) : i \in 1 .. Len(stack[n]) /\ stack'[n][i] = stack[n][i]
  BY <1>6, <1>7
<1>10. \A n \in Mains : \A i \in 1 .. Len(stack[n]) : stack[n][i] # t <=> i \in 1 .. Len(stack'[n])
  BY <1>4, <1>6, <1>7 DEF ManagerInv, Stacks, EachOnStackOnce
<1>11. \A n \in Mains : \A u : OnStack(n, u)' <=> (OnStack(n, u) /\ u # t)
  BY <1>9, <1>10 DEF OnStack
<1>12. \A n \in Mains : \A i \in 1 .. Len(stack[n]) : stack[n][i] = t => n = m /\ i = l + 1
  BY <1>4, <1>7 DEF ManagerInv, Stacks, EachOnStackOnce
<1>13. \A i \in 1 .. Len(stack[m]) : ~(l + 1 < i)
  BY <1>1, <1>3
<1>14. \A n \in Mains : \A o, u : Below(n, o, u) => o # t
  BY <1>12, <1>13 DEF Below
<1>15. \A n \in Mains : \A o, u : Below(n, o, u) /\ u # t => Below(n, o, u)'
  <2>1. ASSUME NEW n \in Mains, NEW o, NEW u, Below(n, o, u), u # t
        PROVE  Below(n, o, u)'
    <3>1. PICK i, j \in 1 .. Len(stack[n]) : i < j /\ stack[n][i] = o /\ stack[n][j] = u
      BY <2>1 DEF Below
    <3>2. i \in 1 .. Len(stack'[n]) /\ j \in 1 .. Len(stack'[n])
      BY <1>10, <1>14, <2>1, <3>1
    <3>3. stack'[n][i] = o /\ stack'[n][j] = u
      BY <1>9, <3>1, <3>2
    <3>4. QED
      BY <3>1, <3>2, <3>3 DEF Below
  <2>2. QED
    BY <2>1
<1>16. EachOnStackOnce'
  BY <1>9 DEF ManagerInv, Stacks, EachOnStackOnce
<1>17. QED
  BY <1>6, <1>8, <1>11, <1>14, <1>15, <1>16

LEMMA AutoThreadKeeps ==
  ASSUME Apart, ManagerInv, NEW m \in Mains, NEW t \in Threads, M!AutoThread(m, t)
  PROVE  ManagerInv'
<1>1. /\ kind[t] = "none"
      /\ kind' = [kind EXCEPT ![t] = "AutoThread"]
      /\ stack' = [stack EXCEPT ![m] = Append(@, t)]
      /\ \/ /\ current[m] = Null
            /\ message_queues_' = [message_queues_ EXCEPT ![t] = @ + 1]
            /\ M!Becomes(M!SetCurrentThread(M!Where, m, t))
         \/ /\ current[m] # Null
            /\ UNCHANGED <<message_queues_, current, taskQueue, registration>>
      /\ UNCHANGED <<thread_, old_thread_, run, joining>>
  BY DEF M!AutoThread, M!Registered, M!currentVars
<1>2. /\ ~IsCurrent(t) /\ message_queues_[t] = 0 /\ ~M!Exists(t)
      /\ thread_[t] = Null /\ run[t] = "off" /\ old_thread_[t] = Null
      /\ \A n \in Mains : ~OnStack(n, t)
      /\ \A u \in Threads : M!Exists(u) => old_thread_[u] # t
  BY <1>1, WhoIsNotThere
<1>3. /\ m \in M!SystemThreads /\ m # Null
      /\ \A u \in Threads : u \in M!SystemThreads /\ u # Null /\ u # m
      /\ \A n \in Mains : n \in M!SystemThreads
  BY DEF Apart, M!SystemThreads
<1>4. /\ stack' \in [Mains -> Seq(Threads)] /\ EachOnStackOnce'
      /\ \A n \in Mains : \A u : OnStack(n, u)' <=> (OnStack(n, u) \/ (n = m /\ u = t))
      /\ \A n \in Mains : \A o, u : Below(n, o, u) => Below(n, o, u)'
  BY <1>1, <1>2, PushKeeps
<1>5. /\ current' \in [M!SystemThreads -> Threads \cup {Null}]
      /\ taskQueue' \in [M!SystemThreads -> Threads \cup {Null}]
      /\ registration' \in [Threads -> {<< >>, <<Null>>}]
      /\ \A r \in M!SystemThreads : current'[r] # Null =>
           current'[r] = current[r] \/ (r = m /\ current'[r] = t /\ message_queues_'[t] = 1)
      /\ \A r \in M!SystemThreads : r # m => current'[r] = current[r]
      /\ \A u \in Threads : u # t => (IsCurrent(u)' <=> IsCurrent(u))
      /\ OneIsCurrent'
  <2>1. CASE /\ current[m] = Null
             /\ message_queues_' = [message_queues_ EXCEPT ![t] = @ + 1]
             /\ M!Becomes(M!SetCurrentThread(M!Where, m, t))
    <3>1. Switches(m, t)
      BY <1>2, <1>3, <2>1, SetsSomebody
    <3>2. /\ current' \in [M!SystemThreads -> Threads \cup {Null}]
          /\ taskQueue' \in [M!SystemThreads -> Threads \cup {Null}]
          /\ registration' \in [Threads -> {<< >>, <<Null>>}]
          /\ \A r \in M!SystemThreads : current'[r] = IF r = m THEN t ELSE current[r]
          /\ \A u \in Threads : IsCurrent(u)' <=> (u = t \/ (IsCurrent(u) /\ u # current[m]))
          /\ OneIsCurrent'
      BY <1>2, <1>3, <3>1, SwitchKeeps
    <3>3. message_queues_'[t] = 1
      BY <1>2, <2>1 DEF ManagerInv, ManagerTyped
    <3>4. QED
      BY <1>3, <2>1, <3>2, <3>3
  <2>2. CASE UNCHANGED <<message_queues_, current, taskQueue, registration>>
    BY <2>2 DEF ManagerInv, ManagerTyped, Currents, OneIsCurrent, IsCurrent
  <2>3. QED
    BY <1>1, <2>1, <2>2
<1>6. /\ message_queues_' \in [Threads -> Nat]
      /\ \A u \in Threads : u # t => kind'[u] = kind[u] /\ message_queues_'[u] = message_queues_[u]
      /\ kind'[t] = "AutoThread"
  <2>1. /\ message_queues_' \in [Threads -> Nat]
        /\ \A u \in Threads : u # t => message_queues_'[u] = message_queues_[u]
    <3>1. CASE message_queues_' = [message_queues_ EXCEPT ![t] = @ + 1]
      BY <3>1 DEF ManagerInv, ManagerTyped
    <3>2. CASE message_queues_' = message_queues_
      BY <3>2 DEF ManagerInv, ManagerTyped
    <3>3. QED
      BY <1>1, <3>1, <3>2
  <2>2. QED
    BY <1>1, <2>1 DEF ManagerInv, ManagerTyped
<1>7. ManagerTyped'
  <2>1. kind' \in [Threads -> {"none", "Thread", "deleted"} \cup Scoped]
    BY <1>1 DEF ManagerInv, ManagerTyped, Scoped
  <2>2. QED
    BY <1>1, <1>4, <1>5, <1>6, <2>1 DEF ManagerInv, ManagerTyped
<1>8. /\ \A u \in Threads : u # t => (M!Exists(u)' <=> M!Exists(u))
      /\ M!Exists(t)'
  BY <1>6 DEF M!Exists
<1>9. Currents'
  <2>1. ASSUME NEW s \in M!SystemThreads, current'[s] # Null
        PROVE  M!Exists(current[s])' /\ message_queues_'[current'[s]] = 1
    <3>1. CASE current'[s] = current[s]
      <4>1. current[s] \in Threads /\ current[s] # t
        BY <1>2, <2>1, <3>1, CurrentIs DEF IsCurrent
      <4>2. QED
        BY <1>6, <2>1, <3>1, <4>1, CurrentIs DEF M!Exists
    <3>2. CASE current'[s] = t /\ message_queues_'[t] = 1
      BY <1>6, <3>2 DEF M!Exists
    <3>3. QED
      BY <1>5, <2>1, <3>1, <3>2
  <2>2. ASSUME NEW n \in Mains, current'[n] # Null
        PROVE  \/ kind'[current'[n]] = "Thread" /\ thread_'[current'[n]] = n
               \/ kind'[current'[n]] \in Scoped /\ OnStack(n, current[n])'
    <3>1. CASE current'[n] = current[n]
      <4>1. current[n] \in Threads /\ current[n] # t
        BY <1>2, <1>3, <2>2, <3>1, CurrentIs DEF IsCurrent
      <4>2. kind'[current'[n]] = kind[current[n]] /\ thread_'[current'[n]] = thread_[current[n]]
        BY <1>1, <1>6, <3>1, <4>1
      <4>3. OnStack(n, current[n]) => OnStack(n, current[n])'
        <5>1. \A u : OnStack(n, u) => OnStack(n, u)'
          BY <1>4
        <5>2. QED
          BY <3>1, <5>1 DEF OnStack
      <4>4. QED
        BY <2>2, <3>1, <4>2, <4>3 DEF ManagerInv, Currents
    <3>2. CASE n = m /\ current'[n] = t
      <4>1. OnStack(m, t)'
        BY <1>4
      <4>2. QED
        BY <1>6, <3>2, <4>1 DEF Scoped, OnStack
    <3>3. QED
      BY <1>3, <1>5, <2>2, <3>1, <3>2
  <2>3. QED
    BY <1>5, <2>1, <2>2 DEF Currents
<1>10. Started'
  BY <1>1, <1>2, <1>3, <1>5, <1>6 DEF ManagerInv, ManagerTyped, Started
<1>11. Stacks'
  <2>1. ASSUME NEW n \in Mains, NEW i \in 1 .. Len(stack'[n])
        PROVE  kind'[stack'[n][i]] \in Scoped
    <3>1. OnStack(n, stack[n][i])'
      BY <2>1 DEF OnStack
    <3>2. OnStack(n, stack'[n][i]) \/ stack'[n][i] = t
      BY <1>4, <3>1 DEF OnStack
    <3>3. OnStack(n, stack'[n][i]) => stack'[n][i] \in Threads /\ kind[stack'[n][i]] \in Scoped
      BY DEF ManagerInv, ManagerTyped, Stacks, OnStack
    <3>4. QED
      BY <1>6, <3>2, <3>3 DEF Scoped
  <2>2. QED
    BY <1>4, <2>1 DEF Stacks
<1>12. Hidings'
  <2>1. ASSUME NEW u \in Threads, M!Exists(u)', old_thread_'[u] # Null
        PROVE  u # t /\ M!Exists(u) /\ \E n \in Mains : Hides(n, u, old_thread_[u])'
    <3>1. u # t /\ M!Exists(u) /\ old_thread_[u] # Null
      BY <1>1, <1>2, <1>8, <2>1
    <3>2. PICK n \in Mains : old_thread_[u] \in Threads /\ Hides(n, u, old_thread_[u])
      BY <3>1, HiddenIs
    <3>3. old_thread_[u] # t
      BY <1>2, <3>1
    <3>4. \A o : Hides(n, u, o) /\ o \in Threads /\ o # t => Hides(n, u, o)'
      BY <1>1, <1>4, <1>5, <1>6, <1>8 DEF Hides
    <3>5. QED
      BY <1>1, <3>1, <3>2, <3>3, <3>4
  <2>2. QED
    BY <1>1, <2>1 DEF ManagerInv, Hidings
<1>13. Joins'
  BY <1>1, <1>6 DEF ManagerInv, Joins
<1>14. QED
  BY <1>7, <1>9, <1>10, <1>11, <1>12, <1>13 DEF ManagerInv

LEMMA AutoSocketServerThreadKeeps ==
  ASSUME Apart, ManagerInv, NEW m \in Mains, NEW t \in Threads, M!AutoSocketServerThread(m, t)
  PROVE  ManagerInv'
<1> DEFINE old == current[m]
           added == M!Registered(message_queues_, t)
<1>1. /\ kind[t] = "none"
      /\ kind' = [kind EXCEPT ![t] = "AutoSocketServerThread"]
      /\ stack' = [stack EXCEPT ![m] = Append(@, t)]
      /\ old_thread_' = [old_thread_ EXCEPT ![t] = old]
      /\ M!Becomes(M!Replace(m, t))
      /\ message_queues_' = IF old = Null THEN added ELSE M!Unregistered(added, old)
      /\ UNCHANGED <<thread_, run, joining>>
  BY DEF M!AutoSocketServerThread
<1>2. /\ ~IsCurrent(t) /\ message_queues_[t] = 0 /\ ~M!Exists(t)
      /\ thread_[t] = Null /\ run[t] = "off" /\ old_thread_[t] = Null
      /\ \A n \in Mains : ~OnStack(n, t)
      /\ \A u \in Threads : M!Exists(u) => old_thread_[u] # t
  BY <1>1, WhoIsNotThere
<1>3. /\ m \in M!SystemThreads /\ m # Null
      /\ \A u \in Threads : u \in M!SystemThreads /\ u # Null /\ u # m
      /\ \A n \in Mains : n \in M!SystemThreads
  BY DEF Apart, M!SystemThreads
<1>4. /\ stack' \in [Mains -> Seq(Threads)] /\ EachOnStackOnce'
      /\ \A n \in Mains : \A u : OnStack(n, u)' <=> (OnStack(n, u) \/ (n = m /\ u = t))
      /\ \A n \in Mains : \A o, u : Below(n, o, u) => Below(n, o, u)'
      /\ \A o : OnStack(m, o) => Below(m, o, t)'
  BY <1>1, <1>2, PushKeeps
<1>5. /\ current' \in [M!SystemThreads -> Threads \cup {Null}]
      /\ taskQueue' \in [M!SystemThreads -> Threads \cup {Null}]
      /\ registration' \in [Threads -> {<< >>, <<Null>>}]
      /\ \A r \in M!SystemThreads : current'[r] = IF r = m THEN t ELSE current[r]
      /\ \A u \in Threads : IsCurrent(u)' <=> (u = t \/ (IsCurrent(u) /\ u # old))
      /\ OneIsCurrent'
  <2>1. Switches(m, t)
    BY <1>1, <1>2, <1>3, ReplacesCurrent
  <2>2. QED
    BY <1>2, <1>3, <2>1, SwitchKeeps
<1>6. /\ old \in Threads \cup {Null} /\ old # t
      /\ old # Null => /\ old \in Threads /\ M!Exists(old) /\ message_queues_[old] = 1 /\ IsCurrent(old)
                       /\ \/ kind[old] = "Thread" /\ thread_[old] = m
                          \/ kind[old] \in Scoped /\ OnStack(m, old)
  <2>1. old # Null => /\ old \in Threads /\ M!Exists(old) /\ message_queues_[old] = 1 /\ IsCurrent(old)
    BY <1>3, CurrentIs
  <2>2. QED
    BY <1>2, <1>3, <2>1 DEF ManagerInv, Currents
<1>7. \A s \in M!SystemThreads : s # m /\ current[s] # Null => current[s] # old
  BY <1>3 DEF ManagerInv, Currents, OneIsCurrent
<1> HIDE DEF old
<1>8. /\ message_queues_' \in [Threads -> Nat]
      /\ message_queues_'[t] = 1 /\ (old # Null => message_queues_'[old] = 0)
      /\ \A u \in Threads : u \notin {t, old} => message_queues_'[u] = message_queues_[u]
  <2>1. /\ added \in [Threads -> Nat] /\ added[t] = 1
        /\ \A u \in Threads : u # t => added[u] = message_queues_[u]
    BY <1>2 DEF ManagerInv, ManagerTyped, M!Registered
  <2> HIDE DEF added
  <2>2. CASE old = Null
    BY <1>1, <2>1, <2>2
  <2>3. CASE old # Null
    <3>1. message_queues_' = [added EXCEPT ![old] = IF @ > 0 THEN @ - 1 ELSE 0] /\ added[old] = 1
      BY <1>1, <1>6, <2>1, <2>3 DEF M!Unregistered
    <3>2. message_queues_' = [added EXCEPT ![old] = 0]
      BY <3>1
    <3>3. QED
      BY <1>6, <2>1, <2>3, <3>2
  <2>4. QED
    BY <2>2, <2>3
<1>9. /\ \A u \in Threads : u # t => kind'[u] = kind[u] /\ old_thread_'[u] = old_thread_[u]
      /\ kind'[t] = "AutoSocketServerThread" /\ old_thread_'[t] = old
  BY <1>1 DEF ManagerInv, ManagerTyped
<1>10. ManagerTyped'
  <2>1. kind' \in [Threads -> {"none", "Thread", "deleted"} \cup Scoped]
    BY <1>1 DEF ManagerInv, ManagerTyped, Scoped
  <2>2. old_thread_' \in [Threads -> Threads \cup {Null}]
    BY <1>1, <1>6 DEF ManagerInv, ManagerTyped
  <2>3. QED
    BY <1>1, <1>4, <1>5, <1>8, <2>1, <2>2 DEF ManagerInv, ManagerTyped
<1>11. /\ \A u \in Threads : u # t => (M!Exists(u)' <=> M!Exists(u))
       /\ M!Exists(t)'
  BY <1>9 DEF M!Exists
<1>12. Currents'
  <2>1. ASSUME NEW s \in M!SystemThreads, s # m, current'[s] # Null
        PROVE  /\ current'[s] = current[s] /\ current[s] \in Threads /\ current[s] \notin {t, old}
               /\ M!Exists(current[s]) /\ message_queues_[current[s]] = 1
    BY <1>2, <1>5, <1>7, <2>1, CurrentIs DEF IsCurrent
  <2>2. current'[m] = t
    BY <1>3, <1>5
  <2>3. \A s \in M!SystemThreads :
          current'[s] # Null => M!Exists(current[s])' /\ message_queues_'[current'[s]] = 1
    BY <1>8, <1>9, <2>1, <2>2 DEF M!Exists
  <2>4. ASSUME NEW n \in Mains, current'[n] # Null
        PROVE  \/ kind'[current'[n]] = "Thread" /\ thread_'[current'[n]] = n
               \/ kind'[current'[n]] \in Scoped /\ OnStack(n, current[n])'
    <3>1. CASE n # m
      <4>1. kind'[current'[n]] = kind[current[n]] /\ thread_'[current'[n]] = thread_[current[n]]
            /\ current'[n] = current[n]
        BY <1>1, <1>3, <1>9, <2>1, <2>4, <3>1
      <4>2. OnStack(n, current[n]) => OnStack(n, current[n])'
        <5>1. \A u : OnStack(n, u) => OnStack(n, u)'
          BY <1>4
        <5>2. QED
          BY <4>1, <5>1 DEF OnStack
      <4>3. QED
        BY <2>4, <4>1, <4>2 DEF ManagerInv, Currents
    <3>2. CASE n = m
      <4>1. OnStack(m, t)'
        BY <1>4
      <4>2. QED
        BY <1>9, <2>2, <3>2, <4>1 DEF Scoped, OnStack
    <3>3. QED
      BY <3>1, <3>2
  <2>5. QED
    BY <1>5, <2>3, <2>4 DEF Currents
<1>13. Started'
  <2>1. ASSUME NEW u \in Threads, u # t
        PROVE  kind[u] = "Thread" /\ thread_[u] \in {Null, u} => u # old
    BY <1>3, <1>6, <2>1 DEF Scoped
  <2>2. ASSUME NEW u \in Threads, u # t
        PROVE  kind[u] = "none" => u # old
    BY <1>3, <1>6, <2>2 DEF M!Exists
  <2>3. QED
    BY <1>1, <1>2, <1>3, <1>5, <1>8, <1>9, <2>1, <2>2 DEF ManagerInv, ManagerTyped, Started
<1>14. Stacks'
  <2>1. ASSUME NEW n \in Mains, NEW i \in 1 .. Len(stack'[n])
        PROVE  kind'[stack'[n][i]] \in Scoped
    <3>1. OnStack(n, stack[n][i])'
      BY <2>1 DEF OnStack
    <3>2. OnStack(n, stack'[n][i]) \/ stack'[n][i] = t
      BY <1>4, <3>1 DEF OnStack
    <3>3. OnStack(n, stack'[n][i]) => stack'[n][i] \in Threads /\ kind[stack'[n][i]] \in Scoped
      BY DEF ManagerInv, ManagerTyped, Stacks, OnStack
    <3>4. QED
      BY <1>9, <3>2, <3>3 DEF Scoped
  <2>2. QED
    BY <1>4, <2>1 DEF Stacks
<1>15. Hidings'
  <2>1. ASSUME NEW u \in Threads, M!Exists(u), u # t, old_thread_[u] # Null
        PROVE  old_thread_[u] # old /\ \E n \in Mains : Hides(n, u, old_thread_[u])'
    <3>1. PICK n \in Mains : old_thread_[u] \in Threads /\ Hides(n, u, old_thread_[u])
      BY <2>1, HiddenIs
    <3>2. old_thread_[u] # t /\ old_thread_[u] # old
      BY <1>2, <1>6, <2>1, <3>1 DEF Hides
    <3>3. \A o : Hides(n, u, o) /\ o \in Threads /\ o \notin {t, old} => Hides(n, u, o)'
      BY <1>1, <1>4, <1>5, <1>8, <1>9, <1>11 DEF Hides
    <3>4. old_thread_'[u] = old_thread_[u]
      BY <1>9, <2>1
    <3>5. QED
      BY <3>1, <3>2, <3>3, <3>4 DEF Hides
  <2>2. \A o : o = old /\ o # Null => Hides(m, t, o)'
    BY <1>1, <1>4, <1>5, <1>6, <1>8, <1>9, <1>11 DEF Hides
  <2>3. old_thread_'[t] = old /\ (old # Null => Hides(m, t, old_thread_[t])')
    BY <1>9, <2>2 DEF Hides
  <2>4. ASSUME NEW u \in Threads, M!Exists(u)', old_thread_'[u] # Null
        PROVE  \E n \in Mains : Hides(n, u, old_thread_[u])'
    BY <1>9, <1>11, <2>1, <2>3, <2>4
  <2>5. ASSUME NEW u \in Threads, NEW v \in Threads, M!Exists(u)', M!Exists(v)',
               old_thread_'[u] = old_thread_'[v], old_thread_'[u] # Null
        PROVE  u = v
    <3>1. CASE u # t /\ v # t
      BY <1>9, <1>11, <2>5, <3>1 DEF ManagerInv, Hidings
    <3>2. \A x \in Threads : x # t /\ M!Exists(x)' /\ old_thread_'[x] # Null => old_thread_'[x] # old
      BY <1>9, <1>11, <2>1
    <3>3. QED
      BY <2>3, <2>5, <3>1, <3>2
  <2>6. QED
    BY <2>4, <2>5 DEF Hidings
<1>16. Joins'
  BY <1>1, <1>9 DEF ManagerInv, Joins
<1>17. QED
  BY <1>10, <1>12, <1>13, <1>14, <1>15, <1>16 DEF ManagerInv

LEMMA EndScopeKeeps ==
  ASSUME Apart, ManagerInv, NEW m \in Mains, M!EndScope(m)
  PROVE  ManagerInv'
<1> DEFINE t == M!Last(stack[m])
           old == old_thread_[t]
           removed == M!Unregistered(message_queues_, t)
<1>1. /\ stack[m] # << >>
      /\ kind' = [kind EXCEPT ![t] = "deleted"]
      /\ stack' = [stack EXCEPT ![m] = M!Front(@)]
      /\ \/ /\ kind[t] = "AutoThread" /\ message_queues_' = removed
            /\ \/ current[m] = t /\ M!Becomes(M!SetCurrentThread(M!Where, m, Null))
               \/ current[m] # t /\ UNCHANGED <<current, taskQueue, registration>>
         \/ /\ current[m] = t /\ M!Becomes(M!Replace(m, old))
            /\ message_queues_' = IF old = Null THEN removed ELSE M!Registered(removed, old)
      /\ UNCHANGED <<thread_, old_thread_, run, joining>>
  BY DEF M!EndScope, M!Destroyed, M!currentVars
<1>2. /\ stack' \in [Mains -> Seq(Threads)] /\ EachOnStackOnce' /\ t \in Threads
      /\ OnStack(m, t)
      /\ \A n \in Mains : \A u : OnStack(n, u)' <=> (OnStack(n, u) /\ u # t)
      /\ \A n \in Mains : \A o, u : Below(n, o, u) => o # t
      /\ \A n \in Mains : \A o, u : Below(n, o, u) /\ u # t => Below(n, o, u)'
  BY <1>1, PopKeeps
<1> HIDE DEF t
<1>3. /\ m \in M!SystemThreads /\ m # Null
      /\ \A u \in Threads : u \in M!SystemThreads /\ u # Null /\ u # m
      /\ \A n \in Mains : n \in M!SystemThreads
  BY DEF Apart, M!SystemThreads
<1>4. /\ \A n \in Mains : OnStack(n, t) => n = m
      /\ kind[t] \in Scoped /\ M!Exists(t)
  BY SMTT(30), <1>2 DEF ManagerInv, Stacks, EachOnStackOnce, OnStack, M!Exists, Scoped
<1>5. /\ thread_[t] = Null /\ run[t] = "off" /\ current[t] = Null
      /\ \A s \in M!SystemThreads : current[s] = t => s = m
  <2>1. thread_[t] = Null /\ run[t] = "off" /\ current[t] = Null
    <3>1. kind[t] # "Thread" /\ t # Null
      BY <1>2, <1>3, <1>4 DEF Scoped
    <3>2. thread_[t] = Null
      BY <1>2, <3>1 DEF ManagerInv, Started
    <3>3. run[t] = "off"
      BY <1>2, <3>1, <3>2 DEF ManagerInv, Started
    <3>4. QED
      BY <1>2, <3>2, <3>3 DEF ManagerInv, Started
  <2>2. ASSUME NEW s \in Mains, current[s] = t PROVE s = m
    BY <1>2, <1>3, <1>4, <2>2 DEF ManagerInv, Currents, Scoped
  <2>3. ASSUME NEW s \in Threads, current[s] = t PROVE FALSE
    BY <1>2, <1>3, <2>1, <2>3 DEF ManagerInv, Started
  <2>4. QED
    BY <2>1, <2>2, <2>3 DEF M!SystemThreads
<1>6. /\ old \in Threads \cup {Null}
      /\ old # Null => /\ old \in Threads /\ old # t /\ M!Exists(old) /\ message_queues_[old] = 0
                       /\ ~IsCurrent(old)
                       /\ \/ kind[old] = "Thread" /\ thread_[old] = m
                          \/ kind[old] \in Scoped /\ OnStack(m, old)
                       /\ \A u \in Threads : M!Exists(u) /\ u # t => old_thread_[u] # old
  <2>1. old \in Threads \cup {Null}
    BY <1>2 DEF ManagerInv, ManagerTyped
  <2>2. ASSUME old # Null
        PROVE  /\ old # t /\ M!Exists(old) /\ message_queues_[old] = 0 /\ ~IsCurrent(old)
               /\ \/ kind[old] = "Thread" /\ thread_[old] = m
                  \/ kind[old] \in Scoped /\ OnStack(m, old)
    <3>1. Hides(m, t, old)
      BY <1>2, <1>4, <2>2, HiddenIs DEF Hides
    <3>2. CASE Below(m, old, t)
      <4>1. OnStack(m, old) /\ old # t
        <5>1. old # t
          BY <1>2, <3>2
        <5>2. OnStack(m, old)
          BY <3>2 DEF OnStack, Below
        <5>3. QED
          BY <5>1, <5>2
      <4>2. kind[old] \in Scoped
        BY <4>1 DEF ManagerInv, Stacks, OnStack
      <4>3. QED
        BY <3>1, <4>1, <4>2 DEF Hides
    <3>3. CASE kind[old] = "Thread" /\ thread_[old] = m
      BY <1>4, <3>1, <3>3 DEF Hides, Scoped
    <3>4. QED
      BY <3>1, <3>2, <3>3 DEF Hides
  <2>3. old # Null => \A u \in Threads : M!Exists(u) /\ u # t => old_thread_[u] # old
    BY <1>2, <1>4 DEF ManagerInv, Hidings
  <2>4. QED
    BY <2>1, <2>2, <2>3
<1> HIDE DEF old
(* c is who becomes current in the place of t: nobody, or whom it hid.     *)
<1>7. PICK c \in {Null, old} :
      /\ current' \in [M!SystemThreads -> Threads \cup {Null}]
      /\ taskQueue' \in [M!SystemThreads -> Threads \cup {Null}]
      /\ registration' \in [Threads -> {<< >>, <<Null>>}]
      /\ \A r \in M!SystemThreads : current'[r] = IF current[r] = t THEN c ELSE current[r]
      /\ \A u \in Threads : IsCurrent(u)' <=> (u = c \/ (IsCurrent(u) /\ u # t))
      /\ OneIsCurrent'
      /\ message_queues_' = IF c = Null THEN removed ELSE M!Registered(removed, c)
      /\ c # Null => current[m] = t
  <2>1. ASSUME NEW c \in {Null, old}, current[m] = t, Switches(m, c),
               message_queues_' = IF c = Null THEN removed ELSE M!Registered(removed, c)
        PROVE  /\ current' \in [M!SystemThreads -> Threads \cup {Null}]
               /\ taskQueue' \in [M!SystemThreads -> Threads \cup {Null}]
               /\ registration' \in [Threads -> {<< >>, <<Null>>}]
               /\ \A r \in M!SystemThreads : current'[r] = IF current[r] = t THEN c ELSE current[r]
               /\ \A u \in Threads : IsCurrent(u)' <=> (u = c \/ (IsCurrent(u) /\ u # t))
               /\ OneIsCurrent'
               /\ message_queues_' = IF c = Null THEN removed ELSE M!Registered(removed, c)
               /\ c # Null => current[m] = t
    <3>1. c \in Threads \cup {Null} /\ (c # Null => ~IsCurrent(c))
      BY <1>6, <2>1
    <3>2. /\ current' \in [M!SystemThreads -> Threads \cup {Null}]
          /\ taskQueue' \in [M!SystemThreads -> Threads \cup {Null}]
          /\ registration' \in [Threads -> {<< >>, <<Null>>}]
          /\ \A r \in M!SystemThreads : current'[r] = IF r = m THEN c ELSE current[r]
          /\ \A u \in Threads : IsCurrent(u)' <=> (u = c \/ (IsCurrent(u) /\ u # current[m]))
          /\ OneIsCurrent'
      BY <1>3, <2>1, <3>1, SwitchKeeps
    <3>3. QED
      BY <1>5, <2>1, <3>2
  <2>2. CASE /\ message_queues_' = removed /\ current[m] = t
             /\ M!Becomes(M!SetCurrentThread(M!Where, m, Null))
    <3>1. Switches(m, Null)
      BY <1>3, <2>2, SetsNobody
    <3>2. QED
      BY <2>1, <2>2, <3>1
  <2>3. CASE /\ message_queues_' = removed /\ current[m] # t
             /\ UNCHANGED <<current, taskQueue, registration>>
    <3>1. \A r \in M!SystemThreads : current[r] # t
      BY <1>5, <2>3
    <3>2. \A u \in Threads : u # Null /\ (IsCurrent(u)' <=> (IsCurrent(u) /\ u # t))
      BY <1>3, <2>3, <3>1 DEF IsCurrent
    <3>3. OneIsCurrent'
      BY <2>3 DEF ManagerInv, Currents, OneIsCurrent, IsCurrent
    <3>4. QED
      BY <2>3, <3>1, <3>2, <3>3 DEF ManagerInv, ManagerTyped
  <2>4. CASE /\ current[m] = t /\ M!Becomes(M!Replace(m, old))
             /\ message_queues_' = IF old = Null THEN removed ELSE M!Registered(removed, old)
    <3>1. Switches(m, old)
      BY <1>3, <1>6, <2>4, ReplacesCurrent
    <3>2. QED
      BY <2>1, <2>4, <3>1
  <2>5. QED
    BY <1>1, <2>2, <2>3, <2>4
<1>8. c # Null => /\ c = old /\ c \in Threads /\ c # t
  BY <1>6
<1>9. /\ message_queues_' \in [Threads -> Nat]
      /\ c # Null => message_queues_'[c] = 1
      /\ \A u \in Threads : u \notin {t, c} => message_queues_'[u] = message_queues_[u]
  <2>1. /\ removed \in [Threads -> Nat]
        /\ \A u \in Threads : u # t => removed[u] = message_queues_[u]
    BY <1>2, UnregisteredTyped DEF ManagerInv, ManagerTyped, M!Unregistered
  <2> HIDE DEF removed
  <2>2. CASE c = Null
    BY <1>7, <2>1, <2>2
  <2>3. CASE c # Null
    <3>1. message_queues_' = [removed EXCEPT ![c] = @ + 1] /\ removed[c] = 0
      BY <1>6, <1>7, <1>8, <2>1, <2>3 DEF M!Registered
    <3>2. QED
      BY <1>8, <2>1, <2>3, <3>1
  <2>4. QED
    BY <2>2, <2>3
<1>10. /\ \A u \in Threads : u # t => kind'[u] = kind[u]
       /\ kind'[t] = "deleted"
       /\ kind' \in [Threads -> {"none", "Thread", "deleted"} \cup Scoped]
  BY <1>1, <1>2 DEF ManagerInv, ManagerTyped
<1>11. ManagerTyped'
  BY <1>1, <1>2, <1>7, <1>9, <1>10 DEF ManagerInv, ManagerTyped
<1>12. \A u \in Threads : M!Exists(u)' <=> (M!Exists(u) /\ u # t)
  BY <1>10 DEF M!Exists
<1>13. Currents'
  <2>1. ASSUME NEW s \in M!SystemThreads, current[s] # t, current'[s] # Null
        PROVE  /\ current'[s] = current[s] /\ current[s] \in Threads /\ current[s] \notin {t, c}
               /\ M!Exists(current[s]) /\ message_queues_[current[s]] = 1
    BY <1>6, <1>7, <1>8, <2>1, CurrentIs
  <2>2. ASSUME NEW s \in M!SystemThreads, current[s] = t, current'[s] # Null
        PROVE  s = m /\ current'[s] = c /\ c # Null
    BY <1>5, <1>7, <2>2
  <2>3. ASSUME NEW s \in M!SystemThreads, current'[s] # Null
        PROVE  M!Exists(current[s])' /\ message_queues_'[current'[s]] = 1
    <3>1. CASE current[s] # t
      BY <1>9, <1>10, <2>1, <2>3, <3>1 DEF M!Exists
    <3>2. CASE current[s] = t
      BY <1>6, <1>8, <1>9, <1>10, <2>2, <2>3, <3>2 DEF M!Exists
    <3>3. QED
      BY <3>1, <3>2
  <2>4. ASSUME NEW n \in Mains, current'[n] # Null
        PROVE  \/ kind'[current'[n]] = "Thread" /\ thread_'[current'[n]] = n
               \/ kind'[current'[n]] \in Scoped /\ OnStack(n, current[n])'
    <3>1. CASE current[n] # t
      <4>1. kind'[current'[n]] = kind[current[n]] /\ thread_'[current'[n]] = thread_[current[n]]
            /\ current'[n] = current[n]
        BY <1>1, <1>3, <1>10, <2>1, <2>4, <3>1
      <4>2. OnStack(n, current[n]) => OnStack(n, current[n])'
        <5>1. \A u : u # t /\ OnStack(n, u) => OnStack(n, u)'
          BY <1>2
        <5>2. QED
          BY <3>1, <4>1, <5>1 DEF OnStack
      <4>3. QED
        BY <2>4, <4>1, <4>2 DEF ManagerInv, Currents
    <3>2. CASE current[n] = t
      <4>1. n = m /\ current'[n] = c /\ c # Null
        BY <1>3, <2>2, <2>4, <3>2
      <4>2. kind'[c] = kind[c] /\ thread_'[c] = thread_[c]
        BY <1>1, <1>8, <1>10, <4>1
      <4>3. OnStack(m, c) => OnStack(m, current[n])'
        <5>1. \A u : u # t /\ OnStack(m, u) => OnStack(m, u)'
          BY <1>2
        <5>2. QED
          BY <1>8, <4>1, <5>1 DEF OnStack
      <4>4. QED
        BY <1>6, <1>8, <4>1, <4>2, <4>3
    <3>3. QED
      BY <3>1, <3>2
  <2>5. QED
    BY <1>7, <2>3, <2>4 DEF Currents
<1>14. Started'
  <2>1. ASSUME NEW u \in Threads, u # t
        PROVE  kind[u] = "Thread" /\ thread_[u] \in {Null, u} => u # c
    BY <1>3, <1>6, <1>8, <2>1 DEF Scoped
  <2>2. ASSUME NEW u \in Threads, u # t
        PROVE  kind[u] = "none" => u # c
    BY <1>3, <1>6, <1>8, <2>2 DEF M!Exists
  <2>3. \A u \in Threads : current'[u] = current[u]
    BY <1>3, <1>5, <1>7
  <2>4. QED
    BY <1>1, <1>3, <1>5, <1>9, <1>10, <2>1, <2>2, <2>3 DEF ManagerInv, ManagerTyped, Started
<1>15. Stacks'
  <2>1. ASSUME NEW n \in Mains, NEW i \in 1 .. Len(stack'[n])
        PROVE  kind'[stack'[n][i]] \in Scoped
    <3>1. OnStack(n, stack[n][i])'
      BY <2>1 DEF OnStack
    <3>2. OnStack(n, stack'[n][i]) /\ stack'[n][i] # t
      BY <1>2, <3>1 DEF OnStack
    <3>3. OnStack(n, stack'[n][i]) => stack'[n][i] \in Threads /\ kind[stack'[n][i]] \in Scoped
      BY DEF ManagerInv, ManagerTyped, Stacks, OnStack
    <3>4. QED
      BY <1>10, <3>2, <3>3
  <2>2. QED
    BY <1>2, <2>1 DEF Stacks
<1>16. Hidings'
  <2>1. ASSUME NEW u \in Threads, M!Exists(u)', old_thread_'[u] # Null
        PROVE  \E n \in Mains : Hides(n, u, old_thread_[u])'
    <3>1. u # t /\ M!Exists(u) /\ old_thread_[u] # Null
      BY <1>1, <1>12, <2>1
    <3>2. PICK n \in Mains : old_thread_[u] \in Threads /\ Hides(n, u, old_thread_[u])
      BY <3>1, HiddenIs
    <3>3. old_thread_[u] # t
      <4>1. ~Below(n, t, u) /\ kind[t] # "Thread"
        BY <1>2, <1>4 DEF Scoped
      <4>2. QED
        BY <3>2, <4>1 DEF Hides
    <3>4. old_thread_[u] # c
      BY <1>6, <1>8, <3>1
    <3>5. \A o : Hides(n, u, o) /\ o \in Threads /\ o \notin {t, c} => Hides(n, u, o)'
      BY <1>1, <1>2, <1>7, <1>9, <1>10, <1>12, <3>1 DEF Hides
    <3>6. QED
      BY <1>1, <3>2, <3>3, <3>4, <3>5
  <2>2. ASSUME NEW u \in Threads, NEW v \in Threads, M!Exists(u)', M!Exists(v)',
               old_thread_'[u] = old_thread_'[v], old_thread_'[u] # Null
        PROVE  u = v
    <3>1. M!Exists(u) /\ M!Exists(v) /\ old_thread_[u] = old_thread_[v] /\ old_thread_[u] # Null
      BY <1>1, <1>12, <2>2
    <3>2. QED
      BY <3>1 DEF ManagerInv, Hidings
  <2>3. QED
    BY <2>1, <2>2 DEF Hidings
<1>17. Joins'
  <2>1. \A n \in Mains : joining[n] # << >> => joining[n][1] # t
    BY <1>4 DEF ManagerInv, Joins, Scoped
  <2>2. QED
    BY <1>1, <1>10, <2>1 DEF ManagerInv, Joins
<1>18. QED
  BY <1>11, <1>13, <1>14, <1>15, <1>16, <1>17 DEF ManagerInv

LEMMA ManagerKeeps ==
  ASSUME Apart, ManagerInv, [M!Next]_M!vars
  PROVE  ManagerInv'
<1>1. ASSUME NEW m \in Mains, NEW t \in Threads,
             \/ M!Create(m, t) \/ M!Start(m, t) \/ (\E d \in BOOLEAN : M!Stop(m, t, d))
             \/ M!WrapCurrentThread(m, t) \/ M!AutoThread(m, t) \/ M!AutoSocketServerThread(m, t)
      PROVE  ManagerInv'
  BY <1>1, CreateKeeps, StartKeeps, StopKeeps, WrapKeeps, AutoThreadKeeps, AutoSocketServerThreadKeeps
<1>2. ASSUME NEW m \in Mains, M!Join(m) \/ M!UnwrapCurrentThread(m) \/ M!EndScope(m)
      PROVE  ManagerInv'
  BY <1>2, JoinKeeps, UnwrapKeeps, EndScopeKeeps
<1>3. ASSUME NEW t \in Threads, M!PreRun(t) \/ M!NothingReady(t) \/ M!EndRun(t) \/ M!Dispatch(t)
      PROVE  ManagerInv'
  BY <1>3, PreRunKeeps, NothingReadyKeeps, EndRunKeeps, HandsOutKeeps
<1>4. ASSUME \/ \E m \in Mains : M!BeginFlush(m)
             \/ \E t \in Threads : M!Quit(t) \/ M!Post(t)
             \/ M!CheckQueue \/ M!AdmitMarker \/ M!PostMarker \/ M!EndFlush
             \/ UNCHANGED M!vars
      PROVE  ManagerInv'
  <2>1. UNCHANGED <<current, taskQueue, registration, kind, thread_, old_thread_, run,
                    message_queues_, stack, joining>>
    BY <1>4 DEF M!BeginFlush, M!Quit, M!Post, M!CheckQueue, M!AdmitMarker, M!PostMarker,
                M!EndFlush, M!vars, M!currentVars, M!objectVars, M!callVars
  <2>2. QED
    BY <2>1, QueuesKeep
<1>5. QED
  BY <1>1, <1>2, <1>3, <1>4 DEF M!Next

LEMMA ManagerStarts ==
  ASSUME Apart, M!Init
  PROVE  ManagerInv
<1>1. \A m \in Mains : stack[m] = << >> /\ Len(stack[m]) = 0 /\ 1 .. Len(stack[m]) = {}
  <2>1. \A m \in Mains : stack[m] = << >>
    BY DEF M!Init
  <2>2. QED
    BY <2>1, EmptySeq
<1>2. ManagerTyped
  BY EmptySeq DEF M!Init, ManagerTyped
<1>3. Currents
  <2>1. /\ \A s \in M!SystemThreads : current[s] = Null /\ taskQueue[s] = Null
        /\ \A t \in Threads : registration[t] = << >> /\ t # Null
        /\ Mains \subseteq M!SystemThreads
    BY DEF Apart, M!Init, M!SystemThreads
  <2>2. QED
    BY <2>1 DEF Currents, OneIsCurrent, IsCurrent
<1>4. Started
  BY DEF Apart, M!Init, Started, M!SystemThreads
<1>5. Stacks
  BY <1>1 DEF Stacks, EachOnStackOnce
<1>6. Hidings /\ Joins
  BY DEF M!Init, Hidings, Joins
<1>7. QED
  BY <1>2, <1>3, <1>4, <1>5, <1>6 DEF ManagerInv

(* Every system thread agrees with the list of queues on which rtc::Thread *)
(* is current on it, through starts, stops, wrapping and scopes that hide  *)
(* one another to any depth (thread.cc).                                   *)
THEOREM CurrentThreadsAreKnown ==
  ASSUME Apart
  PROVE  M!Spec => []M!CurrentThreadsAgree
<1>1. M!Init => ManagerInv
  BY ManagerStarts
<1>2. ManagerInv /\ [M!Next]_M!vars => ManagerInv'
  BY ManagerKeeps
<1>3. ManagerInv => M!CurrentThreadsAgree
  <2>1. ASSUME ManagerInv, NEW t \in Threads, M!Exists(t), old_thread_[t] # Null
        PROVE  M!Exists(old_thread_[t]) /\ message_queues_[old_thread_[t]] = 0
    BY <2>1, HiddenIs DEF Hides
  <2>2. ASSUME ManagerInv, NEW s \in M!SystemThreads
        PROVE  /\ taskQueue[s] = current[s]
               /\ current[s] # Null => M!Exists(current[s]) /\ message_queues_[current[s]] = 1
    BY <2>2, CurrentIs DEF ManagerInv, Currents, OneIsCurrent
  <2>3. QED
    BY <2>1, <2>2 DEF M!CurrentThreadsAgree
<1>4. QED
  BY <1>1, <1>2, <1>3, PTL DEF M!Spec

-----------------------------------------------------------------------------
(* The flush of all queues.                                                *)

HoldsMarker(q) == \E k \in 1 .. Len(q) : q[k] = M!Marker
Marked == {t \in Threads : HoldsMarker(queue[t])}

(* A queue has one marker at most, and what the flush waits for in it is   *)
(* before that marker.                                                     *)
Closes(t, q, before) ==
  /\ \A j, k \in 1 .. Len(q) : q[j] = M!Marker /\ q[k] = M!Marker => j = k
  /\ \A j \in 1 .. Len(q) : <<t, q[j]>> \in before =>
       \E k \in 1 .. Len(q) : j < k /\ q[k] = M!Marker

FlushTyped ==
  /\ posted \in Nat
  /\ queue \in [Threads -> Seq(Nat)]
  /\ \A t \in Threads : \A k \in 1 .. Len(queue[t]) : queue[t][k] \in 0 .. posted
  /\ flush \in [by : Mains \cup {Null}, left : SUBSET Threads, checked : Threads \cup {Null},
                open : Int, admitted : BOOLEAN, before : SUBSET (Threads \X (1 .. posted))]

(* What is open are the markers, and the one that is about to be posted.   *)
MarkersCounted ==
  /\ IsFiniteSet(Marked)
  /\ flush.open = Cardinality(Marked) + IF flush.checked = Null THEN 0 ELSE 1

FlushInv ==
  /\ FlushTyped /\ MarkersCounted
  /\ \A t \in Threads : Closes(t, queue[t], flush.before)
  /\ flush.checked # Null => flush.checked \in flush.left
  /\ flush.checked = Null => flush.admitted = FALSE
  /\ \A t \in flush.left : ~HoldsMarker(queue[t])

(* A queue changes and the flush goes on as before, or with one marker     *)
(* less.                                                                   *)
LEMMA QueueChanges ==
  ASSUME FlushInv, NEW t \in Threads, NEW q \in Seq(Nat),
         queue' = [queue EXCEPT ![t] = q], posted' \in {posted, posted + 1},
         \A k \in 1 .. Len(q) : q[k] \in 0 .. posted',
         Closes(t, q, flush.before), HoldsMarker(q) => HoldsMarker(queue[t]),
         flush' = IF HoldsMarker(queue[t]) /\ ~HoldsMarker(q)
                    THEN [flush EXCEPT !.open = @ - 1] ELSE flush
  PROVE  FlushInv'
<1>1. FlushTyped /\ MarkersCounted
  BY DEF FlushInv
<1>2. /\ queue' \in [Threads -> Seq(Nat)] /\ queue'[t] = q
      /\ \A u \in Threads : u # t => queue'[u] = queue[u]
  BY <1>1 DEF FlushTyped
<1>3. /\ flush'.by = flush.by /\ flush'.left = flush.left /\ flush'.checked = flush.checked
      /\ flush'.before = flush.before /\ flush'.admitted = flush.admitted
      /\ flush'.open = IF HoldsMarker(queue[t]) /\ ~HoldsMarker(q) THEN flush.open - 1
                       ELSE flush.open
  BY <1>1 DEF FlushTyped
<1>4. posted' \in Nat /\ \A x \in 0 .. posted : x \in 0 .. posted'
  BY <1>1 DEF FlushTyped
<1>5. FlushTyped'
  <2>1. \A u \in Threads : \A k \in 1 .. Len(queue'[u]) : queue'[u][k] \in 0 .. posted'
    BY <1>1, <1>2, <1>4 DEF FlushTyped
  <2>2. flush.before \subseteq Threads \X (1 .. posted')
    BY <1>1 DEF FlushTyped
  <2>3. flush' \in [by : Mains \cup {Null}, left : SUBSET Threads, checked : Threads \cup {Null},
                    open : Int, admitted : BOOLEAN, before : SUBSET (Threads \X (1 .. posted'))]
    <3> DEFINE Flushes == [by : Mains \cup {Null}, left : SUBSET Threads, checked : Threads \cup {Null},
                     open : Int, admitted : BOOLEAN, before : SUBSET (Threads \X (1 .. posted'))]
    <3>1. flush \in Flushes
      BY <1>1, <2>2 DEF FlushTyped
    <3>2. flush.open - 1 \in Int
      BY <1>1 DEF FlushTyped
    <3>3. [flush EXCEPT !.open = @ - 1] \in Flushes
      BY <3>1, <3>2
    <3> HIDE DEF Flushes
    <3>4. flush' \in Flushes
      BY <3>1, <3>3
    <3>5. QED
      BY <3>4 DEF Flushes
  <2>4. QED
    BY <1>2, <1>4, <2>1, <2>3 DEF FlushTyped
<1>6. MarkersCounted'
  <2>1. CASE HoldsMarker(queue[t]) /\ ~HoldsMarker(q)
    <3>1. Marked' = Marked \ {t} /\ t \in Marked
      BY <1>2, <2>1 DEF Marked
    <3>2. IsFiniteSet(Marked \ {t}) /\ Cardinality(Marked \ {t}) = Cardinality(Marked) - 1
      BY <1>1, <3>1, FS_RemoveElement DEF MarkersCounted
    <3>3. Cardinality(Marked) \in Nat
      BY <1>1, FS_CardinalityType DEF MarkersCounted
    <3>4. QED
      BY <1>1, <1>3, <2>1, <3>1, <3>2, <3>3 DEF MarkersCounted
  <2>2. CASE ~(HoldsMarker(queue[t]) /\ ~HoldsMarker(q))
    <3>1. Marked' = Marked
      BY <1>2, <2>2 DEF Marked
    <3>2. QED
      BY <1>1, <1>3, <2>2, <3>1 DEF MarkersCounted
  <2>3. QED
    BY <2>1, <2>2
<1>7. \A u \in Threads : Closes(u, queue'[u], flush'.before)
  BY <1>2, <1>3 DEF FlushInv
<1>8. \A u \in flush'.left : ~HoldsMarker(queue'[u])
  BY <1>1, <1>2, <1>3 DEF FlushInv, FlushTyped
<1>9. QED
  BY <1>3, <1>5, <1>6, <1>7, <1>8 DEF FlushInv

(* The messages of a thread that ends go, and the marker with them.        *)
LEMMA DestroyedKeeps ==
  ASSUME FlushInv, NEW t \in Threads, M!Destroyed(t), posted' = posted
  PROVE  FlushInv'
<1>1. << >> \in Seq(Nat) /\ Len(<< >>) = 0 /\ 1 .. 0 = {}
  BY EmptySeq
<1>2. Closes(t, << >>, flush.before) /\ ~HoldsMarker(<< >>)
  BY <1>1 DEF Closes, HoldsMarker
<1>3. flush' = IF HoldsMarker(queue[t]) /\ ~HoldsMarker(<< >>)
                 THEN [flush EXCEPT !.open = @ - 1] ELSE flush
  BY <1>2 DEF M!Destroyed, M!Contains, HoldsMarker
<1>4. queue' = [queue EXCEPT ![t] = << >>]
  BY DEF M!Destroyed
<1>5. \A k \in 1 .. Len(<< >>) : << >>[k] \in 0 .. posted'
  BY <1>1
<1>6. QED
  BY <1>1, <1>2, <1>3, <1>4, <1>5, QueueChanges

LEMMA FrontOfQueue ==
  ASSUME NEW q \in Seq(Nat), q # << >>
  PROVE  /\ M!Front(q) \in Seq(Nat) /\ Len(q) \in Nat \ {0} /\ Len(M!Front(q)) = Len(q) - 1
         /\ \A k \in 1 .. Len(q) - 1 : M!Front(q)[k] = q[k]
<1> DEFINE l == Len(q) - 1
<1>1. Len(q) \in Nat /\ Len(q) >= 1
  BY EmptySeq
<1>2. l \in Nat /\ l \in Int /\ l + 1 = Len(q) /\ M!Front(q) = SubSeq(q, 1, l)
  BY <1>1 DEF M!Front
<1> HIDE DEF l
<1>3. \A i \in 1 .. l : q[i] \in Nat
  BY <1>2, ElementOfSeq
<1> DEFINE f == SubSeq(q, 1, l)
<1>4. /\ f \in Seq(Nat) /\ Len(f) = IF 1 <= l THEN l - 1 + 1 ELSE 0
      /\ \A i \in 1 .. l - 1 + 1 : f[i] = q[1 + i - 1]
  BY <1>2, <1>3, SubSeqProperties
<1> HIDE DEF f
<1>5. Len(f) = l /\ l - 1 + 1 = l /\ \A i \in 1 .. l : 1 + i - 1 = i
  BY <1>2, <1>4
<1>6. f \in Seq(Nat) /\ Len(f) = l /\ \A i \in 1 .. l : f[i] = q[i]
  BY <1>4, <1>5
<1>7. QED
  BY <1>1, <1>2, <1>6 DEF f, l

(* A message that is posted comes last, or before a marker that is last.   *)
LEMMA PostKeeps ==
  ASSUME FlushInv, NEW t \in Threads, M!Post(t)
  PROVE  FlushInv'
<1> DEFINE new == posted + 1
           n == Len(queue[t])
<1>1. /\ posted \in Nat /\ posted' = new /\ flush' = flush
      /\ queue[t] \in Seq(Nat) /\ n \in Nat
      /\ \A k \in 1 .. n : queue[t][k] \in 0 .. posted
  BY LenProperties DEF FlushInv, FlushTyped, M!Post
<1>2. new # M!Marker /\ <<t, new>> \notin flush.before
  BY <1>1 DEF M!Marker, FlushInv, FlushTyped
<1> HIDE DEF n, new
<1>3. PICK q \in Seq(Nat), p \in 1 .. n + 1 :
        /\ queue' = [queue EXCEPT ![t] = q] /\ Len(q) = n + 1 /\ q[p] = new
        /\ \A k \in 1 .. n : q[IF k < p THEN k ELSE k + 1] = queue[t][k]
        /\ p = n + 1 \/ queue[t][n] = M!Marker
  <2>1. CASE queue' = [queue EXCEPT ![t] = Append(@, posted')]
    <3> DEFINE q == Append(queue[t], new)
    <3>1. /\ q \in Seq(Nat) /\ Len(q) = n + 1 /\ q[n + 1] = new
          /\ \A k \in 1 .. n : q[k] = queue[t][k]
      BY <1>1, AppendProperties DEF n, new
    <3>2. n + 1 \in 1 .. n + 1 /\ \A k \in 1 .. n : k < n + 1
      BY <1>1
    <3>3. queue' = [queue EXCEPT ![t] = q]
      BY <1>1, <2>1
    <3> HIDE DEF q
    <3>4. QED
      BY <3>1, <3>2, <3>3
  <2>2. CASE /\ queue[t] # << >> /\ M!Last(queue[t]) = M!Marker
             /\ queue' = [queue EXCEPT ![t] = Append(Append(M!Front(@), posted'), M!Marker)]
    <3> DEFINE f == M!Front(queue[t])
               g == Append(f, new)
               q == Append(g, M!Marker)
    <3>1. /\ f \in Seq(Nat) /\ n \in Nat \ {0} /\ Len(f) = n - 1 /\ queue[t][n] = M!Marker
          /\ \A k \in 1 .. n - 1 : f[k] = queue[t][k]
      BY <1>1, <2>2, FrontOfQueue DEF M!Last, n
    <3> HIDE DEF f
    <3>2. /\ g \in Seq(Nat) /\ Len(g) = n /\ g[n] = new
          /\ \A k \in 1 .. n - 1 : g[k] = queue[t][k]
      <4>1. new \in Nat /\ n - 1 + 1 = n
        BY <1>1, <3>1 DEF new
      <4>2. /\ g \in Seq(Nat) /\ Len(g) = Len(f) + 1 /\ g[Len(f) + 1] = new
            /\ \A k \in 1 .. Len(f) : g[k] = f[k]
        BY <3>1, <4>1, AppendProperties
      <4> HIDE DEF g
      <4>3. QED
        BY <3>1, <4>1, <4>2
    <3> HIDE DEF g
    <3>3. /\ q \in Seq(Nat) /\ Len(q) = n + 1 /\ q[n + 1] = M!Marker
          /\ \A k \in 1 .. n : q[k] = g[k]
      <4>1. /\ q \in Seq(Nat) /\ Len(q) = Len(g) + 1 /\ q[Len(g) + 1] = M!Marker
            /\ \A k \in 1 .. Len(g) : q[k] = g[k]
        BY <3>2, AppendProperties DEF M!Marker
      <4> HIDE DEF q
      <4>2. QED
        BY <3>2, <4>1
    <3>4. queue' = [queue EXCEPT ![t] = q] /\ n \in 1 .. n + 1
      BY <1>1, <2>2, <3>1 DEF f, g
    <3> HIDE DEF q
    <3>5. \A k \in 1 .. n : q[IF k < n THEN k ELSE k + 1] = queue[t][k]
      <4>1. ASSUME NEW k \in 1 .. n, k < n
            PROVE  q[k] = queue[t][k]
        <5>1. k \in 1 .. n - 1
          BY <3>1, <4>1
        <5>2. QED
          BY <3>2, <3>3, <5>1
      <4>2. ASSUME NEW k \in 1 .. n, ~(k < n)
            PROVE  q[k + 1] = queue[t][k]
        <5>1. k = n
          BY <3>1, <4>2
        <5>2. QED
          BY <3>1, <3>3, <5>1
      <4>3. QED
        BY <4>1, <4>2
    <3>6. q[n] = new
      BY <3>1, <3>2, <3>3
    <3>7. QED
      BY <3>1, <3>3, <3>4, <3>5, <3>6
  <2>3. QED
    BY <1>1, <2>1, <2>2 DEF M!Post
<1> DEFINE At(k) == IF k < p THEN k ELSE k + 1
<1> HIDE DEF At
<1>4. \A j \in 1 .. n + 1 : j = p \/ \E k \in 1 .. n : j = At(k)
  <2>1. ASSUME NEW j \in 1 .. n + 1, j < p
        PROVE  j \in 1 .. n /\ j = At(j)
    BY <1>1, <1>3, <2>1 DEF At
  <2>2. ASSUME NEW j \in 1 .. n + 1, j > p
        PROVE  j - 1 \in 1 .. n /\ j = At(j - 1)
    BY <1>1, <1>3, <2>2 DEF At
  <2>3. QED
    <3>1. ASSUME NEW j \in 1 .. n + 1
          PROVE  j = p \/ j < p \/ j > p
      BY <1>1, <1>3
    <3>2. QED
      BY <2>1, <2>2, <3>1
<1>5. /\ \A k \in 1 .. n : At(k) \in 1 .. n + 1 /\ q[At(k)] = queue[t][k]
      /\ \A j, k \in 1 .. n : j < k => At(j) < At(k)
  <2>1. \A k \in 1 .. n : q[At(k)] = queue[t][k]
    BY <1>3 DEF At
  <2>2. n \in Nat /\ p \in Int /\ \A k \in 1 .. n : k \in Int
    BY <1>1, <1>3
  <2>3. \A k \in 1 .. n : At(k) \in 1 .. n + 1
    BY <2>2 DEF At
  <2>4. \A j, k \in 1 .. n : j < k => At(j) < At(k)
    BY <2>2 DEF At
  <2>5. QED
    BY <2>1, <2>3, <2>4
<1>6. \A j \in 1 .. Len(q) : q[j] \in 0 .. posted'
  <2>1. posted' \in 0 .. posted' /\ \A x \in 0 .. posted : x \in 0 .. posted'
    BY <1>1 DEF new
  <2>2. q[p] \in 0 .. posted' /\ \A k \in 1 .. n : q[At(k)] \in 0 .. posted'
    BY <1>1, <1>3, <1>5, <2>1
  <2>3. QED
    BY <1>3, <1>4, <2>2
<1>7. HoldsMarker(q) <=> HoldsMarker(queue[t])
  <2>1. ASSUME NEW j \in 1 .. n + 1, q[j] = M!Marker
        PROVE  \E k \in 1 .. n : queue[t][k] = M!Marker
    BY <1>2, <1>3, <1>4, <1>5, <2>1
  <2>2. ASSUME NEW k \in 1 .. n, queue[t][k] = M!Marker
        PROVE  \E j \in 1 .. n + 1 : q[j] = M!Marker
    BY <1>5, <2>2
  <2>3. QED
    BY <1>3, <2>1, <2>2 DEF HoldsMarker, n
<1>8. /\ \A j, k \in 1 .. n : queue[t][j] = M!Marker /\ queue[t][k] = M!Marker => j = k
      /\ \A j \in 1 .. n : <<t, queue[t][j]>> \in flush.before =>
           \E k \in 1 .. n : j < k /\ queue[t][k] = M!Marker
  BY DEF FlushInv, Closes, n
<1>9. Closes(t, q, flush.before)
  <2>0. Len(q) = n + 1 /\ \A j \in 1 .. n + 1 : q[j] = new \/ \E k \in 1 .. n : j = At(k) /\ q[j] = queue[t][k]
    BY <1>3, <1>4, <1>5
  <2>1. ASSUME NEW j \in 1 .. Len(q), NEW k \in 1 .. Len(q), q[j] = M!Marker, q[k] = M!Marker
        PROVE  j = k
    <3>1. PICK a \in 1 .. n : j = At(a) /\ queue[t][a] = M!Marker
      BY <1>2, <2>0, <2>1
    <3>2. PICK b \in 1 .. n : k = At(b) /\ queue[t][b] = M!Marker
      BY <1>2, <2>0, <2>1
    <3>3. QED
      BY <1>8, <3>1, <3>2
  <2>2. ASSUME NEW j \in 1 .. Len(q), <<t, q[j]>> \in flush.before
        PROVE  \E k \in 1 .. Len(q) : j < k /\ q[k] = M!Marker
    <3>1. PICK a \in 1 .. n : j = At(a) /\ <<t, queue[t][a]>> \in flush.before
      BY <1>2, <2>0, <2>2
    <3>2. PICK b \in 1 .. n : a < b /\ queue[t][b] = M!Marker
      BY <1>8, <3>1
    <3>3. QED
      BY <1>3, <1>5, <3>1, <3>2
  <2>3. QED
    BY <2>1, <2>2 DEF Closes
<1>10. QED
  BY <1>1, <1>3, <1>6, <1>7, <1>9, QueueChanges DEF new

(* A marker that is dispatched has nothing before it.                      *)
LEMMA DispatchKeeps ==
  ASSUME FlushInv, NEW t \in Threads, M!Dispatch(t)
  PROVE  FlushInv'
<1> DEFINE q == Tail(queue[t])
           n == Len(q)
<1>1. /\ posted' = posted /\ queue' = [queue EXCEPT ![t] = q] /\ queue[t] # << >>
      /\ flush' = IF Head(queue[t]) = M!Marker THEN [flush EXCEPT !.open = @ - 1] ELSE flush
      /\ queue[t] \in Seq(Nat) /\ \A k \in 1 .. Len(queue[t]) : queue[t][k] \in 0 .. posted
  BY DEF FlushInv, FlushTyped, M!Dispatch
<1>2. /\ q \in Seq(Nat) /\ n \in Nat /\ Len(queue[t]) = n + 1
      /\ \A k \in 1 .. n : q[k] = queue[t][k + 1]
      /\ Head(queue[t]) = queue[t][1]
  <2>1. q \in Seq(Nat) /\ n = Len(queue[t]) - 1 /\ \A k \in 1 .. n : q[k] = queue[t][k + 1]
    BY <1>1, HeadTailProperties
  <2>2. Len(queue[t]) \in Nat /\ Head(queue[t]) = queue[t][1]
    BY <1>1
  <2>3. n \in Nat
    BY <2>1, LenProperties
  <2>4. QED
    BY <2>1, <2>2, <2>3
<1> HIDE DEF q
<1>3. Closes(t, queue[t], flush.before)
  BY DEF FlushInv
<1>4. \A k \in 1 .. n + 1 : k = 1 \/ (k - 1 \in 1 .. n /\ q[k - 1] = queue[t][k])
  BY <1>2
<1>5. \A k \in 1 .. n : k + 1 \in 1 .. n + 1
  BY <1>2
<1>6. \A k \in 1 .. n : q[k] \in 0 .. posted'
  BY <1>1, <1>2, <1>5
<1>7. 1 \in 1 .. n + 1
  BY <1>2
<1>8. /\ Head(queue[t]) = M!Marker => HoldsMarker(queue[t]) /\ ~HoldsMarker(q)
      /\ Head(queue[t]) # M!Marker => (HoldsMarker(queue[t]) <=> HoldsMarker(q))
  <2>1. ASSUME Head(queue[t]) = M!Marker
        PROVE  HoldsMarker(queue[t]) /\ ~HoldsMarker(q)
    <3>1. \A k \in 1 .. n : queue[t][k + 1] # M!Marker
      BY <1>2, <1>3, <1>5, <1>7, <2>1 DEF Closes
    <3>2. QED
      BY <1>2, <1>7, <2>1, <3>1 DEF HoldsMarker
  <2>2. ASSUME Head(queue[t]) # M!Marker
        PROVE  HoldsMarker(queue[t]) <=> HoldsMarker(q)
    <3>1. ASSUME NEW k \in 1 .. n + 1, queue[t][k] = M!Marker
          PROVE  k - 1 \in 1 .. n /\ q[k - 1] = M!Marker
      BY <1>2, <1>4, <2>2, <3>1
    <3>2. ASSUME NEW k \in 1 .. n, q[k] = M!Marker
          PROVE  k + 1 \in 1 .. n + 1 /\ queue[t][k + 1] = M!Marker
      BY <1>2, <1>5, <3>2
    <3>3. QED
      BY <1>2, <3>1, <3>2 DEF HoldsMarker
  <2>3. QED
    BY <2>1, <2>2
<1>9. Closes(t, q, flush.before)
  <2>1. ASSUME NEW j \in 1 .. n, NEW k \in 1 .. n, q[j] = M!Marker, q[k] = M!Marker
        PROVE  j = k
    <3>1. /\ j + 1 \in 1 .. Len(queue[t]) /\ queue[t][j + 1] = M!Marker
          /\ k + 1 \in 1 .. Len(queue[t]) /\ queue[t][k + 1] = M!Marker
      BY <1>2, <1>5, <2>1
    <3>2. j + 1 = k + 1
      BY <1>3, <3>1 DEF Closes
    <3>3. QED
      BY <3>2
  <2>2. ASSUME NEW j \in 1 .. n, <<t, q[j]>> \in flush.before
        PROVE  \E k \in 1 .. n : j < k /\ q[k] = M!Marker
    <3>1. PICK k \in 1 .. n + 1 : j + 1 < k /\ queue[t][k] = M!Marker
      BY <1>2, <1>3, <1>5, <2>2 DEF Closes
    <3>2. j \in Nat /\ k \in Nat /\ k # 1 /\ j < k - 1
      BY <1>2, <3>1
    <3>3. k - 1 \in 1 .. n /\ q[k - 1] = M!Marker
      BY <1>4, <3>1, <3>2
    <3>4. QED
      BY <3>2, <3>3
  <2>3. QED
    BY <2>1, <2>2 DEF Closes
<1>10. flush' = IF HoldsMarker(queue[t]) /\ ~HoldsMarker(q)
                 THEN [flush EXCEPT !.open = @ - 1] ELSE flush
  BY <1>1, <1>8
<1>11. HoldsMarker(q) => HoldsMarker(queue[t])
  BY <1>8
<1>12. QED
  BY <1>1, <1>2, <1>6, <1>9, <1>10, <1>11, QueueChanges

LEMMA BeginFlushKeeps ==
  ASSUME FlushInv, NEW m \in Mains, M!BeginFlush(m)
  PROVE  FlushInv'
<1>1. /\ flush = M!NoFlush /\ queue' = queue /\ posted' = posted
      /\ flush' = [flush EXCEPT !.by = m, !.left = {t \in Threads : message_queues_[t] > 0}]
  BY DEF M!BeginFlush, M!queueVars
<1>2. /\ flush'.by = m /\ flush'.left \subseteq Threads /\ flush'.checked = Null
      /\ flush'.open = 0 /\ flush'.before = {} /\ flush'.admitted = FALSE
      /\ flush'.left = {t \in Threads : message_queues_[t] > 0}
      /\ flush.checked = Null /\ flush.open = 0 /\ flush.before = {}
  BY <1>1 DEF M!NoFlush
<1>3. Marked = {}
  <2>1. IsFiniteSet(Marked) /\ Cardinality(Marked) \in Nat /\ Cardinality(Marked) = 0
    BY <1>2, FS_CardinalityType DEF FlushInv, MarkersCounted
  <2>2. QED
    BY <2>1, FS_EmptySet
<1>4. Marked' = {} /\ MarkersCounted'
  BY <1>1, <1>2, <1>3, FS_EmptySet DEF MarkersCounted, Marked
<1>5. FlushTyped'
  <2>1. flush' = [by |-> m, left |-> flush'.left, checked |-> Null, open |-> 0,
                 admitted |-> FALSE, before |-> {}]
    BY <1>1, <1>2 DEF M!NoFlush
  <2>2. flush' \in [by : Mains \cup {Null}, left : SUBSET Threads, checked : Threads \cup {Null},
                    open : Int, admitted : BOOLEAN, before : SUBSET (Threads \X (1 .. posted))]
    <3> DEFINE asked == flush'.left
    <3>1. asked \in SUBSET Threads
      BY <1>2
    <3> HIDE DEF asked
    <3>2. [by |-> m, left |-> asked, checked |-> Null, open |-> 0, admitted |-> FALSE, before |-> {}]
            \in [by : Mains \cup {Null}, left : SUBSET Threads, checked : Threads \cup {Null},
                 open : Int, admitted : BOOLEAN, before : SUBSET (Threads \X (1 .. posted))]
      BY <3>1
    <3>3. QED
      BY <2>1, <3>2 DEF asked
  <2>3. QED
    BY <1>1, <2>2 DEF FlushInv, FlushTyped
<1>6. \A t \in Threads : Closes(t, queue'[t], flush'.before)
  BY <1>1, <1>2 DEF FlushInv
<1>7. \A t \in Threads : ~HoldsMarker(queue'[t])
  BY <1>4 DEF Marked
<1>8. QED
  BY <1>2, <1>4, <1>5, <1>6, <1>7 DEF FlushInv

LEMMA CheckQueueKeeps ==
  ASSUME Apart, FlushInv, M!CheckQueue
  PROVE  FlushInv'
<1>1. PICK t \in flush.left :
        flush' \in {[flush EXCEPT !.checked = t, !.open = @ + 1], [flush EXCEPT !.left = @ \ {t}]}
  <2>1. (CHOOSE t \in flush.left : TRUE) \in flush.left
    BY DEF M!CheckQueue
  <2>2. QED
    BY <2>1 DEF M!CheckQueue
<1>2. /\ queue' = queue /\ posted' = posted /\ FlushTyped /\ t \in Threads /\ t # Null
      /\ flush.checked = Null
  BY DEF M!CheckQueue, M!queueVars, FlushInv, FlushTyped, Apart
<1>3. Marked' = Marked /\ Cardinality(Marked) \in Nat
  BY <1>2, FS_CardinalityType DEF Marked, FlushInv, MarkersCounted
<1>4. /\ flush'.by = flush.by /\ flush'.before = flush.before /\ flush'.left \subseteq flush.left
      /\ flush'.admitted = flush.admitted
      /\ \/ flush'.checked = t /\ flush'.open = flush.open + 1 /\ flush'.left = flush.left
         \/ flush'.checked = Null /\ flush'.open = flush.open
  BY <1>1, <1>2 DEF FlushTyped
<1>5. FlushTyped'
  <2> DEFINE Flushes == [by : Mains \cup {Null}, left : SUBSET Threads, checked : Threads \cup {Null},
                   open : Int, admitted : BOOLEAN, before : SUBSET (Threads \X (1 .. posted))]
  <2>1. flush \in Flushes /\ flush.open + 1 \in Int /\ flush.left \ {t} \in SUBSET Threads
    BY <1>2 DEF FlushTyped
  <2>2. [flush EXCEPT !.checked = t, !.open = @ + 1] \in Flushes
    BY <1>2, <2>1
  <2>3. [flush EXCEPT !.left = @ \ {t}] \in Flushes
    BY <2>1
  <2> HIDE DEF Flushes
  <2>4. flush' \in Flushes
    BY <1>1, <2>2, <2>3
  <2>5. QED
    BY <1>2, <2>4 DEF FlushTyped, Flushes
<1>6. MarkersCounted'
  BY <1>2, <1>3, <1>4 DEF FlushInv, MarkersCounted
<1>7. /\ \A u \in Threads : Closes(u, queue'[u], flush'.before)
      /\ \A u \in flush'.left : ~HoldsMarker(queue'[u])
  BY <1>2, <1>4 DEF FlushInv
<1>8. QED
  BY <1>2, <1>4, <1>5, <1>6, <1>7 DEF FlushInv

(* What is known of the thread that was asked, which has no marker yet.     *)
LEMMA WhoWasAsked ==
  ASSUME FlushInv, flush.checked # Null
  PROVE  /\ flush.checked \in Threads /\ flush.checked \in flush.left /\ FlushTyped
         /\ ~HoldsMarker(queue[flush.checked]) /\ queue[flush.checked] \in Seq(Nat)
         /\ Len(queue[flush.checked]) \in Nat
         /\ \A k \in 1 .. Len(queue[flush.checked]) : queue[flush.checked][k] \in 1 .. posted
         /\ IsFiniteSet(Marked) /\ Cardinality(Marked) \in Nat
         /\ flush.open = Cardinality(Marked) + 1
<1> DEFINE t == flush.checked
<1>1. t \in Threads /\ t \in flush.left /\ FlushTyped
  BY DEF FlushInv, FlushTyped
<1>2. ~HoldsMarker(queue[t]) /\ queue[t] \in Seq(Nat)
  BY <1>1 DEF FlushInv, FlushTyped
<1>3. \A k \in 1 .. Len(queue[t]) : queue[t][k] \in 0 .. posted /\ queue[t][k] # 0
  BY <1>1, <1>2 DEF FlushTyped, HoldsMarker, M!Marker
<1>4. \A x \in 0 .. posted : x # 0 => x \in 1 .. posted
  BY <1>1 DEF FlushTyped
<1>5. IsFiniteSet(Marked) /\ Cardinality(Marked) \in Nat /\ flush.open = Cardinality(Marked) + 1
  BY FS_CardinalityType DEF FlushInv, MarkersCounted
<1>6. QED
  BY <1>1, <1>2, <1>3, <1>4, <1>5, LenProperties

(* A thread that quits refuses the marker, which counts as done.            *)
LEMMA AdmitMarkerKeeps ==
  ASSUME FlushInv, M!AdmitMarker
  PROVE  FlushInv'
<1> DEFINE t == flush.checked
           Flushes == [by : Mains \cup {Null}, left : SUBSET Threads, checked : Threads \cup {Null},
                       open : Int, admitted : BOOLEAN, before : SUBSET (Threads \X (1 .. posted))]
<1>1. /\ t # Null /\ t \in Threads /\ t \in flush.left /\ FlushTyped /\ posted' = posted /\ queue' = queue
      /\ Cardinality(Marked) \in Nat /\ flush.open = Cardinality(Marked) + 1
  BY WhoWasAsked DEF M!AdmitMarker, M!queueVars
<1>2. flush \in Flushes
  BY <1>1 DEF FlushTyped
<1>3. Marked' = Marked
  BY <1>1 DEF Marked
<1>4. CASE flush' = [flush EXCEPT !.checked = Null, !.left = @ \ {t}, !.open = @ - 1]
  <2>1. flush.admitted = FALSE
    BY <1>1 DEF M!AdmitMarker, FlushTyped
  <2>2. /\ flush'.by = flush.by /\ flush'.before = flush.before /\ flush'.left = flush.left \ {t}
        /\ flush'.checked = Null /\ flush'.open = flush.open - 1 /\ flush'.admitted = FALSE
    BY <1>2, <1>4, <2>1
  <2>3. FlushTyped'
    <3>1. flush.left \ {t} \in SUBSET Threads /\ flush.open - 1 \in Int
      BY <1>2
    <3>2. flush' \in Flushes
      BY <1>2, <1>4, <3>1
    <3>3. QED
      BY <1>1, <3>2 DEF FlushTyped
  <2>4. MarkersCounted'
    BY <1>1, <1>3, <2>2 DEF FlushInv, MarkersCounted
  <2>5. /\ \A u \in Threads : Closes(u, queue'[u], flush'.before)
        /\ \A u \in flush'.left : ~HoldsMarker(queue'[u])
    BY <1>1, <2>2 DEF FlushInv
  <2>6. QED
    BY <2>2, <2>3, <2>4, <2>5 DEF FlushInv
<1>5. CASE flush' = [flush EXCEPT !.admitted = TRUE]
  <2>1. /\ flush'.by = flush.by /\ flush'.before = flush.before /\ flush'.left = flush.left
        /\ flush'.checked = t /\ flush'.open = flush.open
    BY <1>2, <1>5
  <2>2. FlushTyped'
    <3>1. flush' \in Flushes
      BY <1>2, <1>5
    <3>2. QED
      BY <1>1, <3>1 DEF FlushTyped
  <2>3. MarkersCounted'
    BY <1>1, <1>3, <2>1 DEF FlushInv, MarkersCounted
  <2>4. /\ \A u \in Threads : Closes(u, queue'[u], flush'.before)
        /\ \A u \in flush'.left : ~HoldsMarker(queue'[u])
    BY <1>1, <2>1 DEF FlushInv
  <2>5. QED
    BY <1>1, <2>1, <2>2, <2>3, <2>4 DEF FlushInv
<1>6. QED
  BY <1>4, <1>5 DEF M!AdmitMarker

(* The marker closes a queue that had none.                                *)
LEMMA PostMarkerKeeps ==
  ASSUME FlushInv, M!PostMarker
  PROVE  FlushInv'
<1> DEFINE t == flush.checked
<1>1. /\ t \in Threads /\ t # Null /\ t \in flush.left /\ FlushTyped /\ posted' = posted
      /\ ~HoldsMarker(queue[t]) /\ queue[t] \in Seq(Nat) /\ Len(queue[t]) \in Nat
      /\ \A k \in 1 .. Len(queue[t]) : queue[t][k] \in 1 .. posted
  <2>1. t # Null /\ posted' = posted
    BY DEF M!PostMarker, FlushInv
  <2>2. QED
    BY <2>1, WhoWasAsked
<1>2. IsFiniteSet(Marked) /\ Cardinality(Marked) \in Nat /\ flush.open = Cardinality(Marked) + 1
  BY <1>1, WhoWasAsked
<1> HIDE DEF t
<1> DEFINE q == Append(queue[t], M!Marker)
           before == flush.before \cup {<<t, n>> : n \in M!ToSet(queue[t])}
<1>3. /\ queue' = [queue EXCEPT ![t] = q]
      /\ flush' = [flush EXCEPT !.checked = Null, !.left = @ \ {t},
                 !.admitted = FALSE, !.before = before]
  BY DEF M!PostMarker, M!MarkerIsIn, t
<1>4. /\ q \in Seq(Nat) /\ Len(q) = Len(queue[t]) + 1 /\ q[Len(queue[t]) + 1] = M!Marker
      /\ \A k \in 1 .. Len(queue[t]) : q[k] = queue[t][k]
  BY <1>1, AppendProperties DEF M!Marker
<1>5. /\ \A x \in before : x \in flush.before \/ \E n \in 1 .. posted : x = <<t, n>>
      /\ before \in SUBSET (Threads \X (1 .. posted))
  <2>1. \A n \in M!ToSet(queue[t]) : n \in 1 .. posted
    BY <1>1, LenProperties DEF M!ToSet
  <2>2. QED
    BY <1>1, <2>1 DEF FlushTyped
<1> HIDE DEF q, before
<1>6. /\ flush'.by = flush.by /\ flush'.before = before /\ flush'.left = flush.left \ {t}
      /\ flush'.checked = Null /\ flush'.open = flush.open /\ flush'.admitted = FALSE
  BY <1>1, <1>3 DEF FlushTyped
<1>7. /\ queue' \in [Threads -> Seq(Nat)] /\ queue'[t] = q
      /\ \A u \in Threads : u # t => queue'[u] = queue[u]
  BY <1>1, <1>3, <1>4 DEF FlushTyped
<1>8. \A k \in 1 .. Len(q) : k \in 1 .. Len(queue[t]) \/ k = Len(queue[t]) + 1
  BY <1>1, <1>4
<1>9. Len(q) \in 1 .. Len(q)
  BY <1>1, <1>4
<1>10. FlushTyped'
  <2>1. \A k \in 1 .. Len(q) : q[k] \in 0 .. posted
    <3>1. 0 \in 0 .. posted /\ \A x \in 1 .. posted : x \in 0 .. posted
      BY <1>1 DEF FlushTyped
    <3>2. QED
      BY <1>1, <1>4, <1>8, <3>1 DEF M!Marker
  <2>2. \A u \in Threads : \A k \in 1 .. Len(queue'[u]) : queue'[u][k] \in 0 .. posted'
    BY <1>1, <1>7, <2>1 DEF FlushTyped
  <2>3. flush' \in [by : Mains \cup {Null}, left : SUBSET Threads, checked : Threads \cup {Null},
                    open : Int, admitted : BOOLEAN, before : SUBSET (Threads \X (1 .. posted))]
    BY <1>1, <1>3, <1>5 DEF FlushTyped
  <2>4. QED
    BY <1>1, <1>7, <2>2, <2>3 DEF FlushTyped
<1>11. MarkersCounted'
  <2>1. HoldsMarker(q)
    BY <1>4, <1>9 DEF HoldsMarker
  <2>2. Marked' = Marked \cup {t} /\ t \notin Marked
    BY <1>1, <1>7, <2>1 DEF Marked
  <2>3. IsFiniteSet(Marked \cup {t}) /\ Cardinality(Marked \cup {t}) = Cardinality(Marked) + 1
    BY <1>2, <2>2, FS_AddElement
  <2>4. QED
    BY <1>2, <1>6, <2>2, <2>3 DEF MarkersCounted
<1>12. ASSUME NEW u \in Threads
       PROVE  Closes(u, queue'[u], before)
  <2>1. CASE u = t
    <3>1. ASSUME NEW j \in 1 .. Len(q), q[j] = M!Marker
          PROVE  j = Len(q)
      <4>1. j \notin 1 .. Len(queue[t])
        BY <1>1, <1>4, <3>1 DEF HoldsMarker
      <4>2. QED
        BY <1>4, <1>8, <4>1
    <3>2. ASSUME NEW j \in 1 .. Len(q), <<t, q[j]>> \in before
          PROVE  j < Len(q)
      <4>1. q[j] # M!Marker
        BY <1>5, <3>2 DEF M!Marker
      <4>2. QED
        BY <1>1, <1>4, <1>8, <4>1
    <3>3. q[Len(q)] = M!Marker
      BY <1>4
    <3>4. QED
      BY <1>7, <1>9, <2>1, <3>1, <3>2, <3>3 DEF Closes
  <2>2. CASE u # t
    <3>1. \A x : <<u, x>> \in before => <<u, x>> \in flush.before
      BY <1>5, <2>2
    <3>2. Closes(u, queue[u], flush.before) /\ queue'[u] = queue[u]
      BY <1>7, <2>2 DEF FlushInv
    <3>3. QED
      BY <3>1, <3>2 DEF Closes
  <2>3. QED
    BY <2>1, <2>2
<1>13. \A u \in flush'.left : ~HoldsMarker(queue'[u])
  BY <1>1, <1>6, <1>7 DEF FlushInv, FlushTyped
<1>14. QED
  BY <1>6, <1>10, <1>11, <1>12, <1>13 DEF FlushInv

(* A flush ends when no queue has a marker.                                *)
LEMMA FlushEnds ==
  ASSUME FlushInv, M!EndFlush
  PROVE  /\ \A t \in Threads : ~HoldsMarker(queue[t])
         /\ FlushInv'
<1>1. /\ flush' = M!NoFlush /\ queue' = queue /\ posted' = posted
      /\ flush.open = 0 /\ flush.checked = Null
  BY DEF M!EndFlush, M!queueVars, M!MayChangeList
<1>2. Marked = {}
  <2>1. IsFiniteSet(Marked) /\ Cardinality(Marked) \in Nat /\ Cardinality(Marked) = 0
    BY <1>1, FS_CardinalityType DEF FlushInv, MarkersCounted
  <2>2. QED
    BY <2>1, FS_EmptySet
<1>3. \A t \in Threads : ~HoldsMarker(queue[t])
  BY <1>2 DEF Marked
<1>4. /\ flush'.by = Null /\ flush'.left = {} /\ flush'.checked = Null
      /\ flush'.open = 0 /\ flush'.before = {} /\ flush'.admitted = FALSE
  BY <1>1 DEF M!NoFlush
<1>5. MarkersCounted'
  <2>1. Marked' = {}
    BY <1>1, <1>2 DEF Marked
  <2>2. QED
    BY <1>4, <2>1, FS_EmptySet DEF MarkersCounted
<1>6. FlushTyped'
  <2>1. M!NoFlush \in [by : Mains \cup {Null}, left : SUBSET Threads, checked : Threads \cup {Null},
                       open : Int, admitted : BOOLEAN, before : SUBSET (Threads \X (1 .. posted))]
    BY DEF M!NoFlush
  <2>2. QED
    BY <1>1, <2>1 DEF FlushInv, FlushTyped
<1>7. \A t \in Threads : Closes(t, queue'[t], flush'.before)
  BY <1>1, <1>4 DEF FlushInv, Closes
<1>8. QED
  BY <1>3, <1>4, <1>5, <1>6, <1>7 DEF FlushInv

LEMMA FlushKeeps ==
  ASSUME Apart, ManagerInv, FlushInv, [M!Next]_M!vars
  PROVE  FlushInv'
<1>1. ASSUME UNCHANGED <<posted, queue, flush>>
      PROVE  FlushInv'
  BY <1>1 DEF FlushInv, FlushTyped, MarkersCounted, Marked
<1>2. ASSUME NEW m \in Mains, NEW t \in Threads,
             \/ M!Create(m, t) \/ M!Start(m, t) \/ (\E d \in BOOLEAN : M!Stop(m, t, d))
             \/ M!WrapCurrentThread(m, t) \/ M!AutoThread(m, t) \/ M!AutoSocketServerThread(m, t)
      PROVE  FlushInv'
  BY <1>1, <1>2 DEF M!Create, M!Start, M!Stop, M!WrapCurrentThread, M!AutoThread,
     M!AutoSocketServerThread, M!queueVars
<1>3. ASSUME NEW m \in Mains, M!Join(m)
      PROVE  FlushInv'
  <2>1. posted' = posted /\ (M!Destroyed(joining[m][1]) \/ UNCHANGED <<posted, queue, flush>>)
        /\ joining[m] # << >>
    BY <1>3 DEF M!Join
  <2>2. joining[m][1] \in Threads
    BY <2>1 DEF ManagerInv, Joins
  <2>3. QED
    BY <1>1, <2>1, <2>2, DestroyedKeeps
<1>4. ASSUME NEW m \in Mains, M!UnwrapCurrentThread(m)
      PROVE  FlushInv'
  <2>1. posted' = posted /\ M!Destroyed(current[m]) /\ current[m] # Null
    BY <1>4 DEF M!UnwrapCurrentThread
  <2>2. current[m] \in Threads
    BY <2>1 DEF ManagerInv, ManagerTyped, M!SystemThreads
  <2>3. QED
    BY <2>1, <2>2, DestroyedKeeps
<1>5. ASSUME NEW m \in Mains, M!EndScope(m)
      PROVE  FlushInv'
  <2>1. posted' = posted /\ M!Destroyed(M!Last(stack[m])) /\ stack[m] # << >>
        /\ stack' = [stack EXCEPT ![m] = M!Front(@)]
    BY <1>5 DEF M!EndScope
  <2>2. M!Last(stack[m]) \in Threads
    BY <2>1, PopKeeps
  <2>3. QED
    BY <2>1, <2>2, DestroyedKeeps
<1>6. ASSUME NEW m \in Mains, M!BeginFlush(m)
      PROVE  FlushInv'
  BY <1>6, BeginFlushKeeps
<1>7. ASSUME NEW t \in Threads,
             \/ M!PreRun(t) \/ M!NothingReady(t) \/ M!EndRun(t)
             \/ M!Quit(t) \/ M!Post(t) \/ M!Dispatch(t)
      PROVE  FlushInv'
  <2>1. CASE M!PreRun(t) \/ M!NothingReady(t) \/ M!EndRun(t) \/ M!Quit(t)
    BY <1>1, <2>1 DEF M!PreRun, M!NothingReady, M!EndRun, M!Quit, M!queueVars
  <2>2. QED
    BY <1>7, <2>1, PostKeeps, DispatchKeeps
<1>8. ASSUME M!CheckQueue \/ M!AdmitMarker \/ M!PostMarker \/ M!EndFlush
      PROVE  FlushInv'
  BY <1>8, CheckQueueKeeps, AdmitMarkerKeeps, PostMarkerKeeps, FlushEnds
<1>9. ASSUME UNCHANGED M!vars
      PROVE  FlushInv'
  BY <1>1, <1>9 DEF M!vars, M!queueVars
<1>10. QED
  BY <1>2, <1>3, <1>4, <1>5, <1>6, <1>7, <1>8, <1>9 DEF M!Next

LEMMA FlushStarts ==
  ASSUME M!Init
  PROVE  FlushInv
<1>1. /\ posted = 0 /\ flush = M!NoFlush /\ queue = [t \in Threads |-> << >>]
      /\ << >> \in Seq(Nat) /\ Len(<< >>) = 0 /\ 1 .. 0 = {}
  BY EmptySeq DEF M!Init
<1>2. \A t \in Threads : queue[t] = << >> /\ 1 .. Len(queue[t]) = {}
  BY <1>1
<1>3. /\ flush.by = Null /\ flush.left = {} /\ flush.checked = Null
      /\ flush.open = 0 /\ flush.before = {} /\ flush.admitted = FALSE
  BY <1>1 DEF M!NoFlush
<1>4. FlushTyped
  <2>1. M!NoFlush \in [by : Mains \cup {Null}, left : SUBSET Threads, checked : Threads \cup {Null},
                       open : Int, admitted : BOOLEAN, before : SUBSET (Threads \X (1 .. posted))]
    BY DEF M!NoFlush
  <2>2. queue \in [Threads -> Seq(Nat)]
    BY <1>1
  <2>3. QED
    BY <1>1, <1>2, <2>1, <2>2 DEF FlushTyped
<1>5. MarkersCounted
  <2>1. Marked = {}
    BY <1>2 DEF Marked, HoldsMarker
  <2>2. QED
    BY <1>3, <2>1, FS_EmptySet DEF MarkersCounted
<1>6. \A t \in Threads : Closes(t, queue[t], flush.before)
  BY <1>2 DEF Closes
<1>7. QED
  BY <1>3, <1>4, <1>5, <1>6 DEF FlushInv

(* No step but the last of a flush ends it.                                *)
LEMMA WhoEndsTheFlush ==
  ASSUME Apart, FlushInv, [M!Next]_M!vars, flush.by # Null, flush'.by = Null
  PROVE  M!EndFlush
<1>1. flush \in [by : Mains \cup {Null}, left : SUBSET Threads, checked : Threads \cup {Null},
                 open : Int, admitted : BOOLEAN, before : SUBSET (Threads \X (1 .. posted))]
  BY DEF FlushInv, FlushTyped
<1>2. flush' # flush
  OBVIOUS
<1>3. \A t : ~M!Destroyed(t)
  BY <1>1 DEF M!Destroyed
<1>4. \A m \in Mains, t \in Threads :
        ~(\/ M!Create(m, t) \/ M!Start(m, t) \/ (\E d \in BOOLEAN : M!Stop(m, t, d))
          \/ M!WrapCurrentThread(m, t) \/ M!AutoThread(m, t) \/ M!AutoSocketServerThread(m, t))
  BY <1>2 DEF M!Create, M!Start, M!Stop, M!WrapCurrentThread, M!AutoThread,
     M!AutoSocketServerThread
<1>5. \A m \in Mains : ~(M!Join(m) \/ M!UnwrapCurrentThread(m) \/ M!EndScope(m) \/ M!BeginFlush(m))
  <2>1. \A m \in Mains : ~M!Join(m)
    BY <1>2, <1>3 DEF M!Join
  <2>2. \A m \in Mains : ~(M!UnwrapCurrentThread(m) \/ M!EndScope(m))
    BY <1>3 DEF M!UnwrapCurrentThread, M!EndScope
  <2>3. \A m \in Mains : ~M!BeginFlush(m)
    BY DEF M!BeginFlush, M!NoFlush
  <2>4. QED
    BY <2>1, <2>2, <2>3
<1>6. \A t \in Threads : ~(\/ M!PreRun(t) \/ M!NothingReady(t) \/ M!EndRun(t)
                            \/ M!Quit(t) \/ M!Post(t) \/ M!Dispatch(t))
  <2>1. \A t : ~(M!PreRun(t) \/ M!NothingReady(t) \/ M!EndRun(t) \/ M!Quit(t) \/ M!Post(t))
    BY <1>2 DEF M!PreRun, M!NothingReady, M!EndRun, M!Quit, M!Post
  <2>2. \A t : ~M!Dispatch(t)
    BY <1>1, <1>2 DEF M!Dispatch
  <2>3. QED
    BY <2>1, <2>2
<1>7. ~M!CheckQueue /\ ~M!AdmitMarker /\ ~M!PostMarker /\ ~UNCHANGED M!vars
  BY <1>1, <1>2 DEF M!CheckQueue, M!AdmitMarker, M!PostMarker, M!MarkerIsIn, M!vars
<1>8. QED
  BY <1>4, <1>5, <1>6, <1>7 DEF M!Next

(* "All messages that came before it were also dispatched": when the flush *)
(* of all queues returns, what was in a queue before its marker is gone,   *)
(* and so are the markers (thread.cc:190), whatever threads end, stop or   *)
(* post in between.                                                        *)
THEOREM FlushWaitsForAll ==
  ASSUME Apart
  PROVE  M!Spec => M!EarlierMessagesDispatched
<1>1. M!Init => ManagerInv /\ FlushInv
  BY ManagerStarts, FlushStarts
<1>2. ManagerInv /\ FlushInv /\ [M!Next]_M!vars => (ManagerInv /\ FlushInv)'
  BY ManagerKeeps, FlushKeeps
<1>3. ManagerInv /\ FlushInv /\ [M!Next]_M!vars =>
        [flush.by # Null /\ flush'.by = Null =>
           \A t \in Threads : /\ ~M!Contains(queue[t], M!Marker)
                              /\ \A n \in M!ToSet(queue[t]) : <<t, n>> \notin flush.before]_M!vars
  <2>1. SUFFICES ASSUME FlushInv, [M!Next]_M!vars, flush.by # Null, flush'.by = Null,
                        NEW t \in Threads
                 PROVE  /\ ~M!Contains(queue[t], M!Marker)
                        /\ \A n \in M!ToSet(queue[t]) : <<t, n>> \notin flush.before
    OBVIOUS
  <2>2. ~HoldsMarker(queue[t])
    BY <2>1, WhoEndsTheFlush, FlushEnds
  <2>3. ASSUME NEW n \in M!ToSet(queue[t]), <<t, n>> \in flush.before
        PROVE  FALSE
    <3>1. DOMAIN queue[t] = 1 .. Len(queue[t])
      BY <2>1, LenProperties DEF FlushInv, FlushTyped
    <3>2. PICK k \in 1 .. Len(queue[t]) : queue[t][k] = n
      BY <3>1 DEF M!ToSet
    <3>3. Closes(t, queue[t], flush.before)
      BY <2>1 DEF FlushInv
    <3>4. HoldsMarker(queue[t])
      BY <2>3, <3>2, <3>3 DEF Closes, HoldsMarker
    <3>5. QED
      BY <2>2, <3>4
  <2>4. QED
    BY <2>2, <2>3 DEF HoldsMarker, M!Contains
<1>4. QED
  BY <1>1, <1>2, <1>3, PTL DEF M!Spec, M!EarlierMessagesDispatched

-----------------------------------------------------------------------------
(* What holds in MCServices, where one of these runs at a time.            *)

LEMMA ManagerRuns == Spec => M!Spec
<1>1. managerVars' = managerVars => UNCHANGED M!vars
  BY DEF managerVars, M!vars, M!currentVars, M!objectVars, M!callVars, M!queueVars
<1>2. [Next]_vars => [M!Next]_M!vars
  BY <1>1 DEF Next, Resolver, RepeatingStep, LockStep, CountStep, Manager, LogStep, Tracer, PolicyStep, CheckerStep, ScopeStep, Others,
          threadVars, vars
<1>3. Init => M!Init
  BY DEF Init
<1>4. QED
  BY <1>2, <1>3, PTL DEF Spec, M!Spec

LEMMA PoliciesRun == Spec => P!Spec
<1>1. policyVars' = policyVars => UNCHANGED P!vars
  BY DEF policyVars, P!vars, P!settings, P!counts
<1>2. [Next]_vars => [P!Next]_P!vars
  BY <1>1 DEF Next, Resolver, RepeatingStep, LockStep, CountStep, Manager, LogStep, Tracer, PolicyStep, CheckerStep, ScopeStep, Others,
          threadVars, vars
<1>3. Init => P!Init
  BY DEF Init
<1>4. QED
  BY <1>2, <1>3, PTL DEF Spec, P!Spec

(* Every thread knows which it is, and what it allows itself to call       *)
(* (thread.cc).                                                            *)
THEOREM ThreadsKeepAgreeing == Spec => []ThreadsAgree
<1>1. M!CurrentThreadsAgree /\ P!PoliciesHold => ThreadsAgree
  BY DEF ThreadsAgree
<1>2. Apart
  BY ServicesAssumption DEF Apart
<1>3. M!Spec => []M!CurrentThreadsAgree
  BY <1>2, CurrentThreadsAreKnown
<1>4. QED
  BY <1>1, <1>3, ManagerRuns, PoliciesRun, PoliciesAreKept, PTL

(* The messages that came before a flush are dispatched when it ends       *)
(* (thread.cc:190), whoever quits, ends or is destroyed while it goes on.   *)
(* That it ends is a property under fairness, and left to the run.         *)
THEOREM EarlierAreDispatched == Spec => EarlierMessagesDispatched
<1>1. Apart
  BY ServicesAssumption DEF Apart
<1>2. M!Spec => M!EarlierMessagesDispatched
  BY <1>1, FlushWaitsForAll
<1>3. M!EarlierMessagesDispatched => EarlierMessagesDispatched
  BY DEF EarlierMessagesDispatched
<1>4. QED
  BY <1>2, <1>3, ManagerRuns
==================================================================================
