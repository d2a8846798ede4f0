-------------------------------- MODULE FlatTree --------------------------------
(***************************************************************************)
(* flat_tree and flat_map (rtc_base/containers): a map kept in a sorted    *)
(* vector.  A value is <<key, mapped>>, an iterator is a place in the      *)
(* vector, end() the place after the last.  The algorithms of the standard *)
(* library are what they compute on their sorted or unsorted ranges.       *)
(***************************************************************************)
EXTENDS Integers, Sequences, FiniteSets, SequencesExt, Functions

CONSTANTS Keys,       \* integers, ordered by comp_
          Mapped,
          Default,    \* the mapped value operator[] makes
          MaxRange    \* bound: length of the ranges that are inserted

VARIABLES body_,
          map,        \* history: what an ordered map holds after the same calls
          returned    \* what the last insertion returned, or NoPlace

vars == <<body_, map, returned>>

Values == Keys \X Mapped
NoPlace == [key |-> Default, at |-> 0, inserted |-> FALSE]

-----------------------------------------------------------------------------
(* Sorted ranges *)

Key(v) == v[1]
Comp(v, w) == Key(v) < Key(w)
End(s) == Len(s) + 1

lower_bound(s, k) == 1 + Cardinality({i \in DOMAIN s : Key(s[i]) < k})
upper_bound(s, k) == 1 + Cardinality({i \in DOMAIN s : Key(s[i]) <= k})

equal_range(s, k) ==
  LET lower == lower_bound(s, k)
  IN  IF lower = End(s) \/ k < Key(s[lower]) THEN <<lower, lower>> ELSE <<lower, lower + 1>>

find(s, k) ==
  LET range == equal_range(s, k) IN IF range[1] = range[2] THEN End(s) ELSE range[1]
count(s, k) == equal_range(s, k)[2] - equal_range(s, k)[1]
contains(s, k) == LET lower == lower_bound(s, k) IN lower # End(s) /\ ~(k < Key(s[lower]))

is_sorted_and_unique(s) == \A i \in 1 .. Len(s) - 1 : Comp(s[i], s[i + 1])

(* Also std::stable_sort: equal keys keep their order.                     *)
InsertionSort(s) == FoldLeft(LAMBDA t, v : InsertAt(t, upper_bound(t, Key(v)), v), << >>, s)

(* std::unique keeps the first of equal neighbours.                        *)
sort_and_unique(s) ==
  FoldLeft(LAMBDA t, v : IF t # << >> /\ ~Comp(Last(t), v) THEN t ELSE Append(t, v),
           << >>, InsertionSort(s))

-----------------------------------------------------------------------------
(* Insertion: the new body, the place returned, and whether it is new *)

unsafe_emplace(s, at, v) == [body |-> InsertAt(s, at, v), at |-> at, inserted |-> TRUE]
Found(s, at) == [body |-> s, at |-> at, inserted |-> FALSE]

emplace_key_args(s, v) ==
  LET lower == lower_bound(s, Key(v))
  IN  IF lower = End(s) \/ Comp(v, s[lower]) THEN unsafe_emplace(s, lower, v) ELSE Found(s, lower)

emplace_hint_key_args(s, hint, v) ==
  LET after == hint = 1 \/ Comp(s[hint - 1], v)
      before == hint = End(s) \/ Comp(v, s[hint])
  IN  IF after /\ before THEN unsafe_emplace(s, hint, v)
      ELSE IF after /\ ~Comp(s[hint], v) THEN Found(s, hint)
      ELSE emplace_key_args(s, v)

(* What the range insertion appends, sought only among the old elements.   *)
append_unique(s, new) == SelectSeq(new, LAMBDA v : ~contains(s, Key(v)))

(* Mutant: the place of the last new element instead of the first. *)
PosFirstNew_Last(s, new) == IF new = << >> THEN End(s) ELSE lower_bound(s, Key(Last(new)))

(* Where the merge has to begin.                                           *)
PosFirstNew(s, new) ==
  CHOOSE p \in {lower_bound(s, Key(v)) : v \in ToSet(new)} \cup {End(s)} :
    \A v \in ToSet(new) : p <= lower_bound(s, Key(v))

(* A single element is inserted with end() as its hint.                    *)
insert_range(s, range) ==
  LET new == append_unique(s, range)
      first == PosFirstNew(s, new)
  IN  IF range = << >> THEN s
      ELSE IF Len(range) = 1 THEN emplace_hint_key_args(s, End(s), range[1]).body
      ELSE SubSeq(s, 1, first - 1)
             \o InsertionSort(SubSeq(s, first, Len(s)) \o sort_and_unique(new))

-----------------------------------------------------------------------------
(* Operations *)

Ranges == SeqOf(Values, MaxRange)
FirstOf(range) == [k \in {Key(v) : v \in ToSet(range)} |->
                     SelectSeq(range, LAMBDA v : Key(v) = k)[1][2]]
Joined(f, g) == [k \in DOMAIN f \cup DOMAIN g |-> IF k \in DOMAIN f THEN f[k] ELSE g[k]]
Init == body_ = << >> /\ map = << >> /\ returned = NoPlace

Returns(r, v) ==
  body_' = r.body /\ returned' = [key |-> Key(v), at |-> r.at, inserted |-> r.inserted]

(* insert, emplace and try_emplace.                                        *)
Insert(v) ==
  /\ Returns(emplace_key_args(body_, v), v)
  /\ map' = Joined(map, FirstOf(<<v>>))

InsertAtHint(hint, v) ==
  /\ Returns(emplace_hint_key_args(body_, hint, v), v)
  /\ map' = Joined(map, FirstOf(<<v>>))

Assigned(r, v) == IF r.inserted THEN r ELSE [r EXCEPT !.body[r.at] = <<Key(@), v[2]>>]

insert_or_assign(v) ==
  /\ \E r \in {emplace_key_args(body_, v)}
              \cup {emplace_hint_key_args(body_, hint, v) : hint \in 1 .. End(body_)} :
       Returns(Assigned(r, v), v)
  /\ map' = Joined(FirstOf(<<v>>), map)

(* map[k] = m: an element with the default value is made, then assigned.   *)
Subscript(v) ==
  LET found == lower_bound(body_, Key(v))
      there == IF found = End(body_) \/ Comp(v, body_[found])
                 THEN unsafe_emplace(body_, found, <<Key(v), Default>>)
                 ELSE Found(body_, found)
  IN  /\ body_' = [there.body EXCEPT ![found][2] = v[2]]
      /\ map' = Joined(FirstOf(<<v>>), map)
      /\ returned' = NoPlace

InsertRange(range) ==
  /\ body_' = insert_range(body_, range)
  /\ map' = Joined(map, FirstOf(range))
  /\ returned' = NoPlace

(* The constructors and assignments that sort.                             *)
Construct(range) ==
  /\ body_' = sort_and_unique(range)
  /\ map' = FirstOf(range)
  /\ returned' = NoPlace

(* extract() gives the body away, replace() and the constructors marked    *)
(* sorted_unique take one that is sorted.                                  *)
extract == body_' = << >> /\ map' = << >> /\ returned' = NoPlace
replace(body) ==
  /\ is_sorted_and_unique(body)
  /\ body_' = body /\ map' = FirstOf(body) /\ returned' = NoPlace

erase(first, last) ==
  /\ body_' = SubSeq(body_, 1, first - 1) \o SubSeq(body_, last, Len(body_))
  /\ map' = Restrict(map, DOMAIN map \ {Key(body_[i]) : i \in first .. last - 1})
  /\ returned' = NoPlace

erase_key(k) ==
  LET range == equal_range(body_, k)
  IN  /\ body_' = SubSeq(body_, 1, range[1] - 1) \o SubSeq(body_, range[2], Len(body_))
      /\ map' = Restrict(map, DOMAIN map \ {k})
      /\ returned' = NoPlace

EraseIf(keys) ==
  /\ body_' = SelectSeq(body_, LAMBDA v : Key(v) \notin keys)
  /\ map' = Restrict(map, DOMAIN map \ keys)
  /\ returned' = NoPlace

Next ==
  \/ \E v \in Values : Insert(v) \/ insert_or_assign(v) \/ Subscript(v)
                       \/ \E hint \in 1 .. End(body_) : InsertAtHint(hint, v)
  \/ \E range \in Ranges : InsertRange(range) \/ Construct(range) \/ replace(range)
  \/ \E first, last \in 1 .. End(body_) : first <= last /\ erase(first, last)
  \/ \E k \in Keys : erase_key(k)
  \/ \E keys \in SUBSET Keys : EraseIf(keys)
  \/ extract

Spec == Init /\ [][Next]_vars

-----------------------------------------------------------------------------
(* After every call the vector is sorted without duplicates and holds what *)
(* an ordered map would, every key is found where it is, and an insertion  *)
(* returns the place of its key and whether the key is new, whatever the   *)
(* hint was and whatever a range holds twice.                              *)
Agrees ==
  /\ is_sorted_and_unique(body_)
  /\ map = [k \in {Key(v) : v \in ToSet(body_)} |-> body_[lower_bound(body_, k)][2]]
  /\ \A k \in Keys :
       LET there == k \in DOMAIN map
       IN  /\ contains(body_, k) = there
           /\ count(body_, k) = IF there THEN 1 ELSE 0
           /\ find(body_, k) # End(body_) <=> there
           /\ there => body_[find(body_, k)] = <<k, map[k]>>
           /\ upper_bound(body_, k) = equal_range(body_, k)[2]

ActsAsMap ==
  [][/\ Agrees'
     /\ returned' # NoPlace =>
          /\ Key(body_'[returned'.at]) = returned'.key
          /\ returned'.inserted <=> returned'.key \notin DOMAIN map]_vars
================================================================================
