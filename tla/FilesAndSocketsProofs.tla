----------------------- MODULE FilesAndSocketsProofs -----------------------
(***************************************************************************)
(* What the library does with descriptors and files.                       *)
(*                                                                         *)
(* Of the two socket servers of MCFilesAndSockets, for any number of sockets,      *)
(* descriptors and calls: what epoll watches, and which socket is told of  *)
(* what was seen on a descriptor.  Of FileRotatingStream, for any number   *)
(* and size of files, whatever call on the file system fails and wherever  *)
(* the process ends: the files are read back in the order of writing, and  *)
(* the two ends of the log are kept within its size.                       *)
(***************************************************************************)
EXTENDS MCFilesAndSockets, FiniteSetTheorems, WellFoundedInduction, TLAPS

(* What holds of a set that is not empty: it has a smallest number.        *)
LEMMA Least ==
  ASSUME NEW S, S \subseteq Nat, S # {}
  PROVE  \E x \in S : \A y \in S : x <= y
<1> DEFINE Upto == {0 .. n : n \in S}
<1>1. Upto \subseteq FiniteSubsetsOf(Nat) /\ Upto # {}
  <2>1. ASSUME NEW n \in S PROVE 0 .. n \in FiniteSubsetsOf(Nat)
    BY FS_Interval DEF FiniteSubsetsOf
  <2> QED
    BY <2>1
<1>2. PICK U \in Upto : \A V \in Upto : <<V, U>> \notin StrictSubsetOrdering(Nat)
  <2> HIDE DEF Upto
  <2> QED
    BY <1>1, FS_StrictSubsetOrderingWellFounded, WFMin
<1>3. PICK x \in S : U = 0 .. x
  OBVIOUS
<1>4. ASSUME NEW y \in S PROVE x <= y
  <2>1. ~ (0 .. y \subseteq 0 .. x /\ 0 .. y # 0 .. x)
    <3>1. <<0 .. y, 0 .. x>> \notin StrictSubsetOrdering(Nat)
      BY <1>2, <1>3
    <3>2. 0 .. y \in SUBSET Nat /\ 0 .. x \in SUBSET Nat
      OBVIOUS
    <3> QED
      BY <3>1, <3>2 DEF StrictSubsetOrdering
  <2>2. CASE y < x
    <3>1. 0 .. y \subseteq 0 .. x /\ x \in 0 .. x /\ x \notin 0 .. y
      BY <2>2
    <3> QED
      BY <2>1, <3>1
  <2> QED
    BY <2>2
<1> QED
  BY <1>4

LEMMA Smallest ==
  ASSUME NEW S, S \subseteq Nat, S # {}
  PROVE  Min(S) \in S /\ W!Min(S) \in S
BY Least DEF Min, W!Min

-----------------------------------------------------------------------------
(* The server of POSIX.  The values its state can have.                    *)
File == [id : Nat, data : BOOLEAN, eof : BOOLEAN, room : BOOLEAN, err : BOOLEAN,
         kind : {"none", "fresh", "connecting", "connected", "listening", "udp"}]
SocketState == [s : Descriptors \cup {INVALID_SOCKET},
                state : {"closed", "connecting", "connected"},
                enabled : SUBSET Flags, saved : (SUBSET Flags) \cup {NoBatch},
                udp : BOOLEAN, resolver : {"none", "pending"}]
Asking == [events : SUBSET {"in", "out"}, key : Nat]

TypeOK ==
  /\ epoll_fd_ \in BOOLEAN
  /\ kernel \in [Descriptors -> File] /\ files \in Nat
  /\ interest \in [Descriptors -> Asking]
  /\ socket \in [Sockets -> SocketState]
  /\ key_by_dispatcher_ \in [Sockets -> Nat]
  /\ next_dispatcher_key_ \in Nat \ {0, 1}
  /\ event \in [d : Sockets \cup {NoSocket}, ff : SUBSET Flags, slot : Flags \cup {"none"}]
  /\ event.d = NoSocket => event = NoEvent

(* The table of dispatchers.  A socket that has a descriptor is in it, has *)
(* a file and shares neither its descriptor nor its key; no key is given   *)
(* out twice; only the socket of the event under way keeps its updates of  *)
(* epoll back, and none that it had enabled before it was closed.          *)
TableOK ==
  /\ \A d \in Sockets : Open(d) <=> key_by_dispatcher_[d] # 0
  /\ \A d \in Sockets : Open(d) => kernel[socket[d].s].id # 0
  /\ \A d, e \in Sockets : Open(d) /\ socket[d].s = socket[e].s => d = e
  /\ \A d, e \in Sockets :
       Open(d) /\ key_by_dispatcher_[d] = key_by_dispatcher_[e] => d = e
  /\ \A d \in Sockets : key_by_dispatcher_[d] < next_dispatcher_key_
  /\ \A d \in Sockets : key_by_dispatcher_[d] # SignalerKey
  /\ \A d \in Sockets :
       socket[d].saved # NoBatch => event.d = d /\ (Open(d) \/ socket[d].saved = {})

(* What epoll watches for a socket: what was enabled when the updates were *)
(* last kept back, or is enabled now.                                      *)
Watched(s) == IF s.saved = NoBatch THEN s.enabled ELSE s.saved
Interests(d) == Interest(GetEpollEvents(Watched(socket[d])), key_by_dispatcher_[d])

EpollOK ==
  epoll_fd_ =>
    /\ \A d \in Sockets : Open(d) => interest[socket[d].s] = Interests(d)
    /\ \A fd \in Descriptors : interest[fd] # NoInterest =>
         \E d \in Sockets : Open(d) /\ socket[d].s = fd

(* An entry of the batch names a dispatcher that is gone, or the one whose *)
(* file it was seen on.                                                    *)
BatchOK ==
  \A e \in batch :
    /\ e.key \in Nat \ {0} /\ e.key < next_dispatcher_key_
    /\ \A d \in Sockets : key_by_dispatcher_[d] = e.key => kernel[socket[d].s].id = e.file

PosixInv == TypeOK /\ TableOK /\ EpollOK /\ BatchOK

LEMMA FlagsHaveEvents ==
  ASSUME NEW ff
  PROVE  GetEpollEvents(ff) \in SUBSET {"in", "out"}
BY DEF GetEpollEvents

LEMMA InterestTyped ==
  ASSUME NEW events \in SUBSET {"in", "out"}, NEW key \in Nat
  PROVE  Interest(events, key) \in Asking
BY DEF Interest, NoInterest, Asking

LEMMA InitPosix == Init => PosixInv
<1> SUFFICES ASSUME Init PROVE PosixInv
  OBVIOUS
<1> USE ServerAssumption
<1>1. TypeOK
  <2>1. NoFile \in File /\ NoInterest \in Asking
    BY DEF NoFile, File, NoInterest, Asking
  <2>2. ClosedSocket \in SocketState
    <3>1. {} \in SUBSET Flags /\ NoBatch \in (SUBSET Flags) \cup {NoBatch}
      OBVIOUS
    <3> HIDE DEF NoBatch, Flags
    <3> QED
      BY <3>1 DEF ClosedSocket, SocketState
  <2>3. NoEvent \in [d : Sockets \cup {NoSocket}, ff : SUBSET Flags, slot : Flags \cup {"none"}]
    BY DEF NoEvent
  <2> QED
    BY <2>1, <2>2, <2>3 DEF Init, TypeOK, SignalerKey
<1>2. \A d \in Sockets : ~Open(d) /\ socket[d].saved = NoBatch /\ key_by_dispatcher_[d] = 0
  BY DEF Init, Open, ClosedSocket
<1>3. TableOK
  BY <1>2 DEF TableOK, Init, SignalerKey
<1>4. EpollOK /\ BatchOK
  BY <1>2 DEF EpollOK, BatchOK, Init
<1> QED
  BY <1>1, <1>3, <1>4 DEF PosixInv

-----------------------------------------------------------------------------
(* The kinds of steps: each keeps the invariant, and each call of the      *)
(* program and each step of the loop is of one kind or two.                *)

(* A socket's flags change and epoll is told of it, or will be.            *)
Changes(d, new) ==
  new \in SocketState /\ new.s = socket[d].s /\ new.saved = socket[d].saved
Enables(d, new) == Changes(d, new) /\ Change(d, new)
SameFiles == \A fd \in Descriptors : kernel'[fd].id = kernel[fd].id
SameTable == UNCHANGED <<epoll_fd_, tableVars>>

LEMMA ChangeTold ==
  ASSUME PosixInv, NEW d \in Sockets, NEW new, Changes(d, new),
         NEW known, known = MaybeUpdateDispatcher(d, socket[d].enabled, new)
  PROVE  /\ known \in [Descriptors -> Asking]
         /\ \A fd \in Descriptors : fd # socket[d].s => known[fd] = interest[fd]
         /\ ~Open(d) => known = interest
         /\ epoll_fd_ /\ Open(d) =>
              known[new.s] = Interest(GetEpollEvents(Watched(new)), key_by_dispatcher_[d])
<1> USE DEF PosixInv, TypeOK
<1> DEFINE told == Interest(GetEpollEvents(new.enabled), key_by_dispatcher_[d])
<1>1. told \in Asking
  BY FlagsHaveEvents, InterestTyped
<1> HIDE DEF told
<1>2. known = interest \/ (Open(d) /\ known = [interest EXCEPT ![new.s] = told])
  BY DEF MaybeUpdateDispatcher, UpdateEpoll, told, TableOK
<1>3. ASSUME epoll_fd_, Open(d)
      PROVE  known[new.s] = Interest(GetEpollEvents(Watched(new)), key_by_dispatcher_[d])
  <2>1. /\ new.s = socket[d].s /\ new.saved = socket[d].saved /\ new.s \in Descriptors
        /\ key_by_dispatcher_[d] # 0 /\ interest[socket[d].s] = Interests(d)
    BY <1>3 DEF Changes, TableOK, EpollOK, Open, SocketState
  <2>2. CASE new.saved # NoBatch
    <3>1. known = interest
      BY <2>2 DEF MaybeUpdateDispatcher
    <3> QED
      BY <2>1, <2>2, <3>1 DEF Interests, Watched
  <2>3. CASE new.saved = NoBatch /\ GetEpollEvents(new.enabled) # GetEpollEvents(socket[d].enabled)
    <3>1. known = [interest EXCEPT ![new.s] = told]
      BY <1>3, <2>1, <2>3 DEF MaybeUpdateDispatcher, UpdateEpoll, told
    <3> QED
      BY <2>1, <2>3, <3>1 DEF Watched, told
  <2>4. CASE new.saved = NoBatch /\ GetEpollEvents(new.enabled) = GetEpollEvents(socket[d].enabled)
    <3>1. known = interest
      BY <2>4 DEF MaybeUpdateDispatcher
    <3> QED
      BY <2>1, <2>4, <3>1 DEF Interests, Watched
  <2> QED
    BY <2>2, <2>3, <2>4
<1> QED
  BY <1>1, <1>2, <1>3 DEF Changes

(* What is left of epoll's set is about sockets.                           *)
LEMMA ChangeWatched ==
  ASSUME PosixInv, epoll_fd_, NEW d \in Sockets, NEW new, Changes(d, new),
         NEW known, known = MaybeUpdateDispatcher(d, socket[d].enabled, new)
  PROVE  \A fd \in Descriptors : known[fd] # NoInterest =>
           \E x \in Sockets : Open(x) /\ socket[x].s = fd
<1> SUFFICES ASSUME NEW fd \in Descriptors, known[fd] # NoInterest
             PROVE  \E x \in Sockets : Open(x) /\ socket[x].s = fd
  OBVIOUS
<1>1. CASE fd = socket[d].s
  BY <1>1, ServerAssumption DEF Open, INVALID_SOCKET
<1>2. CASE fd # socket[d].s
  BY <1>2, ChangeTold DEF PosixInv, EpollOK
<1> QED
  BY <1>1, <1>2

(* Descriptors, keys and files stay as they are.                           *)
LEMMA Carried ==
  ASSUME PosixInv, TypeOK', EpollOK', SameFiles, SameTable,
         \A x \in Sockets : socket'[x].s = socket[x].s,
         \A x \in Sockets : socket'[x].saved # NoBatch =>
           event'.d = x /\ (Open(x) \/ socket'[x].saved = {}),
         batch' \subseteq batch
  PROVE  PosixInv'
<1> USE DEF PosixInv, SameTable, tableVars
<1>1. \A x \in Sockets : Open(x)' <=> Open(x)
  BY DEF Open
<1>2. \A x \in Sockets : Open(x) => socket[x].s \in Descriptors
  BY DEF Open, TypeOK, SocketState
<1>3. TableOK'
  BY <1>1, <1>2 DEF TableOK, SameFiles
<1>4. BatchOK'
  <2> SUFFICES ASSUME NEW e \in batch
               PROVE  /\ e.key \in Nat \ {0} /\ e.key < next_dispatcher_key_
                      /\ \A x \in Sockets : key_by_dispatcher_[x] = e.key =>
                           kernel'[socket'[x].s].id = e.file
    BY DEF BatchOK
  <2>1. \A x \in Sockets : key_by_dispatcher_[x] = e.key => Open(x)
    BY DEF BatchOK, TableOK
  <2> QED
    BY <2>1, <1>2 DEF BatchOK, SameFiles
<1> QED
  BY <1>3, <1>4

LEMMA EnablesKeeps ==
  ASSUME PosixInv, NEW d \in Sockets, NEW new, Enables(d, new), SameFiles, SameTable,
         kernel' \in [Descriptors -> File], files' \in Nat,
         event' \in [d : Sockets \cup {NoSocket}, ff : SUBSET Flags, slot : Flags \cup {"none"}],
         event'.d = event.d, event.d = NoSocket => event' = event, batch' = batch
  PROVE  PosixInv'
<1>1. socket' = [socket EXCEPT ![d] = new] /\ new \in SocketState /\ socket \in [Sockets -> SocketState]
      /\ new.s = socket[d].s /\ new.saved = socket[d].saved
  BY DEF Enables, Changes, Change, PosixInv, TypeOK
<1>2. /\ interest' \in [Descriptors -> Asking]
      /\ \A fd \in Descriptors : fd # socket[d].s => interest'[fd] = interest[fd]
      /\ ~Open(d) => interest' = interest
      /\ epoll_fd_ /\ Open(d) =>
           interest'[new.s] = Interest(GetEpollEvents(Watched(new)), key_by_dispatcher_[d])
  BY ChangeTold DEF Enables, Change
<1>3. TypeOK'
  BY <1>1, <1>2 DEF PosixInv, TypeOK, SameTable, tableVars
<1>4. \A x \in Sockets : socket'[x].s = socket[x].s /\ socket'[x].saved = socket[x].saved
  BY <1>1
<1>5. ASSUME epoll_fd_ PROVE EpollOK'
  <2>1. \A x \in Sockets : Open(x)' <=> Open(x)
    BY <1>4 DEF Open
  <2>2. ASSUME NEW x \in Sockets, Open(x), x # d PROVE interest'[socket'[x].s] = Interests(x)'
    <3>1. socket[x].s # socket[d].s /\ socket[x].s \in Descriptors
      BY <2>2 DEF PosixInv, TableOK, Open, TypeOK, SocketState
    <3>2. socket'[x] = socket[x] /\ key_by_dispatcher_' = key_by_dispatcher_
      BY <1>1, <2>2 DEF SameTable, tableVars
    <3> QED
      BY <1>2, <1>5, <2>2, <3>1, <3>2 DEF PosixInv, EpollOK, Interests
  <2>3. ASSUME Open(d) PROVE interest'[socket'[d].s] = Interests(d)'
    <3>1. socket'[d] = new /\ key_by_dispatcher_' = key_by_dispatcher_
      BY <1>1 DEF SameTable, tableVars
    <3> QED
      BY <1>2, <1>5, <2>3, <3>1 DEF Interests
  <2>4. \A fd \in Descriptors : interest'[fd] # NoInterest =>
          \E x \in Sockets : Open(x) /\ socket[x].s = fd
    BY <1>5, ChangeWatched DEF Enables, Change
  <2> QED
    BY <1>4, <2>1, <2>2, <2>3, <2>4 DEF EpollOK
<1>6. EpollOK'
  BY <1>5 DEF EpollOK, SameTable
<1>7. \A x \in Sockets : socket'[x].saved # NoBatch =>
        event'.d = x /\ (Open(x) \/ socket'[x].saved = {})
  BY <1>4 DEF PosixInv, TableOK
<1> QED
  BY <1>3, <1>4, <1>6, <1>7, Carried

(* Nothing that epoll or the table is about changes.                       *)
LEMMA Unconcerned ==
  ASSUME PosixInv, TypeOK', SameFiles, SameTable, UNCHANGED interest,
         \A x \in Sockets : /\ socket'[x].s = socket[x].s
                            /\ Watched(socket'[x]) = Watched(socket[x])
                            /\ socket'[x].saved # NoBatch =>
                                 event'.d = x /\ (Open(x) \/ socket'[x].saved = {}),
         batch' \subseteq batch
  PROVE  PosixInv'
<1>1. \A x \in Sockets : Open(x)' <=> Open(x)
  BY DEF Open
<1>2. \A x \in Sockets : Interests(x)' = Interests(x)
  BY DEF Interests, SameTable, tableVars
<1>3. EpollOK'
  BY <1>1, <1>2 DEF PosixInv, EpollOK, SameTable
<1> QED
  BY <1>3, Carried

(* A descriptor is opened for a socket that has none.                      *)
LEMMA FreeIsFree ==
  ASSUME PosixInv, MayOpen
  PROVE  /\ FreeDescriptor \in Descriptors /\ kernel[FreeDescriptor].id = 0
         /\ \A x \in Sockets : Open(x) => socket[x].s # FreeDescriptor
<1> DEFINE S == {fd \in Descriptors : kernel[fd].id = 0}
<1>1. S \subseteq Nat /\ S # {}
  BY ServerAssumption DEF MayOpen
<1>2. Min(S) \in S
  BY <1>1, Smallest
<1>3. FreeDescriptor \in S
  BY <1>2 DEF FreeDescriptor
<1> QED
  BY <1>3 DEF PosixInv, TableOK

LEMMA JoinsKeeps ==
  ASSUME PosixInv, NEW d \in Sockets, ~Open(d),
         NEW fd \in Descriptors, \A x \in Sockets : Open(x) => socket[x].s # fd,
         socket' \in [Sockets -> SocketState], socket'[d].s = fd,
         \A x \in Sockets \ {d} : socket'[x].s = socket[x].s,
         \A x \in Sockets : socket'[x].saved = socket[x].saved,
         files' = files + 1,
         key_by_dispatcher_' = [key_by_dispatcher_ EXCEPT ![d] = next_dispatcher_key_],
         next_dispatcher_key_' = next_dispatcher_key_ + 1,
         interest' \in [Descriptors -> Asking],
         epoll_fd_ =>
           /\ interest'[fd] = Interest(GetEpollEvents(Watched(socket'[d])), next_dispatcher_key_)
           /\ \A x \in Sockets \ {d} : Open(x) =>
                interest'[socket[x].s] =
                  Interest(GetEpollEvents(Watched(socket'[x])), key_by_dispatcher_[x])
           /\ \A f \in Descriptors \ {fd} : interest'[f] # NoInterest =>
                \E x \in Sockets : Open(x) /\ socket[x].s = f,
         kernel' \in [Descriptors -> File], kernel'[fd].id # 0,
         \A x \in Descriptors : x # fd => kernel'[x].id = kernel[x].id,
         UNCHANGED <<epoll_fd_, loopVars>>
  PROVE  PosixInv'
<1> DEFINE key == next_dispatcher_key_
<1>1. /\ key \in Nat \ {0, 1} /\ fd # INVALID_SOCKET
      /\ key_by_dispatcher_'[d] = key
      /\ \A x \in Sockets \ {d} : key_by_dispatcher_'[x] = key_by_dispatcher_[x]
      /\ UNCHANGED <<event, batch>>
  BY ServerAssumption DEF PosixInv, TypeOK, INVALID_SOCKET, loopVars
<1> HIDE DEF key
<1>4. TypeOK'
  <2>1. key_by_dispatcher_' \in [Sockets -> Nat] /\ next_dispatcher_key_' \in Nat \ {0, 1}
        /\ files' \in Nat
    BY <1>1 DEF PosixInv, TypeOK, key
  <2> QED
    BY <2>1, <1>1 DEF PosixInv, TypeOK
<1>6. /\ Open(d)'
      /\ \A x \in Sockets \ {d} : Open(x)' <=> Open(x)
  BY <1>1 DEF Open
<1>7. \A x \in Sockets : key_by_dispatcher_[x] < key /\ key_by_dispatcher_[x] \in Nat
  BY DEF PosixInv, TableOK, TypeOK, key
<1>8. \A x \in Sockets : Open(x) => socket[x].s \in Descriptors /\ socket[x].s # fd
  BY DEF Open, PosixInv, TypeOK, SocketState
<1>9. TableOK'
  <2>1. \A x \in Sockets : Open(x)' <=> key_by_dispatcher_'[x] # 0
    BY <1>1, <1>6 DEF PosixInv, TableOK
  <2>2. \A x \in Sockets : Open(x)' => kernel'[socket'[x].s].id # 0
    BY <1>6, <1>8 DEF PosixInv, TableOK
  <2>3. \A x, y \in Sockets : Open(x)' /\ socket'[x].s = socket'[y].s => x = y
    BY <1>1, <1>6, <1>8 DEF PosixInv, TableOK, Open
  <2>4. \A x, y \in Sockets :
          Open(x)' /\ key_by_dispatcher_'[x] = key_by_dispatcher_'[y] => x = y
    BY <1>1, <1>6, <1>7 DEF PosixInv, TableOK
  <2>5. \A x \in Sockets : key_by_dispatcher_'[x] < next_dispatcher_key_'
    BY <1>1, <1>7 DEF key
  <2>6. \A x \in Sockets : key_by_dispatcher_'[x] # SignalerKey
    BY <1>1 DEF PosixInv, TableOK, SignalerKey
  <2>7. \A x \in Sockets : socket'[x].saved # NoBatch =>
          event'.d = x /\ (Open(x)' \/ socket'[x].saved = {})
    BY <1>1, <1>6 DEF PosixInv, TableOK
  <2> QED
    BY <2>1, <2>2, <2>3, <2>4, <2>5, <2>6, <2>7 DEF TableOK
<1>10. EpollOK'
  <2> SUFFICES ASSUME epoll_fd_ PROVE EpollOK'
    BY DEF EpollOK
  <2>2. interest'[socket'[d].s] = Interests(d)'
    BY <1>1 DEF Interests, key
  <2>3. ASSUME NEW x \in Sockets \ {d}, Open(x) PROVE interest'[socket'[x].s] = Interests(x)'
    BY <2>3, <1>1 DEF Interests
  <2>4. ASSUME NEW f \in Descriptors, interest'[f] # NoInterest
        PROVE  \E x \in Sockets : Open(x)' /\ socket'[x].s = f
    <3>1. CASE f = fd
      BY <3>1, <1>6
    <3>2. CASE f # fd
      <4>1. PICK x \in Sockets : Open(x) /\ socket[x].s = f
        BY <2>4, <3>2
      <4>2. x # d
        BY <4>1
      <4> QED
        BY <4>1, <4>2, <1>6
    <3> QED
      BY <3>1, <3>2
  <2> QED
    BY <2>2, <2>3, <2>4, <1>6 DEF EpollOK
<1>11. BatchOK'
  <2> SUFFICES ASSUME NEW e \in batch
               PROVE  /\ e.key \in Nat \ {0} /\ e.key < next_dispatcher_key_'
                      /\ \A x \in Sockets : key_by_dispatcher_'[x] = e.key =>
                           kernel'[socket'[x].s].id = e.file
    BY <1>1 DEF BatchOK
  <2>1. e.key \in Nat \ {0} /\ e.key < key
    BY DEF PosixInv, BatchOK, key
  <2>2. ASSUME NEW x \in Sockets, key_by_dispatcher_'[x] = e.key
        PROVE  kernel'[socket'[x].s].id = e.file
    <3>1. x # d
      BY <2>1, <2>2, <1>1
    <3>2. key_by_dispatcher_[x] = e.key /\ Open(x)
      BY <2>1, <2>2, <3>1, <1>1 DEF PosixInv, TableOK
    <3> QED
      BY <3>1, <3>2, <1>8 DEF PosixInv, BatchOK
  <2> QED
    BY <2>1, <2>2, <1>1 DEF key
<1> QED
  BY <1>4, <1>9, <1>10, <1>11 DEF PosixInv

LEMMA OpenedKeeps ==
  ASSUME PosixInv, NEW d \in Sockets, ~Open(d),
         NEW fd \in Descriptors, \A x \in Sockets : Open(x) => socket[x].s # fd,
         NEW added \in SUBSET Flags, NEW new \in SocketState, Opened(d, fd, added, new),
         new.saved = socket[d].saved, new.saved = NoBatch \/ new.saved = added,
         kernel' \in [Descriptors -> File], kernel'[fd].id # 0,
         \A x \in Descriptors : x # fd => kernel'[x].id = kernel[x].id,
         UNCHANGED <<epoll_fd_, loopVars>>
  PROVE  PosixInv'
<1> DEFINE key == next_dispatcher_key_
           opened == [new EXCEPT !.s = fd]
           known == IF new.saved = NoBatch THEN new.enabled ELSE added
           told == Interest(GetEpollEvents(known), key)
<1>1. /\ opened \in SocketState /\ opened.s = fd /\ opened.saved = new.saved
      /\ Watched(opened) = known /\ key \in Nat
  BY DEF SocketState, Watched, PosixInv, TypeOK
<1>2. told \in Asking
  BY <1>1, FlagsHaveEvents, InterestTyped
<1>3. /\ socket' = [socket EXCEPT ![d] = opened]
      /\ files' = files + 1
      /\ key_by_dispatcher_' = [key_by_dispatcher_ EXCEPT ![d] = key]
      /\ next_dispatcher_key_' = key + 1
      /\ interest' = IF epoll_fd_ THEN [interest EXCEPT ![fd] = told] ELSE interest
  BY DEF Opened
<1>4. told = Interest(GetEpollEvents(Watched(opened)), key)
  BY <1>1
<1> HIDE DEF opened, told, known
<1>5. /\ socket' \in [Sockets -> SocketState] /\ socket'[d] = opened
      /\ \A x \in Sockets \ {d} : socket'[x] = socket[x]
  BY <1>1, <1>3 DEF PosixInv, TypeOK
<1>6. interest' \in [Descriptors -> Asking]
  BY <1>2, <1>3 DEF PosixInv, TypeOK
<1>7. ASSUME epoll_fd_
      PROVE  /\ interest'[fd] = Interest(GetEpollEvents(Watched(socket'[d])), key)
             /\ \A x \in Sockets \ {d} : Open(x) =>
                  interest'[socket[x].s] =
                    Interest(GetEpollEvents(Watched(socket'[x])), key_by_dispatcher_[x])
             /\ \A f \in Descriptors \ {fd} : interest'[f] # NoInterest =>
                  \E x \in Sockets : Open(x) /\ socket[x].s = f
  <2>1. interest' = [interest EXCEPT ![fd] = told] /\ interest \in [Descriptors -> Asking]
    BY <1>3, <1>7 DEF PosixInv, TypeOK
  <2>2. \A x \in Sockets : Open(x) => interest[socket[x].s] = Interests(x)
                                      /\ socket[x].s \in Descriptors \ {fd}
    BY <1>7 DEF PosixInv, EpollOK, TypeOK, SocketState, Open
  <2>3. interest'[fd] = Interest(GetEpollEvents(Watched(socket'[d])), key)
    BY <2>1, <1>4, <1>5
  <2>4. \A x \in Sockets \ {d} : Open(x) =>
          interest'[socket[x].s] =
            Interest(GetEpollEvents(Watched(socket'[x])), key_by_dispatcher_[x])
    BY <2>1, <2>2, <1>5 DEF Interests
  <2>5. \A f \in Descriptors \ {fd} : interest'[f] # NoInterest =>
          \E x \in Sockets : Open(x) /\ socket[x].s = f
    BY <2>1, <1>7 DEF PosixInv, EpollOK
  <2> QED
    BY <2>3, <2>4, <2>5
<1>8. /\ socket'[d].s = fd
      /\ \A x \in Sockets \ {d} : socket'[x].s = socket[x].s
      /\ \A x \in Sockets : socket'[x].saved = socket[x].saved
  <2>1. \A x \in Sockets \ {d} : socket'[x].saved = socket[x].saved
    BY <1>5
  <2>2. socket'[d].saved = socket[d].saved
    BY <1>1, <1>5
  <2> QED
    BY <2>1, <2>2, <1>1, <1>5
<1>9. socket' \in [Sockets -> SocketState]
  BY <1>5
<1>10. /\ files' = files + 1
       /\ key_by_dispatcher_' = [key_by_dispatcher_ EXCEPT ![d] = next_dispatcher_key_]
       /\ next_dispatcher_key_' = next_dispatcher_key_ + 1
  BY <1>3
<1>11. epoll_fd_ =>
         /\ interest'[fd] = Interest(GetEpollEvents(Watched(socket'[d])), next_dispatcher_key_)
         /\ \A x \in Sockets \ {d} : Open(x) =>
              interest'[socket[x].s] =
                Interest(GetEpollEvents(Watched(socket'[x])), key_by_dispatcher_[x])
         /\ \A f \in Descriptors \ {fd} : interest'[f] # NoInterest =>
              \E x \in Sockets : Open(x) /\ socket[x].s = f
  BY <1>7
<1> QED
  BY <1>6, <1>8, <1>9, <1>10, <1>11, JoinsKeeps

LEMMA CloseKeeps ==
  ASSUME PosixInv, NEW d \in Sockets, Open(d), CloseSocket(d), UNCHANGED <<epoll_fd_, loopVars>>
  PROVE  PosixInv'
<1> DEFINE Closed(r) == [r EXCEPT !.s = INVALID_SOCKET, !.state = "closed", !.enabled = {},
                                  !.resolver = "none"]
           new == Closed(Removed(socket[d]))
           fd == socket[d].s
<1>1. /\ new \in SocketState /\ new.s = INVALID_SOCKET
      /\ new.saved # NoBatch => socket[d].saved # NoBatch /\ new.saved = {}
      /\ fd \in Descriptors
  <2>1. socket[d] \in SocketState /\ fd \in Descriptors
    BY DEF SocketState, PosixInv, TypeOK, Open
  <2>2. /\ Removed(socket[d]) \in SocketState
        /\ Removed(socket[d]).saved # NoBatch =>
             socket[d].saved # NoBatch /\ Removed(socket[d]).saved = {}
    <3>1. CASE socket[d].saved = NoBatch
      BY <2>1, <3>1 DEF Removed
    <3>2. CASE socket[d].saved # NoBatch
      BY <2>1, <3>2 DEF Removed, SocketState
    <3> QED
      BY <3>1, <3>2
  <2>3. ASSUME NEW r \in SocketState
        PROVE  Closed(r) \in SocketState /\ Closed(r).s = INVALID_SOCKET
               /\ Closed(r).saved = r.saved
    BY DEF SocketState
  <2> HIDE DEF Closed
  <2> QED
    BY <2>1, <2>2, <2>3
<1>2. /\ kernel' = [kernel EXCEPT ![fd] = NoFile]
      /\ interest' = [interest EXCEPT ![fd] = NoInterest]
      /\ key_by_dispatcher_' = [key_by_dispatcher_ EXCEPT ![d] = 0]
      /\ socket' = [socket EXCEPT ![d] = new]
      /\ UNCHANGED <<files, next_dispatcher_key_, epoll_fd_, event, batch>>
  BY DEF CloseSocket, loopVars
<1> HIDE DEF new
<1>3. NoFile \in File /\ NoInterest \in Asking
  BY DEF NoFile, File, NoInterest, Asking
<1>4. TypeOK'
  BY <1>1, <1>2, <1>3 DEF PosixInv, TypeOK
<1>5. /\ socket'[d] = new /\ key_by_dispatcher_'[d] = 0
      /\ \A x \in Sockets \ {d} : socket'[x] = socket[x]
                                  /\ key_by_dispatcher_'[x] = key_by_dispatcher_[x]
  BY <1>2 DEF PosixInv, TypeOK
<1>6. ~Open(d)' /\ \A x \in Sockets \ {d} : Open(x)' <=> Open(x)
  BY <1>1, <1>5 DEF Open
<1>7. \A x \in Sockets \ {d} : Open(x) =>
        /\ socket[x].s \in Descriptors /\ socket[x].s # fd
        /\ kernel'[socket[x].s] = kernel[socket[x].s]
        /\ interest'[socket[x].s] = interest[socket[x].s]
  BY <1>2 DEF Open, PosixInv, TypeOK, SocketState, TableOK
<1>8. TableOK'
  <2>1. \A x \in Sockets : Open(x)' <=> key_by_dispatcher_'[x] # 0
    BY <1>5, <1>6 DEF PosixInv, TableOK
  <2>2. \A x \in Sockets : Open(x)' => kernel'[socket'[x].s].id # 0
    BY <1>5, <1>6, <1>7 DEF PosixInv, TableOK
  <2>3. \A x, y \in Sockets : Open(x)' /\ socket'[x].s = socket'[y].s => x = y
    BY <1>1, <1>5, <1>6 DEF PosixInv, TableOK, Open
  <2>4. \A x, y \in Sockets :
          Open(x)' /\ key_by_dispatcher_'[x] = key_by_dispatcher_'[y] => x = y
    BY <1>5, <1>6 DEF PosixInv, TableOK
  <2>5. \A x \in Sockets : key_by_dispatcher_'[x] < next_dispatcher_key_'
                           /\ key_by_dispatcher_'[x] # SignalerKey
    BY <1>2, <1>5 DEF PosixInv, TableOK, TypeOK, SignalerKey
  <2>6. \A x \in Sockets : socket'[x].saved # NoBatch =>
          event'.d = x /\ (Open(x)' \/ socket'[x].saved = {})
    BY <1>1, <1>2, <1>5, <1>6 DEF PosixInv, TableOK
  <2> QED
    BY <2>1, <2>2, <2>3, <2>4, <2>5, <2>6 DEF TableOK
<1>9. EpollOK'
  <2> SUFFICES ASSUME epoll_fd_ PROVE EpollOK'
    BY <1>2 DEF EpollOK
  <2>1. ASSUME NEW x \in Sockets \ {d}, Open(x) PROVE interest'[socket'[x].s] = Interests(x)'
    BY <2>1, <1>5, <1>7 DEF Interests, PosixInv, EpollOK
  <2>2. ASSUME NEW f \in Descriptors, interest'[f] # NoInterest
        PROVE  \E x \in Sockets : Open(x)' /\ socket'[x].s = f
    <3>1. f # fd /\ interest[f] # NoInterest
      BY <2>2, <1>2 DEF PosixInv, TypeOK
    <3>2. PICK x \in Sockets : Open(x) /\ socket[x].s = f
      BY <3>1 DEF PosixInv, EpollOK
    <3>3. x # d
      BY <3>1, <3>2
    <3> QED
      BY <3>2, <3>3, <1>5, <1>6
  <2> QED
    BY <2>1, <2>2, <1>6 DEF EpollOK
<1>10. BatchOK'
  <2> SUFFICES ASSUME NEW e \in batch, NEW x \in Sockets, key_by_dispatcher_'[x] = e.key
               PROVE  kernel'[socket'[x].s].id = e.file
    BY <1>2 DEF BatchOK, PosixInv
  <2>1. x # d /\ key_by_dispatcher_[x] = e.key /\ Open(x)
    BY <1>5 DEF PosixInv, BatchOK, TableOK
  <2> QED
    BY <2>1, <1>5, <1>7 DEF PosixInv, BatchOK
<1> QED
  BY <1>4, <1>8, <1>9, <1>10 DEF PosixInv

-----------------------------------------------------------------------------
(* The steps.                                                              *)

(* What a call leaves of the kernel's files.                               *)
LEMMA FileTouched ==
  ASSUME PosixInv, NEW fd \in Descriptors, NEW new \in File, new.id = kernel[fd].id,
         kernel' = [kernel EXCEPT ![fd] = new]
  PROVE  kernel' \in [Descriptors -> File] /\ SameFiles
BY DEF PosixInv, TypeOK, SameFiles

LEMMA OpenFileTyped ==
  ASSUME PosixInv, NEW kind \in {"none", "fresh", "connecting", "connected", "listening", "udp"},
         NEW room \in BOOLEAN
  PROVE  OpenFile(kind, room) \in File /\ OpenFile(kind, room).id # 0
<1> DEFINE n == files + 1
<1>1. n \in Nat /\ n # 0
  BY DEF PosixInv, TypeOK
<1>2. OpenFile(kind, room) = [NoFile EXCEPT !.id = n, !.kind = kind, !.room = room]
  BY DEF OpenFile
<1>3. NoFile \in File
  BY DEF NoFile, File
<1> HIDE DEF n
<1> QED
  BY <1>1, <1>2, <1>3 DEF File

LEMMA HasDescriptor ==
  ASSUME PosixInv, NEW d \in Sockets, Open(d)
  PROVE  socket[d].s \in Descriptors /\ socket[d].s # INVALID_SOCKET
BY DEF PosixInv, TypeOK, Open, SocketState

LEMMA NetworkKeeps == PosixInv /\ Network => PosixInv'
<1> SUFFICES ASSUME PosixInv, Network PROVE PosixInv'
  OBVIOUS
<1>1. UNCHANGED <<epoll_fd_, files, interest, socket, key_by_dispatcher_, next_dispatcher_key_,
                  batch, event>>
  BY DEF Network, tableVars, loopVars
<1>2. kernel' \in [Descriptors -> File] /\ SameFiles
  <2>1. PICK fd \in Descriptors :
          \/ kernel' = [kernel EXCEPT ![fd].kind = "connected", ![fd].room = TRUE]
          \/ kernel' = [kernel EXCEPT ![fd].kind = "fresh", ![fd].err = TRUE, ![fd].eof = TRUE]
          \/ kernel' = [kernel EXCEPT ![fd].data = TRUE]
          \/ \E reset \in BOOLEAN : kernel' = [kernel EXCEPT ![fd].eof = TRUE, ![fd].err = reset]
          \/ kernel' = [kernel EXCEPT ![fd].room = TRUE]
    BY DEF Network
  <2>2. kernel[fd] \in File /\ kernel \in [Descriptors -> File]
    BY DEF PosixInv, TypeOK
  <2>3. \E new \in File : new.id = kernel[fd].id /\ kernel' = [kernel EXCEPT ![fd] = new]
    <3>1. CASE kernel' = [kernel EXCEPT ![fd].kind = "connected", ![fd].room = TRUE]
      <4> DEFINE f == [kernel[fd] EXCEPT !.kind = "connected", !.room = TRUE]
      <4>1. f \in File /\ f.id = kernel[fd].id
        BY <2>2 DEF File
      <4>2. kernel' = [kernel EXCEPT ![fd] = f]
        BY <2>2, <3>1
      <4> QED
        BY <4>1, <4>2
    <3>2. CASE kernel' = [kernel EXCEPT ![fd].kind = "fresh", ![fd].err = TRUE, ![fd].eof = TRUE]
      <4> DEFINE f == [kernel[fd] EXCEPT !.kind = "fresh", !.err = TRUE, !.eof = TRUE]
      <4>1. f \in File /\ f.id = kernel[fd].id
        BY <2>2 DEF File
      <4>2. kernel' = [kernel EXCEPT ![fd] = f]
        BY <2>2, <3>2
      <4> QED
        BY <4>1, <4>2
    <3>3. CASE kernel' = [kernel EXCEPT ![fd].data = TRUE]
      <4> DEFINE f == [kernel[fd] EXCEPT !.data = TRUE]
      <4>1. f \in File /\ f.id = kernel[fd].id
        BY <2>2 DEF File
      <4>2. kernel' = [kernel EXCEPT ![fd] = f]
        BY <2>2, <3>3
      <4> QED
        BY <4>1, <4>2
    <3>4. ASSUME NEW reset \in BOOLEAN, kernel' = [kernel EXCEPT ![fd].eof = TRUE, ![fd].err = reset]
          PROVE  \E new \in File : new.id = kernel[fd].id /\ kernel' = [kernel EXCEPT ![fd] = new]
      <4> DEFINE f == [kernel[fd] EXCEPT !.eof = TRUE, !.err = reset]
      <4>1. f \in File /\ f.id = kernel[fd].id
        BY <2>2, <3>4 DEF File
      <4>2. kernel' = [kernel EXCEPT ![fd] = f]
        BY <2>2, <3>4
      <4> QED
        BY <4>1, <4>2
    <3>5. CASE kernel' = [kernel EXCEPT ![fd].room = TRUE]
      <4> DEFINE f == [kernel[fd] EXCEPT !.room = TRUE]
      <4>1. f \in File /\ f.id = kernel[fd].id
        BY <2>2 DEF File
      <4>2. kernel' = [kernel EXCEPT ![fd] = f]
        BY <2>2, <3>5
      <4> QED
        BY <4>1, <4>2
    <3> QED
      BY <2>1, <3>1, <3>2, <3>3, <3>4, <3>5
  <2> QED
    BY <2>3, FileTouched
<1>3. TypeOK'
  BY <1>1, <1>2 DEF PosixInv, TypeOK
<1>4. \A x \in Sockets : socket'[x].saved # NoBatch =>
        event'.d = x /\ (Open(x) \/ socket'[x].saved = {})
  BY <1>1 DEF PosixInv, TableOK
<1> QED
  BY <1>1, <1>2, <1>3, <1>4, Unconcerned DEF SameTable, tableVars

LEMMA CreateKeeps ==
  ASSUME PosixInv, NEW d \in Sockets, CreateSocket(d)
  PROVE  PosixInv'
<1>1. PICK type \in Types :
        LET events == IF type = "udp" THEN {"read", "write"} ELSE {}
            kind == IF type = "udp" THEN "udp" ELSE "fresh"
        IN  /\ kernel' = [kernel EXCEPT ![FreeDescriptor] = OpenFile(kind, type = "udp")]
            /\ Opened(d, FreeDescriptor, events,
                      [ClosedSocket EXCEPT !.udp = type = "udp", !.enabled = events])
  BY DEF CreateSocket
<1> DEFINE events == IF type = "udp" THEN {"read", "write"} ELSE {}
           kind == IF type = "udp" THEN "udp" ELSE "fresh"
           room == type = "udp"
           new == [ClosedSocket EXCEPT !.udp = room, !.enabled = events]
           fd == FreeDescriptor
<1>2. MayOpen /\ socket[d] = ClosedSocket /\ UNCHANGED <<epoll_fd_, loopVars>>
  BY DEF CreateSocket, InCall
<1>3. events \in SUBSET Flags /\ room \in BOOLEAN
  BY DEF Flags
<1>4. /\ new \in SocketState /\ new.saved = NoBatch /\ ~Open(d) /\ socket[d].saved = NoBatch
  <2>1. ClosedSocket.saved = NoBatch /\ ClosedSocket.s = INVALID_SOCKET
    BY DEF ClosedSocket
  <2>2. ClosedSocket \in SocketState
    BY <1>2 DEF PosixInv, TypeOK
  <2> HIDE DEF events, room
  <2> QED
    BY <1>2, <1>3, <2>1, <2>2 DEF SocketState, Open
<1>5. OpenFile(kind, room) \in File /\ OpenFile(kind, room).id # 0
  BY OpenFileTyped
<1>6. /\ fd \in Descriptors /\ kernel[fd].id = 0
      /\ \A x \in Sockets : Open(x) => socket[x].s # fd
  BY <1>2, FreeIsFree
<1>7. kernel' = [kernel EXCEPT ![fd] = OpenFile(kind, room)] /\ Opened(d, fd, events, new)
  BY <1>1
<1> HIDE DEF events, kind, room, new, fd
<1>8. /\ kernel' \in [Descriptors -> File] /\ kernel'[fd].id # 0
      /\ \A x \in Descriptors : x # fd => kernel'[x].id = kernel[x].id
  BY <1>5, <1>6, <1>7 DEF PosixInv, TypeOK
<1> QED
  BY <1>2, <1>3, <1>4, <1>6, <1>7, <1>8, OpenedKeeps

LEMMA DoConnectKeeps ==
  ASSUME PosixInv, NEW d \in Sockets, NEW resolver \in {"none", "pending"},
         DoConnect(d, resolver), InCall
  PROVE  PosixInv'
<1> DEFINE failed == [socket[d] EXCEPT !.resolver = resolver, !.udp = @ /\ Open(d)]
           Started(state, more) == [failed EXCEPT !.state = state,
                                                  !.enabled = @ \cup {"read", "write"} \cup more]
<1>1. PICK outcome \in {<<"connected", Started("connected", {})>>,
                        <<"connecting", Started("connecting", {"connect"})>>,
                        <<"fresh", failed>>} :
        IF Open(d)
          THEN /\ kernel[socket[d].s].kind = "fresh"
               /\ kernel' = [kernel EXCEPT ![socket[d].s].kind = outcome[1],
                                           ![socket[d].s].room = outcome[1] = "connected"]
               /\ Change(d, outcome[2])
               /\ UNCHANGED <<files, tableVars>>
          ELSE /\ MayOpen
               /\ kernel' = [kernel EXCEPT ![FreeDescriptor] =
                               OpenFile(outcome[1], outcome[1] = "connected")]
               /\ Opened(d, FreeDescriptor, {}, outcome[2])
  BY DEF DoConnect
<1> DEFINE new == outcome[2]
           kind == outcome[1]
           room == kind = "connected"
<1>2. /\ failed \in SocketState /\ failed.s = socket[d].s /\ failed.saved = socket[d].saved
  <2>1. socket[d] \in SocketState /\ Open(d) \in BOOLEAN
    BY DEF PosixInv, TypeOK, Open
  <2> QED
    BY <2>1 DEF SocketState
<1>3. ASSUME NEW state \in {"connected", "connecting"}, NEW more \in SUBSET Flags
      PROVE  /\ Started(state, more) \in SocketState
             /\ Started(state, more).s = socket[d].s
             /\ Started(state, more).saved = socket[d].saved
  <2> HIDE DEF failed
  <2> QED
    BY <1>2 DEF SocketState, Flags
<1>4. {} \in SUBSET Flags /\ {"connect"} \in SUBSET Flags
  BY DEF Flags
<1>5. /\ new \in SocketState /\ new.s = socket[d].s /\ new.saved = socket[d].saved
      /\ kind \in {"connected", "connecting", "fresh"} /\ room \in BOOLEAN
  <2> HIDE DEF failed, Started
  <2> QED
    BY <1>1, <1>2, <1>3, <1>4
<1>6. CASE Open(d)
  <2>1. /\ kernel' = [kernel EXCEPT ![socket[d].s].kind = kind, ![socket[d].s].room = room]
        /\ Enables(d, new) /\ UNCHANGED <<epoll_fd_, files, tableVars, event, batch>>
    BY <1>1, <1>5, <1>6 DEF Enables, Changes, InCall, loopVars
  <2>2. socket[d].s \in Descriptors
    BY <1>6, HasDescriptor
  <2>3. kernel' \in [Descriptors -> File] /\ SameFiles
    <3>1. kernel[socket[d].s] \in File
      BY <2>2 DEF PosixInv, TypeOK
    <3> DEFINE f == [kernel[socket[d].s] EXCEPT !.kind = kind, !.room = room]
    <3>2. f \in File /\ f.id = kernel[socket[d].s].id
      BY <1>5, <3>1 DEF File
    <3>3. kernel' = [kernel EXCEPT ![socket[d].s] = f]
      BY <2>1, <2>2 DEF PosixInv, TypeOK
    <3> HIDE DEF f
    <3> QED
      BY <2>2, <3>2, <3>3, FileTouched
  <2> HIDE DEF new
  <2> QED
    BY <2>1, <2>3, EnablesKeeps DEF SameTable, PosixInv, TypeOK
<1>7. CASE ~Open(d)
  <2> DEFINE fd == FreeDescriptor
  <2>1. /\ MayOpen /\ kernel' = [kernel EXCEPT ![fd] = OpenFile(kind, room)]
        /\ Opened(d, fd, {}, new) /\ UNCHANGED <<epoll_fd_, loopVars>>
    BY <1>1, <1>7 DEF InCall
  <2>2. /\ fd \in Descriptors /\ kernel[fd].id = 0
        /\ \A x \in Sockets : Open(x) => socket[x].s # fd
    BY <2>1, FreeIsFree
  <2>3. OpenFile(kind, room) \in File /\ OpenFile(kind, room).id # 0
    BY <1>5, OpenFileTyped
  <2>4. new.saved = NoBatch \/ new.saved = {}
    BY <1>5, <1>7 DEF PosixInv, TableOK
  <2> HIDE DEF new, kind, room, fd
  <2>5. /\ kernel' \in [Descriptors -> File] /\ kernel'[fd].id # 0
        /\ \A x \in Descriptors : x # fd => kernel'[x].id = kernel[x].id
    BY <2>1, <2>2, <2>3 DEF PosixInv, TypeOK
  <2> QED
    BY <1>4, <1>5, <1>7, <2>1, <2>2, <2>4, <2>5, OpenedKeeps
<1> QED
  BY <1>6, <1>7

(* A call that leaves the file its identity and changes the flags.         *)
LEMMA CallKeeps ==
  ASSUME PosixInv, NEW d \in Sockets, Open(d), NEW new, Enables(d, new),
         NEW f \in File, f.id = kernel[socket[d].s].id,
         kernel' = [kernel EXCEPT ![socket[d].s] = f], InCall, UNCHANGED <<files, tableVars>>
  PROVE  PosixInv'
<1>1. kernel' \in [Descriptors -> File] /\ SameFiles
  BY HasDescriptor, FileTouched
<1>2. UNCHANGED <<epoll_fd_, files, event, batch>> /\ SameTable
  BY DEF InCall, loopVars, SameTable
<1> QED
  BY <1>1, <1>2, EnablesKeeps DEF PosixInv, TypeOK

LEMMA EnablingTyped ==
  ASSUME PosixInv, NEW d \in Sockets, NEW ff \in SUBSET Flags,
         NEW state \in {"closed", "connecting", "connected"}
  PROVE  Changes(d, [socket[d] EXCEPT !.state = state, !.enabled = ff])
         /\ Changes(d, [socket[d] EXCEPT !.enabled = ff])
<1>1. socket[d] \in SocketState
  BY DEF PosixInv, TypeOK
<1> QED
  BY <1>1 DEF Changes, SocketState

(* Only what epoll does not ask about changes.                             *)
LEMMA RelabelKeeps ==
  ASSUME PosixInv, NEW d \in Sockets, NEW new \in SocketState, new.s = socket[d].s,
         new.saved = socket[d].saved, new.enabled = socket[d].enabled,
         socket' = [socket EXCEPT ![d] = new], InCall,
         UNCHANGED <<kernelVars, interest, tableVars>>
  PROVE  PosixInv'
<1>1. /\ socket' \in [Sockets -> SocketState] /\ socket'[d] = new
      /\ \A x \in Sockets \ {d} : socket'[x] = socket[x]
  BY DEF PosixInv, TypeOK
<1>2. /\ UNCHANGED <<epoll_fd_, kernel, files, interest, event, batch>> /\ SameTable /\ SameFiles
      /\ UNCHANGED <<key_by_dispatcher_, next_dispatcher_key_>>
  BY DEF InCall, loopVars, kernelVars, tableVars, SameTable, SameFiles
<1>3. TypeOK'
  BY <1>1, <1>2 DEF PosixInv, TypeOK
<1>4. \A x \in Sockets : /\ socket'[x].s = socket[x].s
                         /\ Watched(socket'[x]) = Watched(socket[x])
                         /\ socket'[x].saved = socket[x].saved
  <2>1. Watched(new) = Watched(socket[d])
    BY DEF Watched
  <2> QED
    BY <1>1, <2>1
<1>5. \A x \in Sockets : socket'[x].saved # NoBatch =>
        event'.d = x /\ (Open(x) \/ socket'[x].saved = {})
  BY <1>2, <1>4 DEF PosixInv, TableOK
<1> QED
  BY <1>2, <1>3, <1>4, <1>5, Unconcerned

LEMMA ConnectKeeps ==
  ASSUME PosixInv, NEW d \in Sockets, Connect(d)
  PROVE  PosixInv'
<1>1. socket[d] \in SocketState /\ InCall
  BY DEF PosixInv, TypeOK, Connect
<1>2. CASE DoConnect(d, socket[d].resolver)
  <2>1. socket[d].resolver \in {"none", "pending"}
    BY <1>1 DEF SocketState
  <2> QED
    BY <1>1, <1>2, <2>1, DoConnectKeeps
<1>3. CASE /\ socket' = [socket EXCEPT ![d].resolver = "pending", ![d].state = "connecting"]
           /\ UNCHANGED <<kernelVars, interest, tableVars>>
  <2> DEFINE new == [socket[d] EXCEPT !.resolver = "pending", !.state = "connecting"]
  <2>1. new \in SocketState /\ new.s = socket[d].s /\ new.saved = socket[d].saved
        /\ new.enabled = socket[d].enabled
    BY <1>1 DEF SocketState
  <2>2. socket' = [socket EXCEPT ![d] = new]
    BY <1>3 DEF PosixInv, TypeOK
  <2> HIDE DEF new
  <2> QED
    BY <1>1, <1>3, <2>1, <2>2, RelabelKeeps
<1> QED
  BY <1>2, <1>3 DEF Connect

LEMMA OnResolveResultKeeps ==
  ASSUME PosixInv, NEW d \in Sockets, OnResolveResult(d)
  PROVE  PosixInv'
<1>1. socket[d] \in SocketState /\ InCall
  BY DEF PosixInv, TypeOK, OnResolveResult
<1>2. CASE DoConnect(d, "none")
  BY <1>1, <1>2, DoConnectKeeps
<1>3. CASE Open(d) /\ CloseSocket(d)
  BY <1>1, <1>3, CloseKeeps DEF InCall
<1>4. CASE /\ socket' = [socket EXCEPT ![d].resolver = "none"]
           /\ UNCHANGED <<kernelVars, interest, tableVars>>
  <2> DEFINE new == [socket[d] EXCEPT !.resolver = "none"]
  <2>1. new \in SocketState /\ new.s = socket[d].s /\ new.saved = socket[d].saved
        /\ new.enabled = socket[d].enabled
    BY <1>1 DEF SocketState
  <2>2. socket' = [socket EXCEPT ![d] = new]
    BY <1>4 DEF PosixInv, TypeOK
  <2> HIDE DEF new
  <2> QED
    BY <1>1, <1>4, <2>1, <2>2, RelabelKeeps
<1> QED
  BY <1>2, <1>3, <1>4 DEF OnResolveResult

LEMMA ListenKeeps ==
  ASSUME PosixInv, NEW d \in Sockets, Listen(d)
  PROVE  PosixInv'
<1> DEFINE fd == socket[d].s
           f == [kernel[fd] EXCEPT !.kind = "listening"]
           new == [socket[d] EXCEPT !.state = "connecting", !.enabled = @ \cup {"accept"}]
<1>1. socket[d] \in SocketState /\ fd \in Descriptors /\ kernel[fd] \in File
  BY HasDescriptor DEF Listen, PosixInv, TypeOK
<1>2. f \in File /\ f.id = kernel[fd].id
  BY <1>1 DEF File
<1>3. Enables(d, new)
  <2>1. socket[d].enabled \cup {"accept"} \in SUBSET Flags
    BY <1>1 DEF SocketState, Flags
  <2> QED
    BY <2>1, EnablingTyped DEF Enables, Listen
<1>4. kernel' = [kernel EXCEPT ![fd] = f] /\ Open(d) /\ InCall /\ UNCHANGED <<files, tableVars>>
  BY <1>1 DEF Listen, PosixInv, TypeOK
<1> HIDE DEF f, new
<1> QED
  BY <1>2, <1>3, <1>4, CallKeeps

LEMMA SendKeeps ==
  ASSUME PosixInv, NEW d \in Sockets, Send(d)
  PROVE  PosixInv'
<1> DEFINE fd == socket[d].s
           f == [kernel[fd] EXCEPT !.room = FALSE]
           new == [socket[d] EXCEPT !.enabled = @ \cup {"write"}]
<1>1. socket[d] \in SocketState /\ fd \in Descriptors /\ kernel[fd] \in File
  BY HasDescriptor DEF Send, PosixInv, TypeOK
<1>2. f \in File /\ f.id = kernel[fd].id
  BY <1>1 DEF File
<1>3. Enables(d, new)
  <2>1. socket[d].enabled \cup {"write"} \in SUBSET Flags
    BY <1>1 DEF SocketState, Flags
  <2> QED
    BY <2>1, EnablingTyped DEF Enables, Send, EnableEvents
<1>4. kernel' = [kernel EXCEPT ![fd] = f] /\ Open(d) /\ InCall /\ UNCHANGED <<files, tableVars>>
  BY <1>1 DEF Send, PosixInv, TypeOK
<1> HIDE DEF f, new
<1> QED
  BY <1>2, <1>3, <1>4, CallKeeps

LEMMA RecvKeeps ==
  ASSUME PosixInv, NEW d \in Sockets, Recv(d)
  PROVE  PosixInv'
<1> DEFINE fd == socket[d].s
           f == [kernel[fd] EXCEPT !.data = FALSE, !.err = @ /\ kernel[fd].data]
           new == [socket[d] EXCEPT !.enabled = @ \cup {"read"}]
<1>1. socket[d] \in SocketState /\ fd \in Descriptors /\ kernel[fd] \in File
  BY HasDescriptor DEF Recv, PosixInv, TypeOK
<1>2. f \in File /\ f.id = kernel[fd].id
  <2> DEFINE err == kernel[fd].err /\ kernel[fd].data
  <2>1. err \in BOOLEAN
    BY Zenon
  <2> HIDE DEF err
  <2>2. [kernel[fd] EXCEPT !.data = FALSE, !.err = err] \in File
        /\ [kernel[fd] EXCEPT !.data = FALSE, !.err = err].id = kernel[fd].id
    BY <1>1, <2>1 DEF File
  <2>3. f = [kernel[fd] EXCEPT !.data = FALSE, !.err = err]
    BY Zenon DEF err
  <2> QED
    BY <2>2, <2>3
<1>3. kernel' = [kernel EXCEPT ![fd] = f] /\ Open(d) /\ InCall /\ UNCHANGED <<files, tableVars>>
  BY <1>1 DEF Recv, PosixInv, TypeOK
<1>4. CASE UNCHANGED <<socket, interest>>
  <2>1. kernel' \in [Descriptors -> File] /\ SameFiles
    BY <1>1, <1>2, <1>3, FileTouched
  <2>2. UNCHANGED <<epoll_fd_, files, event, batch, socket, interest>> /\ SameTable
    BY <1>3, <1>4 DEF InCall, loopVars, SameTable
  <2>3. TypeOK'
    BY <2>1, <2>2 DEF PosixInv, TypeOK, SameTable, tableVars
  <2>4. \A x \in Sockets : socket[x].saved # NoBatch =>
          event.d = x /\ (Open(x) \/ socket[x].saved = {})
    BY DEF PosixInv, TableOK
  <2> QED
    BY <2>1, <2>2, <2>3, <2>4, Unconcerned
<1>5. CASE EnableEvents(d, {"read"})
  <2>1. socket[d].enabled \cup {"read"} \in SUBSET Flags
    BY <1>1 DEF SocketState, Flags
  <2>2. Enables(d, new)
    BY <1>5, <2>1, EnablingTyped DEF Enables, EnableEvents
  <2> HIDE DEF f, new
  <2> QED
    BY <1>2, <1>3, <2>2, CallKeeps
<1> QED
  BY <1>4, <1>5 DEF Recv

LEMMA AcceptKeeps ==
  ASSUME PosixInv, NEW d \in Sockets, NEW e \in Sockets, Accept(d, e)
  PROVE  PosixInv'
<1> DEFINE fd == socket[d].s
           again == [socket[d] EXCEPT !.enabled = @ \cup {"accept"}]
           known == MaybeUpdateDispatcher(d, socket[d].enabled, again)
           key == next_dispatcher_key_
           new == FreeDescriptor
           wrapped == [ClosedSocket EXCEPT !.s = new, !.state = "connected",
                                           !.enabled = {"read", "write"}]
<1>1. /\ d # e /\ Open(d) /\ InCall /\ kernel[fd].kind = "listening"
      /\ socket[d] \in SocketState /\ fd \in Descriptors /\ kernel[fd] \in File
  BY HasDescriptor DEF Accept, PosixInv, TypeOK
<1>2. Changes(d, again)
  <2>1. socket[d].enabled \cup {"accept"} \in SUBSET Flags
    BY <1>1 DEF SocketState, Flags
  <2> QED
    BY <2>1, EnablingTyped
<1>3. CASE Change(d, again) /\ UNCHANGED <<kernelVars, tableVars>>
  <2>1. Enables(d, again)
    BY <1>2, <1>3 DEF Enables
  <2>2. kernel' = [kernel EXCEPT ![fd] = kernel[fd]] /\ UNCHANGED <<files, tableVars>>
    BY <1>1, <1>3 DEF kernelVars, PosixInv, TypeOK
  <2> HIDE DEF again
  <2> QED
    BY <1>1, <2>1, <2>2, CallKeeps
<1>4. CASE kernel[fd].data /\ ~(Change(d, again) /\ UNCHANGED <<kernelVars, tableVars>>)
  <2>1. /\ MayOpen /\ socket[e] = ClosedSocket
        /\ kernel' = [kernel EXCEPT ![fd].data = FALSE, ![new] = OpenFile("connected", TRUE)]
        /\ files' = files + 1
        /\ socket' = [socket EXCEPT ![d] = again, ![e] = wrapped]
        /\ key_by_dispatcher_' = [key_by_dispatcher_ EXCEPT ![e] = key]
        /\ next_dispatcher_key_' = key + 1
        /\ interest' = IF epoll_fd_ THEN [known EXCEPT ![new] = Interest({"in", "out"}, key)]
                       ELSE known
    BY <1>4 DEF Accept
  <2>2. /\ known \in [Descriptors -> Asking]
        /\ \A f \in Descriptors : f # fd => known[f] = interest[f]
        /\ epoll_fd_ => known[fd] = Interest(GetEpollEvents(Watched(again)), key_by_dispatcher_[d])
        /\ epoll_fd_ => \A f \in Descriptors : known[f] # NoInterest =>
                          \E x \in Sockets : Open(x) /\ socket[x].s = f
    <3>1. again.s = fd
      BY <1>2 DEF Changes
    <3> HIDE DEF again
    <3> QED
      BY <1>1, <1>2, <3>1, ChangeTold, ChangeWatched
  <2>3. /\ new \in Descriptors /\ kernel[new].id = 0
        /\ \A x \in Sockets : Open(x) => socket[x].s # new
    BY <2>1, FreeIsFree
  <2>4. ~Open(e) /\ socket[e].saved = NoBatch
    BY <2>1 DEF ClosedSocket, Open
  <2>5. /\ wrapped \in SocketState /\ wrapped.s = new /\ wrapped.saved = NoBatch
        /\ GetEpollEvents(Watched(wrapped)) = {"in", "out"}
    <3>1. ClosedSocket \in SocketState /\ ClosedSocket.saved = NoBatch
      BY <2>1 DEF PosixInv, TypeOK, ClosedSocket
    <3>2. {"read", "write"} \in SUBSET Flags
      BY DEF Flags
    <3>3. wrapped \in SocketState /\ wrapped.s = new /\ wrapped.saved = NoBatch
          /\ wrapped.enabled = {"read", "write"}
      <4> HIDE DEF new
      <4> QED
        BY <2>3, <3>1, <3>2 DEF SocketState
    <3>4. Watched(wrapped) = {"read", "write"}
      BY <3>3 DEF Watched
    <3> QED
      BY <3>3, <3>4 DEF GetEpollEvents
  <2>6. kernel' \in [Descriptors -> File] /\ kernel'[new].id # 0
        /\ \A f \in Descriptors : f # new => kernel'[f].id = kernel[f].id
    <3>1. OpenFile("connected", TRUE) \in File /\ OpenFile("connected", TRUE).id # 0
      BY OpenFileTyped
    <3> DEFINE f == [kernel[fd] EXCEPT !.data = FALSE]
    <3>2. f \in File /\ f.id = kernel[fd].id
      BY <1>1 DEF File
    <3>3. kernel' = [kernel EXCEPT ![fd] = f, ![new] = OpenFile("connected", TRUE)]
      BY <2>1
    <3> HIDE DEF f, new
    <3> QED
      BY <1>1, <2>3, <3>1, <3>2, <3>3 DEF PosixInv, TypeOK
  <2>7. /\ again \in SocketState /\ again.s = fd /\ again.saved = socket[d].saved
        /\ new # fd /\ key \in Nat
    BY <1>1, <1>2, <2>3 DEF Changes, PosixInv, TypeOK
  <2>8. UNCHANGED <<epoll_fd_, loopVars>>
    BY <1>1 DEF InCall
  <2> HIDE DEF again, wrapped, known, new
  <2>9. /\ socket' \in [Sockets -> SocketState] /\ socket'[e] = wrapped /\ socket'[d] = again
        /\ \A x \in Sockets \ {d, e} : socket'[x] = socket[x]
    BY <1>1, <2>1, <2>5, <2>7 DEF PosixInv, TypeOK
  <2>10. /\ socket'[e].s = new
         /\ \A x \in Sockets \ {e} : socket'[x].s = socket[x].s
         /\ \A x \in Sockets : socket'[x].saved = socket[x].saved
    <3>1. \A x \in Sockets \ {e} : socket'[x].s = socket[x].s /\ socket'[x].saved = socket[x].saved
      BY <2>7, <2>9
    <3> QED
      BY <2>4, <2>5, <2>9, <3>1
  <2>11. Interest({"in", "out"}, key) \in Asking
    BY <2>7, InterestTyped
  <2>12. interest' \in [Descriptors -> Asking]
    BY <2>1, <2>2, <2>11
  <2>13. ASSUME epoll_fd_
         PROVE  /\ interest'[new] = Interest(GetEpollEvents(Watched(socket'[e])), key)
                /\ \A x \in Sockets \ {e} : Open(x) =>
                     interest'[socket[x].s] =
                       Interest(GetEpollEvents(Watched(socket'[x])), key_by_dispatcher_[x])
                /\ \A f \in Descriptors \ {new} : interest'[f] # NoInterest =>
                     \E x \in Sockets : Open(x) /\ socket[x].s = f
    <3>1. interest' = [known EXCEPT ![new] = Interest({"in", "out"}, key)]
      BY <2>1, <2>13
    <3>2. interest'[new] = Interest(GetEpollEvents(Watched(socket'[e])), key)
      BY <2>2, <2>3, <2>5, <2>9, <3>1
    <3>3. ASSUME NEW x \in Sockets \ {d, e}, Open(x)
          PROVE  interest'[socket[x].s] =
                   Interest(GetEpollEvents(Watched(socket'[x])), key_by_dispatcher_[x])
      <4>1. socket[x].s \in Descriptors /\ socket[x].s # new /\ socket[x].s # fd
        BY <1>1, <2>3, <3>3, HasDescriptor DEF PosixInv, TableOK
      <4>2. interest[socket[x].s] = Interests(x)
        BY <2>13, <3>3 DEF PosixInv, EpollOK
      <4> QED
        BY <2>2, <2>9, <3>1, <4>1, <4>2 DEF Interests
    <3>4. interest'[socket[d].s] =
            Interest(GetEpollEvents(Watched(socket'[d])), key_by_dispatcher_[d])
      BY <1>1, <2>2, <2>7, <2>9, <2>13, <3>1
    <3>5. \A x \in Sockets \ {e} : Open(x) =>
            interest'[socket[x].s] =
              Interest(GetEpollEvents(Watched(socket'[x])), key_by_dispatcher_[x])
      BY <3>3, <3>4
    <3>6. \A f \in Descriptors \ {new} : interest'[f] # NoInterest =>
            \E x \in Sockets : Open(x) /\ socket[x].s = f
      BY <2>2, <2>13, <3>1
    <3> QED
      BY <3>2, <3>5, <3>6
  <2>14. epoll_fd_ =>
           /\ interest'[new] = Interest(GetEpollEvents(Watched(socket'[e])), next_dispatcher_key_)
           /\ \A x \in Sockets \ {e} : Open(x) =>
                interest'[socket[x].s] =
                  Interest(GetEpollEvents(Watched(socket'[x])), key_by_dispatcher_[x])
           /\ \A f \in Descriptors \ {new} : interest'[f] # NoInterest =>
                \E x \in Sockets : Open(x) /\ socket[x].s = f
    BY <2>13
  <2>15. socket' \in [Sockets -> SocketState]
    BY <2>9
  <2>16. /\ files' = files + 1
         /\ key_by_dispatcher_' = [key_by_dispatcher_ EXCEPT ![e] = next_dispatcher_key_]
         /\ next_dispatcher_key_' = next_dispatcher_key_ + 1
         /\ \A x \in Descriptors : x # new => kernel'[x].id = kernel[x].id
         /\ kernel' \in [Descriptors -> File] /\ kernel'[new].id # 0
         /\ new \in Descriptors /\ \A x \in Sockets : Open(x) => socket[x].s # new
         /\ ~Open(e)
    BY <2>1, <2>3, <2>4, <2>6
  <2> QED
    BY <2>8, <2>10, <2>12, <2>14, <2>15, <2>16, JoinsKeeps
<1> QED
  BY <1>3, <1>4 DEF Accept

LEMMA ProgramKeeps == PosixInv /\ Program => PosixInv'
<1> SUFFICES ASSUME PosixInv, Program PROVE PosixInv'
  OBVIOUS
<1>1. PICK d \in Sockets :
        \/ CreateSocket(d) \/ Connect(d) \/ OnResolveResult(d) \/ Close(d)
        \/ Listen(d) \/ (\E e \in Sockets : Accept(d, e)) \/ Send(d) \/ Recv(d)
  BY DEF Program
<1>2. CASE CreateSocket(d)
  BY <1>2, CreateKeeps
<1>3. CASE Connect(d)
  BY <1>3, ConnectKeeps
<1>4. CASE OnResolveResult(d)
  BY <1>4, OnResolveResultKeeps
<1>5. CASE Close(d)
  BY <1>5, CloseKeeps DEF Close, InCall
<1>6. CASE Listen(d)
  BY <1>6, ListenKeeps
<1>7. CASE \E e \in Sockets : Accept(d, e)
  BY <1>7, AcceptKeeps
<1>8. CASE Send(d)
  BY <1>8, SendKeeps
<1>9. CASE Recv(d)
  BY <1>9, RecvKeeps
<1> QED
  BY <1>1, <1>2, <1>3, <1>4, <1>5, <1>6, <1>7, <1>8, <1>9

(* Steps that change neither sockets nor what epoll watches, and look at   *)
(* no new events.                                                          *)
LEMMA QuietKeeps ==
  ASSUME PosixInv, batch' \subseteq batch,
         UNCHANGED <<epoll_fd_, kernelVars, interest, socket, tableVars>>,
         event' \in [d : Sockets \cup {NoSocket}, ff : SUBSET Flags, slot : Flags \cup {"none"}],
         event'.d = event.d, event.d = NoSocket => event' = event
  PROVE  PosixInv'
<1>1. /\ UNCHANGED <<epoll_fd_, kernel, files, interest, socket>> /\ SameTable /\ SameFiles
      /\ UNCHANGED <<key_by_dispatcher_, next_dispatcher_key_>>
  BY DEF kernelVars, tableVars, SameTable, SameFiles
<1>2. TypeOK'
  BY <1>1 DEF PosixInv, TypeOK
<1>3. \A x \in Sockets : socket[x].saved # NoBatch =>
        event.d = x /\ (Open(x) \/ socket[x].saved = {})
  BY DEF PosixInv, TableOK
<1> QED
  BY <1>1, <1>2, <1>3, Unconcerned

LEMMA WaitsKeep ==
  PosixInv /\ (Signal \/ TimeOut \/ LoopEnds \/ BatchEnds \/ SlotReturns
               \/ \E io, forever \in BOOLEAN : Wait(io, forever)) => PosixInv'
<1> SUFFICES ASSUME PosixInv PROVE (Signal \/ TimeOut \/ LoopEnds \/ BatchEnds \/ SlotReturns
               \/ \E io, forever \in BOOLEAN : Wait(io, forever)) => PosixInv'
  OBVIOUS
<1>1. event \in [d : Sockets \cup {NoSocket}, ff : SUBSET Flags, slot : Flags \cup {"none"}]
      /\ (event.d = NoSocket => event = NoEvent)
  BY DEF PosixInv, TypeOK
<1>2. CASE Signal \/ TimeOut \/ LoopEnds \/ BatchEnds
           \/ \E io, forever \in BOOLEAN : Wait(io, forever)
  <2>1. UNCHANGED <<epoll_fd_, kernelVars, interest, socket, tableVars, event, batch>>
    BY <1>2 DEF Signal, TimeOut, LoopEnds, BatchEnds, Wait, Unmoved, loopVars
  <2> QED
    BY <1>1, <2>1, QuietKeeps
<1>3. CASE SlotReturns
  <2>1. /\ UNCHANGED <<epoll_fd_, kernelVars, interest, socket, tableVars, batch>>
        /\ event' = [event EXCEPT !.slot = "none"] /\ event.slot # "none"
    BY <1>3 DEF SlotReturns
  <2>2. event.d # NoSocket
    BY <1>1, <2>1 DEF NoEvent
  <2> QED
    BY <1>1, <2>1, <2>2, QuietKeeps
<1> QED
  BY <1>2, <1>3

LEMMA PollKeeps == PosixInv /\ Poll => PosixInv'
<1> SUFFICES ASSUME PosixInv, Poll PROVE PosixInv'
  OBVIOUS
<1>1. /\ batch' = Ready
      /\ UNCHANGED <<epoll_fd_, kernel, files, interest, socket, key_by_dispatcher_,
                     next_dispatcher_key_, event>>
  BY DEF Poll, Unmoved, kernelVars, tableVars
<1>2. TypeOK' /\ TableOK' /\ EpollOK'
  BY <1>1 DEF PosixInv, TypeOK, TableOK, EpollOK, Open, Interests
<1>3. ASSUME NEW e \in Ready
      PROVE  /\ e.key \in Nat \ {0} /\ e.key < next_dispatcher_key_
             /\ \A x \in Sockets : key_by_dispatcher_[x] = e.key => kernel[socket[x].s].id = e.file
  <2>1. \/ e = Entry(SignalerKey, TRUE, FALSE, FALSE, 0)
        \/ epoll_fd_ /\ e \in Polled
        \/ e \in Selected
    BY DEF Ready
  <2>2. CASE e = Entry(SignalerKey, TRUE, FALSE, FALSE, 0)
    <3>1. e.key = SignalerKey
      BY <2>2 DEF Entry
    <3> QED
      BY <3>1 DEF SignalerKey, PosixInv, TypeOK, TableOK
  <2>3. ASSUME NEW d \in Sockets, Open(d), e.key = key_by_dispatcher_[d],
               e.file = kernel[socket[d].s].id
        PROVE  /\ e.key \in Nat \ {0} /\ e.key < next_dispatcher_key_
               /\ \A x \in Sockets : key_by_dispatcher_[x] = e.key => kernel[socket[x].s].id = e.file
    BY <2>3 DEF PosixInv, TypeOK, TableOK
  <2>4. CASE epoll_fd_ /\ e \in Polled
    <3>1. PICK fd \in Descriptors :
            interest[fd] # NoInterest /\ e.key = interest[fd].key
            /\ e.file = IF fd = 0 THEN 0 ELSE kernel[fd].id
      BY <2>4 DEF Polled, Entry
    <3>2. PICK d \in Sockets : Open(d) /\ socket[d].s = fd
      BY <2>4, <3>1 DEF PosixInv, EpollOK
    <3>3. interest[fd] = Interests(d)
      BY <2>4, <3>2 DEF PosixInv, EpollOK
    <3>4. interest[fd].key = key_by_dispatcher_[d]
      BY <3>1, <3>3 DEF Interests, Interest
    <3>5. fd # 0
      BY ServerAssumption
    <3> QED
      BY <2>3, <3>1, <3>2, <3>4, <3>5
  <2>5. CASE e \in Selected
    <3>1. PICK d \in Sockets :
            /\ key_by_dispatcher_[d] # 0 /\ e.key = key_by_dispatcher_[d]
            /\ e.file = IF socket[d].s = 0 THEN 0 ELSE kernel[socket[d].s].id
      BY <2>5 DEF Selected, Entry
    <3>2. Open(d) /\ socket[d].s # 0
      BY <3>1 DEF PosixInv, TableOK, Open, INVALID_SOCKET
    <3> QED
      BY <2>3, <3>1, <3>2
  <2> QED
    BY <2>1, <2>2, <2>4, <2>5
<1>4. BatchOK'
  BY <1>1, <1>3 DEF BatchOK
<1> QED
  BY <1>2, <1>4 DEF PosixInv

(* The dispatcher of an entry is the socket the entry was seen on.         *)
LEMMA OfTheSameFile ==
  ASSUME PosixInv, NEW e \in batch, NEW d \in DispatcherOf(e)
  PROVE  /\ d \in Sockets /\ Open(d) /\ kernel[socket[d].s].id = e.file
         /\ socket[d].s \in Descriptors
<1>1. d \in Sockets /\ key_by_dispatcher_[d] = e.key
  BY DEF DispatcherOf
<1>2. Open(d) /\ kernel[socket[d].s].id = e.file
  BY <1>1 DEF PosixInv, BatchOK, TableOK
<1> QED
  BY <1>1, <1>2, HasDescriptor

LEMMA ErrorTaken ==
  ASSUME PosixInv, NEW fd \in Descriptors, NEW keep,
         kernel' = [kernel EXCEPT ![fd].err = @ /\ keep]
  PROVE  kernel' \in [Descriptors -> File] /\ SameFiles
<1> DEFINE err == kernel[fd].err /\ keep
           f == [kernel[fd] EXCEPT !.err = err]
<1>1. err \in BOOLEAN
  BY Zenon
<1> HIDE DEF err
<1>2. kernel[fd] \in File /\ kernel \in [Descriptors -> File]
  BY DEF PosixInv, TypeOK
<1>3. f \in File /\ f.id = kernel[fd].id
  BY <1>1, <1>2 DEF File
<1>4. kernel' = [kernel EXCEPT ![fd].err = err]
  BY Zenon DEF err
<1>5. kernel' = [kernel EXCEPT ![fd] = f]
  BY <1>2, <1>4
<1> HIDE DEF f
<1> QED
  BY <1>3, <1>5, FileTouched

LEMMA FlagsAreFlags ==
  ASSUME NEW e, NEW d
  PROVE  FlagsOf(e, d) \in SUBSET Flags
BY DEF FlagsOf, Flags

LEMMA ProcessEntryKeeps == PosixInv /\ ProcessEntry => PosixInv'
<1> SUFFICES ASSUME PosixInv, ProcessEntry PROVE PosixInv'
  OBVIOUS
<1>1. PICK e \in batch :
        /\ event = NoEvent /\ batch' = batch \ {e}
        /\ SkipEntry(e) \/ SignalerOnEvent(e) \/ \E d \in DispatcherOf(e) : BeginOnEvent(e, d)
        /\ UNCHANGED <<epoll_fd_, files, interest, tableVars>>
  BY DEF ProcessEntry
<1>2. /\ UNCHANGED <<epoll_fd_, files, interest, key_by_dispatcher_, next_dispatcher_key_>>
      /\ SameTable /\ batch' \subseteq batch
  BY <1>1 DEF SameTable, tableVars
<1>3. ASSUME UNCHANGED <<socket, event>>, kernel' \in [Descriptors -> File], SameFiles
      PROVE  PosixInv'
  <2>1. TypeOK'
    BY <1>2, <1>3 DEF PosixInv, TypeOK
  <2>2. \A x \in Sockets : socket[x].saved # NoBatch =>
          event.d = x /\ (Open(x) \/ socket[x].saved = {})
    BY DEF PosixInv, TableOK
  <2> QED
    BY <1>2, <1>3, <2>1, <2>2, Unconcerned
<1>4. CASE kernel' = kernel /\ UNCHANGED <<socket, event>>
  BY <1>3, <1>4 DEF PosixInv, TypeOK, SameFiles
<1>5. ASSUME NEW d \in DispatcherOf(e), UNCHANGED <<socket, event>>,
             kernel' = [kernel EXCEPT ![socket[d].s].err = @ /\ ~CheckError(e)]
      PROVE  PosixInv'
  BY <1>3, <1>5, ErrorTaken, OfTheSameFile
<1>6. ASSUME NEW d \in DispatcherOf(e), BeginOnEvent(e, d)
      PROVE  PosixInv'
  <2> DEFINE ff == FlagsOf(e, d)
             state == IF "close" \in ff THEN "closed"
                      ELSE IF "connect" \in ff THEN "connected" ELSE socket[d].state
             saved == IF epoll_fd_ THEN socket[d].enabled ELSE socket[d].saved
             new == [socket[d] EXCEPT !.state = state, !.saved = saved]
  <2>1. d \in Sockets /\ Open(d) /\ socket[d].s \in Descriptors /\ socket[d] \in SocketState
    BY OfTheSameFile DEF PosixInv, TypeOK
  <2>2. kernel' \in [Descriptors -> File] /\ SameFiles
    BY <1>6, <2>1, ErrorTaken DEF BeginOnEvent
  <2>3. \A x \in Sockets : socket[x].saved = NoBatch
    <3>1. NoEvent.d = NoSocket /\ NoSocket \notin Sockets
      BY ServerAssumption DEF NoEvent, NoSocket
    <3> QED
      BY <1>1, <3>1 DEF PosixInv, TableOK
  <2>4. state \in {"closed", "connecting", "connected"}
    BY <2>1 DEF SocketState
  <2>5. /\ saved \in (SUBSET Flags) \cup {NoBatch}
        /\ saved \in {socket[d].enabled, NoBatch}
    BY <2>1, <2>3 DEF SocketState
  <2>6. /\ new \in SocketState /\ new.s = socket[d].s /\ new.enabled = socket[d].enabled
        /\ new.saved = saved
    <3> HIDE DEF state, saved
    <3> QED
      BY <2>1, <2>4, <2>5 DEF SocketState
  <2>7. Watched(new) = Watched(socket[d])
    <3>1. Watched(socket[d]) = socket[d].enabled
      BY <2>1, <2>3 DEF Watched
    <3>2. Watched(new) = new.enabled
      <4> HIDE DEF new
      <4> QED
        BY <2>5, <2>6 DEF Watched
    <3> QED
      BY <2>6, <3>1, <3>2
  <2>8. socket' = [socket EXCEPT ![d] = new]
    BY <1>6, <2>1 DEF BeginOnEvent, PosixInv, TypeOK
  <2>9. event' = [d |-> d, ff |-> ff, slot |-> "none"]
    BY <1>6 DEF BeginOnEvent
  <2> HIDE DEF new
  <2>10. /\ socket' \in [Sockets -> SocketState] /\ socket'[d] = new
         /\ \A x \in Sockets \ {d} : socket'[x] = socket[x]
    BY <2>1, <2>6, <2>8 DEF PosixInv, TypeOK
  <2>11. TypeOK'
    <3>1. d # NoSocket /\ event'.d = d
      BY <2>1, <2>9, ServerAssumption DEF NoSocket
    <3>2. event' \in [d : Sockets \cup {NoSocket}, ff : SUBSET Flags, slot : Flags \cup {"none"}]
      <4>1. ff \in SUBSET Flags
        BY FlagsAreFlags
      <4> HIDE DEF ff
      <4> QED
        BY <2>1, <2>9, <4>1
    <3> QED
      BY <1>2, <2>2, <2>10, <3>1, <3>2 DEF PosixInv, TypeOK
  <2>12. \A x \in Sockets : /\ socket'[x].s = socket[x].s
                            /\ Watched(socket'[x]) = Watched(socket[x])
                            /\ socket'[x].saved # NoBatch =>
                                 event'.d = x /\ (Open(x) \/ socket'[x].saved = {})
    <3>1. ASSUME NEW x \in Sockets \ {d} PROVE socket'[x] = socket[x] /\ socket'[x].saved = NoBatch
      BY <2>3, <2>10
    <3>2. event'.d = d
      BY <2>9
    <3> QED
      BY <2>1, <2>6, <2>7, <2>10, <3>1, <3>2
  <2> QED
    BY <1>2, <2>2, <2>11, <2>12, Unconcerned
<1>7. CASE SkipEntry(e)
  BY <1>4, <1>5, <1>7 DEF SkipEntry
<1>8. CASE SignalerOnEvent(e)
  BY <1>4, <1>8 DEF SignalerOnEvent
<1> QED
  BY <1>1, <1>6, <1>7, <1>8

LEMMA NextFlagIsFlag ==
  ASSUME event.ff \subseteq Flags, event.ff # {}
  PROVE  NextFlag \in event.ff
<1> DEFINE S == {i \in 1..5 : Order[i] \in event.ff}
<1>1. \A flag \in Flags : \E i \in 1..5 : Order[i] = flag
  <2>1. Order[1] = "connect" /\ Order[2] = "accept" /\ Order[3] = "read" /\ Order[4] = "write"
        /\ Order[5] = "close"
    BY DEF Order
  <2> QED
    BY <2>1 DEF Flags
<1>2. S # {} /\ S \subseteq Nat
  BY <1>1
<1>3. Min(S) \in S
  BY <1>2, Smallest
<1> QED
  BY <1>3 DEF NextFlag

LEMMA DeliverKeeps == PosixInv /\ Deliver => PosixInv'
<1> SUFFICES ASSUME PosixInv, Deliver PROVE PosixInv'
  OBVIOUS
<1> DEFINE d == event.d
           enabled == IF NextFlag = "close" THEN {} ELSE socket[d].enabled \ {NextFlag}
           new == [socket[d] EXCEPT !.enabled = enabled]
<1>1. /\ event \in [d : Sockets \cup {NoSocket}, ff : SUBSET Flags, slot : Flags \cup {"none"}]
      /\ d = NoSocket => event = NoEvent
      /\ event.ff # {}
  BY DEF PosixInv, TypeOK, Deliver
<1>2. d # NoSocket /\ d \in Sockets
  BY <1>1 DEF NoEvent
<1>3. NextFlag \in Flags /\ event.ff \in SUBSET Flags
  BY <1>1, NextFlagIsFlag
<1>4. enabled \in SUBSET Flags
  <2>1. socket[d] \in SocketState
    BY <1>2 DEF PosixInv, TypeOK
  <2> QED
    BY <2>1 DEF SocketState
<1>5. Changes(d, new)
  <2> HIDE DEF enabled, d
  <2> QED
    BY <1>2, <1>4, EnablingTyped
<1>6. Enables(d, new)
  BY <1>5 DEF Enables, Deliver
<1>7. event' \in [d : Sockets \cup {NoSocket}, ff : SUBSET Flags, slot : Flags \cup {"none"}]
      /\ event'.d = event.d
  <2>1. event' = [event EXCEPT !.ff = @ \ {NextFlag}, !.slot = NextFlag]
    BY DEF Deliver
  <2> QED
    BY <1>1, <1>3, <2>1
<1>8. /\ SameFiles /\ SameTable /\ batch' = batch
      /\ kernel' \in [Descriptors -> File] /\ files' \in Nat
  BY DEF Deliver, kernelVars, tableVars, SameFiles, SameTable, PosixInv, TypeOK
<1> HIDE DEF d, new
<1> QED
  BY <1>2, <1>6, <1>7, <1>8, EnablesKeeps DEF d

(* The end of a batch of updates: epoll is told of what has changed since  *)
(* it began.                                                               *)
LEMMA FinishKeeps == PosixInv /\ FinishBatchedEventUpdates => PosixInv'
<1> SUFFICES ASSUME PosixInv, FinishBatchedEventUpdates PROVE PosixInv'
  OBVIOUS
<1>0. PICK d \in Sockets : d = event.d
  BY DEF FinishBatchedEventUpdates, PosixInv, TypeOK
<1> DEFINE new == [socket[d] EXCEPT !.saved = NoBatch]
           told == Interest(GetEpollEvents(new.enabled), key_by_dispatcher_[d])
<1>1. /\ socket[d] \in SocketState /\ interest \in [Descriptors -> Asking]
  BY DEF PosixInv, TypeOK
<1>2. /\ new \in SocketState /\ new.s = socket[d].s /\ new.enabled = socket[d].enabled
      /\ new.saved = NoBatch /\ Watched(new) = new.enabled
  <2> HIDE DEF NoBatch
  <2>1. NoBatch \in (SUBSET Flags) \cup {NoBatch}
    OBVIOUS
  <2> QED
    BY <1>1, <2>1 DEF SocketState, Watched
<1>3. /\ socket' = [socket EXCEPT ![d] = new]
      /\ interest' = IF epoll_fd_ THEN MaybeUpdateDispatcher(d, socket[d].saved, new) ELSE interest
      /\ event' = NoEvent
      /\ UNCHANGED <<epoll_fd_, kernel, files, key_by_dispatcher_, next_dispatcher_key_, batch>>
      /\ SameTable /\ SameFiles
  BY <1>0 DEF FinishBatchedEventUpdates, kernelVars, tableVars, SameTable, SameFiles
<1>4. told \in Asking
  BY <1>1, FlagsHaveEvents, InterestTyped DEF PosixInv, TypeOK
<1> HIDE DEF new, told
<1>5. /\ socket' \in [Sockets -> SocketState] /\ socket'[d] = new
      /\ \A x \in Sockets \ {d} : socket'[x] = socket[x]
  BY <1>1, <1>2, <1>3 DEF PosixInv, TypeOK
<1>6. interest' = interest \/ (Open(d) /\ interest' = [interest EXCEPT ![new.s] = told])
  BY <1>1, <1>3 DEF MaybeUpdateDispatcher, UpdateEpoll, told, PosixInv, TableOK
<1>7. TypeOK'
  <2>1. NoEvent \in [d : Sockets \cup {NoSocket}, ff : SUBSET Flags, slot : Flags \cup {"none"}]
    BY DEF NoEvent
  <2>2. interest' \in [Descriptors -> Asking]
    BY <1>1, <1>4, <1>6
  <2> QED
    BY <1>3, <1>5, <2>1, <2>2 DEF PosixInv, TypeOK
<1>8. \A x \in Sockets : socket'[x].s = socket[x].s /\ socket'[x].saved = NoBatch
  <2>1. \A x \in Sockets \ {d} : socket'[x].saved = NoBatch
    BY <1>0, <1>5 DEF PosixInv, TableOK
  <2> QED
    BY <1>2, <1>5, <2>1
<1>9. \A x \in Sockets : Open(x)' <=> Open(x)
  BY <1>8 DEF Open
<1>10. ASSUME epoll_fd_ PROVE EpollOK'
  <2>1. ASSUME NEW x \in Sockets \ {d}, Open(x) PROVE interest'[socket'[x].s] = Interests(x)'
    <3>1. interest[socket[x].s] = Interests(x)
      BY <1>10, <2>1 DEF PosixInv, EpollOK
    <3>2. socket[x].s \in Descriptors /\ (Open(d) => socket[x].s # new.s)
      BY <1>1, <1>2, <2>1, HasDescriptor DEF PosixInv, TableOK
    <3>3. interest'[socket[x].s] = interest[socket[x].s]
      BY <1>1, <1>6, <3>2
    <3> QED
      BY <1>3, <1>5, <3>1, <3>3 DEF Interests
  <2>2. ASSUME Open(d) PROVE interest'[socket'[d].s] = Interests(d)'
    <3>1. Interests(d)' = told
      BY <1>2, <1>3, <1>5 DEF Interests, told
    <3>2. /\ interest[new.s] = Interest(GetEpollEvents(Watched(socket[d])), key_by_dispatcher_[d])
          /\ new.s \in Descriptors /\ key_by_dispatcher_[d] # 0
      BY <1>1, <1>2, <1>10, <2>2, HasDescriptor DEF PosixInv, EpollOK, TableOK, Interests
    <3>3. CASE GetEpollEvents(new.enabled) # GetEpollEvents(socket[d].saved)
      <4>1. interest' = [interest EXCEPT ![new.s] = told]
        BY <1>2, <1>3, <1>10, <3>2, <3>3 DEF MaybeUpdateDispatcher, UpdateEpoll, told
      <4> QED
        BY <1>1, <1>5, <3>1, <3>2, <4>1
    <3>4. CASE GetEpollEvents(new.enabled) = GetEpollEvents(socket[d].saved)
      <4>1. interest' = interest
        BY <1>3, <1>10, <3>4 DEF MaybeUpdateDispatcher
      <4>2. GetEpollEvents(Watched(socket[d])) = GetEpollEvents(new.enabled)
        BY <1>2, <3>4 DEF Watched
      <4> QED
        BY <1>5, <3>1, <3>2, <4>1, <4>2 DEF told
    <3> QED
      BY <3>3, <3>4
  <2>3. ASSUME NEW f \in Descriptors, interest'[f] # NoInterest
        PROVE  \E x \in Sockets : Open(x) /\ socket[x].s = f
    <3>1. CASE interest[f] # NoInterest
      BY <1>10, <3>1 DEF PosixInv, EpollOK
    <3>2. CASE interest[f] = NoInterest
      <4>1. f = new.s /\ Open(d)
        BY <1>1, <1>6, <2>3, <3>2
      <4> QED
        BY <1>1, <1>2, <4>1
    <3> QED
      BY <3>1, <3>2
  <2> QED
    BY <1>8, <1>9, <2>1, <2>2, <2>3 DEF EpollOK
<1>11. EpollOK'
  BY <1>3, <1>10 DEF EpollOK
<1>12. \A x \in Sockets : socket'[x].saved # NoBatch =>
         event'.d = x /\ (Open(x) \/ socket'[x].saved = {})
  BY <1>8
<1> QED
  BY <1>3, <1>7, <1>8, <1>11, <1>12, Carried

LEMMA PosixKeeps == PosixInv /\ [Next]_vars => PosixInv'
<1> SUFFICES ASSUME PosixInv, [Next]_vars PROVE PosixInv'
  OBVIOUS
<1>1. CASE UNCHANGED vars
  <2>1. UNCHANGED <<epoll_fd_, kernelVars, interest, socket, tableVars, event, batch>>
    BY <1>1 DEF vars, loopVars
  <2>2. event \in [d : Sockets \cup {NoSocket}, ff : SUBSET Flags, slot : Flags \cup {"none"}]
    BY DEF PosixInv, TypeOK
  <2> QED
    BY <2>1, <2>2, QuietKeeps
<1>2. CASE Next
  BY <1>2, NetworkKeeps, ProgramKeeps, WaitsKeep, PollKeeps, ProcessEntryKeeps, DeliverKeeps,
     FinishKeeps
     DEF Next, Loop
<1> QED
  BY <1>1, <1>2

LEMMA PosixInvariant == Spec => []PosixInv
<1> QED
  BY InitPosix, PosixKeeps, PTL DEF Spec

(* The steps of the composition are those of each server, or leave it      *)
(* alone.                                                                  *)
LEMMA PosixRuns == MCSpec => Spec
<1>1. MCInit => Init
  BY DEF MCInit
<1>2. [Posix(Next) \/ Windows(W!Next) \/ Files(Log!Next)]_allVars => [Next]_vars
  BY DEF Posix, Windows, Files, allVars
<1> QED
  BY <1>1, <1>2, PTL DEF MCSpec, Spec

(* Outside of a batch of updates epoll watches exactly what the sockets    *)
(* have enabled, under their present keys, whatever was closed, reopened   *)
(* or enabled in the slots: for every number of sockets and descriptors.   *)
THEOREM EpollIsTold == MCSpec => []EpollFollowsEnabled
<1>1. ASSUME PosixInv PROVE EpollFollowsEnabled
  <2>1. ASSUME epoll_fd_, NEW d \in Sockets, key_by_dispatcher_[d] # 0, socket[d].saved = NoBatch
        PROVE  interest[socket[d].s]
                 = Interest(GetEpollEvents(socket[d].enabled), key_by_dispatcher_[d])
    <3>1. Open(d)
      BY <1>1, <2>1 DEF PosixInv, TableOK
    <3> QED
      BY <1>1, <2>1, <3>1 DEF PosixInv, EpollOK, Interests, Watched
  <2>2. ASSUME epoll_fd_, NEW fd \in Descriptors, interest[fd] # NoInterest
        PROVE  \E d \in Sockets : socket[d].s = fd /\ key_by_dispatcher_[d] = interest[fd].key
    <3>1. PICK d \in Sockets : Open(d) /\ socket[d].s = fd
      BY <1>1, <2>2 DEF PosixInv, EpollOK
    <3>2. interest[fd] = Interests(d)
      BY <1>1, <2>2, <3>1 DEF PosixInv, EpollOK
    <3>3. interest[fd].key = key_by_dispatcher_[d]
      BY <2>2, <3>2 DEF Interests, Interest
    <3> QED
      BY <3>1, <3>3
  <2> QED
    BY <2>1, <2>2 DEF EpollFollowsEnabled
<1> QED
  BY <1>1, PosixInvariant, PosixRuns, PTL

LEMMA PosixTellsTheSameFile ==
  ASSUME PosixInv, [Next]_vars, NEW e \in batch \ batch', event' # event
  PROVE  kernel[socket[event'.d].s].id = e.file
<1>1. CASE ProcessEntry
  <2>1. PICK x \in batch :
          /\ batch' = batch \ {x}
          /\ SkipEntry(x) \/ SignalerOnEvent(x) \/ \E d \in DispatcherOf(x) : BeginOnEvent(x, d)
    BY <1>1 DEF ProcessEntry
  <2>2. x = e
    BY <2>1
  <2>3. PICK d \in DispatcherOf(e) : BeginOnEvent(e, d)
    BY <2>1, <2>2 DEF SkipEntry, SignalerOnEvent
  <2>4. event'.d = d
    BY <2>3 DEF BeginOnEvent
  <2> QED
    BY <2>4, OfTheSameFile
<1>2. CASE ~ProcessEntry
  <2>1. batch' = batch \/ event' = event
    <3>1. CASE UNCHANGED vars
      BY <3>1 DEF vars, loopVars
    <3>2. CASE Network \/ Signal \/ \E io, forever \in BOOLEAN : Wait(io, forever)
      BY <3>2 DEF Network, Signal, Wait, loopVars
    <3>3. CASE Program
      BY <3>3 DEF Program, CreateSocket, Connect, OnResolveResult, Close, Listen, Accept, Send,
                  Recv, InCall, loopVars
    <3>4. CASE Poll \/ TimeOut \/ LoopEnds \/ BatchEnds
      BY <3>4 DEF Poll, TimeOut, LoopEnds, BatchEnds, Unmoved
    <3>5. CASE Deliver \/ SlotReturns \/ FinishBatchedEventUpdates
      BY <3>5 DEF Deliver, SlotReturns, FinishBatchedEventUpdates
    <3> QED
      BY <1>2, <3>1, <3>2, <3>3, <3>4, <3>5 DEF Next, Loop
  <2> QED
    BY <2>1
<1> QED
  BY <1>1, <1>2

-----------------------------------------------------------------------------
(* The server of Windows: a socket's id is that of its handle, or none if  *)
(* the handle was accepted; the end it remembers is that of its connection *)
(* or of one that was accepted; and the event under way was seen on the    *)
(* handle whose id is kept with it, or on an accepted one.  A socket gets  *)
(* no accepted handle during its own event.                                *)
WinDispatcher == [s : Nat, id : Nat, state : {"closed", "connecting", "connected"},
                  enabled : SUBSET Flags, signal_close_ : Nat, key : Nat]
WinFile == [kind : {"none", "connecting", "connected", "failed", "listening"}, data : BOOLEAN,
            fin : BOOLEAN, accepted : BOOLEAN]
Marked == {f \in W!Files : win_file[f].accepted}
OfItsHandle(x) ==
  /\ x.id = x.s \/ (x.id = 0 /\ x.s \in Marked)
  /\ x.signal_close_ \in {0, x.s} \cup Marked
WinInv ==
  /\ win_opened \in Nat
  /\ win_file \in [W!Files -> WinFile] /\ \A f \in Marked : f <= win_opened
  /\ win_dispatcher \in [Sockets -> WinDispatcher]
  /\ \A d \in Sockets : OfItsHandle(win_dispatcher[d])
  /\ win_event = [d |-> win_event.d, ff |-> win_event.ff, cache_id |-> win_event.cache_id,
                  file |-> win_event.file, slot |-> win_event.slot]
  /\ win_event.ff \subseteq Flags
  /\ win_event.ff # {} =>
       /\ win_event.d \in Sockets
       /\ win_event.cache_id = win_event.file \/ (win_event.cache_id = 0 /\ win_event.file \in Marked)
       /\ win_dispatcher[win_event.d].s \in {win_dispatcher[win_event.d].id, win_event.file}

LEMMA WinNextFlag ==
  ASSUME win_event.ff \subseteq Flags, win_event.ff # {}
  PROVE  W!NextFlag \in win_event.ff
<1> DEFINE S == {i \in 1..5 : W!Order[i] \in win_event.ff}
<1>1. \A flag \in Flags : \E i \in 1..5 : W!Order[i] = flag
  <2>1. W!Order[1] = "connect" /\ W!Order[2] = "accept" /\ W!Order[3] = "read"
        /\ W!Order[4] = "write" /\ W!Order[5] = "close"
    BY DEF W!Order
  <2> QED
    BY <2>1 DEF Flags
<1>2. S # {} /\ S \subseteq Nat
  BY <1>1
<1>3. W!Min(S) \in S
  BY <1>2, Smallest
<1> QED
  BY <1>3 DEF W!NextFlag

LEMMA WinInit == W!Init => WinInv
<1> SUFFICES ASSUME W!Init PROVE WinInv
  OBVIOUS
<1>1. W!ClosedSocket \in WinDispatcher /\ W!ClosedSocket.id = W!ClosedSocket.s
      /\ W!ClosedSocket.signal_close_ = 0
  BY DEF W!ClosedSocket, WinDispatcher, W!INVALID_SOCKET
<1>2. W!NoFile \in WinFile /\ W!NoFile.accepted = FALSE
  BY DEF W!NoFile, WinFile
<1>3. win_file \in [W!Files -> WinFile] /\ Marked = {}
  BY <1>2 DEF W!Init, Marked
<1> QED
  BY <1>1, <1>3 DEF W!Init, WinInv, W!NoEvent, OfItsHandle

(* Whether a handle was accepted does not change.                          *)
LEMMA WinMarks ==
  ASSUME WinInv, NEW f, NEW new, win_file' = [win_file EXCEPT ![f] = new],
         f \in W!Files => new \in WinFile /\ new.accepted = win_file[f].accepted
  PROVE  win_file' \in [W!Files -> WinFile] /\ Marked' = Marked
<1>1. win_file \in [W!Files -> WinFile]
  BY DEF WinInv
<1>2. CASE f \in W!Files
  BY <1>1, <1>2 DEF Marked
<1>3. CASE f \notin W!Files
  <2>1. win_file' = win_file
    BY <1>1, <1>3
  <2> QED
    BY <1>1, <2>1 DEF Marked
<1> QED
  BY <1>2, <1>3

(* A dispatcher changes and the event stays.                               *)
Replaced(d, new) ==
  /\ new \in WinDispatcher /\ OfItsHandle(new)
  /\ win_event.ff # {} /\ win_event.d = d => new.s \in {new.id, win_event.file}
  /\ win_dispatcher' = [win_dispatcher EXCEPT ![d] = new]
  /\ win_file' \in [W!Files -> WinFile] /\ Marked' = Marked
  /\ win_opened' \in Nat /\ win_opened' >= win_opened
  /\ win_event' = win_event

LEMMA WinChanges ==
  ASSUME WinInv, NEW d \in Sockets, NEW new, Replaced(d, new)
  PROVE  WinInv'
<1> USE DEF Replaced
<1>1. win_dispatcher \in [Sockets -> WinDispatcher]
  BY DEF WinInv
<1>2. win_dispatcher' \in [Sockets -> WinDispatcher] /\ win_dispatcher'[d] = new
      /\ \A x \in Sockets : x # d => win_dispatcher'[x] = win_dispatcher[x]
  BY <1>1
<1>3. ASSUME NEW x \in Sockets PROVE OfItsHandle(win_dispatcher[x])'
  <2>1. CASE x = d
    BY <1>2, <2>1 DEF OfItsHandle
  <2>2. CASE x # d
    BY <1>2, <2>2 DEF OfItsHandle, WinInv
  <2> QED
    BY <2>1, <2>2
<1>4. \A f \in Marked' : f <= win_opened'
  <2>1. ASSUME NEW f \in Marked PROVE f <= win_opened'
    <3>1. f \in Int /\ f <= win_opened /\ win_opened \in Nat
      BY <2>1 DEF WinInv, Marked, W!Files
    <3> QED
      BY <3>1
  <2> QED
    BY <2>1
<1>5. win_event.ff # {} =>
        win_dispatcher'[win_event.d].s \in {win_dispatcher'[win_event.d].id, win_event.file}
  BY <1>2 DEF WinInv
<1> QED
  BY <1>2, <1>3, <1>4, <1>5 DEF WinInv

LEMMA WinOpenKeeps ==
  ASSUME WinInv, NEW d \in Sockets, W!Open(d)
  PROVE  WinInv'
<1>1. /\ win_opened \in Nat /\ win_dispatcher[d] \in WinDispatcher
      /\ win_dispatcher[d].s = 0 /\ OfItsHandle(win_dispatcher[d])
      /\ UNCHANGED win_event /\ win_opened' = win_opened + 1
  BY DEF WinInv, W!Open, W!InCall, W!loop, W!INVALID_SOCKET
<1>2. PICK kind \in {"connecting", "listening"} :
        /\ win_file' = [win_file EXCEPT ![win_opened + 1] = [W!NoFile EXCEPT !.kind = kind]]
        /\ win_dispatcher' = [win_dispatcher EXCEPT ![d] =
            [@ EXCEPT !.s = win_opened + 1, !.id = win_opened + 1, !.key = win_opened + 1,
                      !.state = "connecting",
                      !.enabled = IF kind = "listening" THEN {"accept"}
                                  ELSE {"connect", "read", "write"}]]
  BY DEF W!Open
<1> DEFINE n == win_opened + 1
           enabled == IF kind = "listening" THEN {"accept"} ELSE {"connect", "read", "write"}
           new == [win_dispatcher[d] EXCEPT !.s = n, !.id = n, !.key = n,
                     !.state = "connecting", !.enabled = enabled]
           made == [W!NoFile EXCEPT !.kind = kind]
<1>3. n \in Nat /\ n > win_opened /\ enabled \in SUBSET Flags
  BY <1>1 DEF Flags
<1>4. win_dispatcher' = [win_dispatcher EXCEPT ![d] = new] /\ win_file' = [win_file EXCEPT ![n] = made]
  BY <1>2
<1>5. made \in WinFile /\ made.accepted = FALSE
  BY <1>2 DEF W!NoFile, WinFile
<1>6. /\ new \in WinDispatcher /\ new.id = n /\ new.s = n
      /\ new.signal_close_ = win_dispatcher[d].signal_close_
  <2> HIDE DEF n, enabled
  <2> QED
    BY <1>1, <1>3 DEF WinDispatcher
<1>7. OfItsHandle(new)
  BY <1>1, <1>6 DEF OfItsHandle
<1>8. n \in W!Files => win_file[n].accepted = FALSE
  <2>1. n \notin Marked
    BY <1>1, <1>3 DEF WinInv
  <2>2. n \in W!Files => win_file[n] \in WinFile
    BY DEF WinInv
  <2> QED
    BY <2>1, <2>2 DEF Marked, WinFile
<1> HIDE DEF new, made
<1>9. win_file' \in [W!Files -> WinFile] /\ Marked' = Marked
  BY <1>4, <1>5, <1>8, WinMarks
<1>10. Replaced(d, new)
  BY <1>1, <1>3, <1>4, <1>6, <1>7, <1>9 DEF Replaced
<1> QED
  BY <1>10, WinChanges

LEMMA WinCloseKeeps ==
  ASSUME WinInv, NEW d \in Sockets, W!Close(d)
  PROVE  WinInv'
<1>1. W!ClosedSocket \in WinDispatcher /\ W!ClosedSocket.id = W!ClosedSocket.s
      /\ W!ClosedSocket.signal_close_ = 0
  BY DEF W!ClosedSocket, WinDispatcher, W!INVALID_SOCKET
<1>2. PICK f : f = win_dispatcher[d].s
  OBVIOUS
<1>3. /\ win_dispatcher' = [win_dispatcher EXCEPT ![d] = W!ClosedSocket] /\ win_opened' = win_opened
      /\ win_file' = [win_file EXCEPT ![f] = W!Closed(win_file[f])]
      /\ UNCHANGED win_event
  BY <1>2 DEF W!Close, W!InCall, W!loop
<1>4. f \in W!Files => W!Closed(win_file[f]) \in WinFile
                       /\ W!Closed(win_file[f]).accepted = win_file[f].accepted
  BY DEF WinInv, W!Closed, W!NoFile, WinFile
<1>5. win_file' \in [W!Files -> WinFile] /\ Marked' = Marked
  BY <1>3, <1>4, WinMarks
<1>6. OfItsHandle(W!ClosedSocket) /\ win_opened \in Nat
  BY <1>1 DEF OfItsHandle, WinInv
<1>7. Replaced(d, W!ClosedSocket)
  BY <1>1, <1>3, <1>5, <1>6 DEF Replaced
<1> QED
  BY <1>7, WinChanges

LEMMA WinTakeKeeps ==
  ASSUME WinInv, NEW d \in Sockets, W!Take(d)
  PROVE  WinInv'
<1>1. PICK f : f = win_dispatcher[d].s
  OBVIOUS
<1>2. /\ win_dispatcher' = [win_dispatcher EXCEPT ![d].enabled = @ \cup {"read"}]
      /\ win_file' = [win_file EXCEPT ![f].data = FALSE]
      /\ UNCHANGED <<win_event, win_opened>>
  BY <1>1 DEF W!Take, W!InCall, W!loop
<1> DEFINE new == [win_dispatcher[d] EXCEPT !.enabled = @ \cup {"read"}]
           read == [win_file[f] EXCEPT !.data = FALSE]
<1>3. /\ win_dispatcher[d] \in WinDispatcher /\ OfItsHandle(win_dispatcher[d]) /\ win_opened \in Nat
      /\ win_event.ff # {} /\ win_event.d = d =>
           win_dispatcher[d].s \in {win_dispatcher[d].id, win_event.file}
  BY DEF WinInv
<1>4. /\ new \in WinDispatcher /\ new.id = win_dispatcher[d].id /\ new.s = win_dispatcher[d].s
      /\ new.signal_close_ = win_dispatcher[d].signal_close_
  BY <1>3 DEF WinDispatcher, Flags
<1>5. f \in W!Files => read \in WinFile /\ read.accepted = win_file[f].accepted
  BY DEF WinInv, WinFile
<1>6. win_dispatcher' = [win_dispatcher EXCEPT ![d] = new]
  BY <1>2
<1>7. win_file' = [win_file EXCEPT ![f] = read]
  BY <1>2
<1> HIDE DEF new, read
<1>8. win_file' \in [W!Files -> WinFile] /\ Marked' = Marked
  BY <1>5, <1>7, WinMarks
<1>9. OfItsHandle(new) /\ (win_event.ff # {} /\ win_event.d = d => new.s \in {new.id, win_event.file})
  BY <1>3, <1>4 DEF OfItsHandle
<1>10. win_opened' \in Nat /\ win_opened' >= win_opened /\ win_event' = win_event
  BY <1>2, <1>3
<1>11. Replaced(d, new)
  BY <1>4, <1>6, <1>8, <1>9, <1>10 DEF Replaced
<1> QED
  BY <1>11, WinChanges

(* A listener is unchanged but for what it asks for; the accepted handle is*)
(* marked before any socket refers to it.                                  *)
LEMMA WinAcceptKeeps ==
  ASSUME WinInv, NEW d \in Sockets, NEW e \in Sockets, W!Accept(d, e)
  PROVE  WinInv'
<1> DEFINE again == [win_dispatcher EXCEPT ![d].enabled = @ \cup {"accept"}]
           new == [win_dispatcher[d] EXCEPT !.enabled = @ \cup {"accept"}]
           n == win_opened + 1
<1>1. PICK f : f = win_dispatcher[d].s
  OBVIOUS
<1>2. UNCHANGED win_event /\ win_opened \in Nat
  BY DEF WinInv, W!Accept, W!InCall, W!loop
<1>3. /\ win_dispatcher \in [Sockets -> WinDispatcher]
      /\ \A x \in Sockets : win_dispatcher[x] \in WinDispatcher /\ OfItsHandle(win_dispatcher[x])
      /\ win_event.ff # {} =>
           win_dispatcher[win_event.d].s \in {win_dispatcher[win_event.d].id, win_event.file}
  BY DEF WinInv
<1>4. /\ new \in WinDispatcher /\ new.id = win_dispatcher[d].id /\ new.s = win_dispatcher[d].s
      /\ new.signal_close_ = win_dispatcher[d].signal_close_
      /\ again = [win_dispatcher EXCEPT ![d] = new]
  BY <1>3 DEF WinDispatcher, Flags
<1> HIDE DEF new, again
<1>5. OfItsHandle(new)
  BY <1>3, <1>4 DEF OfItsHandle
<1>6. CASE UNCHANGED <<win_file, win_opened>> /\ win_dispatcher' = again
  <2>1. win_file' \in [W!Files -> WinFile] /\ Marked' = Marked
    BY <1>6 DEF WinInv, Marked
  <2>2. Replaced(d, new)
    BY <1>2, <1>3, <1>4, <1>5, <1>6, <2>1 DEF Replaced
  <2> QED
    BY <2>2, WinChanges
<1>7. CASE /\ win_opened < MaxFiles /\ win_opened' = n /\ e # win_event.d
           /\ win_dispatcher' = [again EXCEPT ![e] = W!Wrapped]
           /\ win_file' = [win_file EXCEPT ![f].data = FALSE,
                ![n] = [W!NoFile EXCEPT !.kind = "connected", !.accepted = TRUE]]
  <2> DEFINE heard == [win_file EXCEPT ![f].data = FALSE]
             made == [W!NoFile EXCEPT !.kind = "connected", !.accepted = TRUE]
  <2>1. n \in W!Files /\ n \in Nat
    BY <1>2, <1>7, ServerAssumption DEF W!Files
  <2>2. made \in WinFile /\ made.accepted
    BY DEF W!NoFile, WinFile
  <2>3. /\ heard \in [W!Files -> WinFile]
        /\ \A g \in W!Files : heard[g].accepted = win_file[g].accepted
    BY DEF WinInv, WinFile
  <2>4. win_file' = [heard EXCEPT ![n] = made]
    BY <1>7
  <2> HIDE DEF heard, made
  <2>5. win_file' \in [W!Files -> WinFile] /\ Marked' = Marked \cup {n}
    BY <2>1, <2>2, <2>3, <2>4 DEF Marked
  <2>6. W!Wrapped \in WinDispatcher /\ W!Wrapped.id = 0 /\ W!Wrapped.s = n /\ W!Wrapped.signal_close_ = 0
    <3> DEFINE both == {"read", "write"}
    <3>1. both \in SUBSET Flags
      BY DEF Flags
    <3>2. W!Wrapped = [W!ClosedSocket EXCEPT !.s = n, !.key = n, !.state = "connected", !.enabled = both]
      BY DEF W!Wrapped
    <3> HIDE DEF both, n
    <3> QED
      BY <2>1, <3>1, <3>2 DEF WinDispatcher, W!ClosedSocket, W!INVALID_SOCKET
  <2>7. /\ win_dispatcher' \in [Sockets -> WinDispatcher] /\ win_dispatcher'[e] = W!Wrapped
        /\ \A x \in Sockets : x # e => win_dispatcher'[x] = IF x = d THEN new ELSE win_dispatcher[x]
    BY <1>3, <1>4, <1>7, <2>6
  <2>8. ASSUME NEW x \in Sockets PROVE OfItsHandle(win_dispatcher[x])'
    <3>1. CASE x = e
      BY <2>5, <2>6, <2>7, <3>1 DEF OfItsHandle
    <3>2. CASE x # e
      BY <1>3, <1>5, <2>5, <2>7, <3>2 DEF OfItsHandle
    <3> QED
      BY <3>1, <3>2
  <2>9. \A g \in Marked' : g <= win_opened'
    <3>1. \A g \in Marked : g \in Int /\ g <= win_opened
      BY DEF WinInv, Marked, W!Files
    <3> QED
      BY <1>2, <1>7, <2>5, <3>1
  <2>10. win_event.ff # {} =>
           win_dispatcher'[win_event.d].s \in {win_dispatcher'[win_event.d].id, win_event.file}
    <3>1. win_event.ff # {} => win_event.d \in Sockets
      BY DEF WinInv
    <3> QED
      BY <1>3, <1>4, <1>7, <2>7, <3>1
  <2> QED
    BY <1>2, <1>7, <2>1, <2>5, <2>7, <2>8, <2>9, <2>10 DEF WinInv
<1> QED
  BY <1>1, <1>6, <1>7 DEF W!Accept, again

(* An end that is told was seen on the socket's own connection, or on one  *)
(* that was accepted.                                                      *)
LEMMA WinCheckSignalCloseKeeps ==
  ASSUME WinInv, NEW d \in Sockets, W!CheckSignalClose(d)
  PROVE  /\ WinInv' /\ win_event'.slot = "close"
         /\ win_dispatcher[win_event'.d].s = win_event'.file \/ win_event'.file \in Marked
<1>1. /\ win_dispatcher' = [win_dispatcher EXCEPT ![d].state = "closed", ![d].signal_close_ = 0]
      /\ win_event' = [W!NoEvent EXCEPT !.d = d, !.slot = "close",
                                        !.file = win_dispatcher[d].signal_close_]
      /\ win_dispatcher[d].signal_close_ # 0 /\ UNCHANGED <<win_file, win_opened>>
  BY DEF W!CheckSignalClose, W!DueToTell, W!NextKey, W!Same
<1> DEFINE new == [win_dispatcher[d] EXCEPT !.state = "closed", !.signal_close_ = 0]
<1>2. win_dispatcher[d] \in WinDispatcher /\ OfItsHandle(win_dispatcher[d])
      /\ win_dispatcher[d].signal_close_ \in {win_dispatcher[d].s} \cup Marked
      /\ win_dispatcher \in [Sockets -> WinDispatcher]
  BY <1>1 DEF WinInv, OfItsHandle
<1>3. /\ new \in WinDispatcher /\ new.id = win_dispatcher[d].id /\ new.s = win_dispatcher[d].s
      /\ new.signal_close_ = 0
  BY <1>2 DEF WinDispatcher
<1>4. win_dispatcher' = [win_dispatcher EXCEPT ![d] = new]
  BY <1>1, <1>2
<1>5. win_event' = [d |-> d, ff |-> {}, cache_id |-> 0, file |-> win_dispatcher[d].signal_close_,
                    slot |-> "close"]
  BY <1>1 DEF W!NoEvent
<1> HIDE DEF new
<1>6. Marked' = Marked
  BY <1>1 DEF Marked
<1>7. /\ win_dispatcher' \in [Sockets -> WinDispatcher] /\ win_opened' \in Nat
      /\ win_file' \in [W!Files -> WinFile] /\ \A f \in Marked' : f <= win_opened'
      /\ \A x \in Sockets : OfItsHandle(win_dispatcher[x])'
  BY <1>1, <1>2, <1>3, <1>4, <1>6 DEF WinInv, OfItsHandle
<1>8. /\ win_event' = [d |-> win_event'.d, ff |-> win_event'.ff, cache_id |-> win_event'.cache_id,
                       file |-> win_event'.file, slot |-> win_event'.slot]
      /\ win_event'.ff = {}
  BY <1>5
<1>9. WinInv'
  BY <1>7, <1>8 DEF WinInv
<1> QED
  BY <1>2, <1>5, <1>9

LEMMA WinLookKeeps ==
  ASSUME WinInv, NEW d \in Sockets, W!Look(d)
  PROVE  WinInv' /\ (win_event' # win_event => win_event'.slot = "none")
<1> DEFINE f == win_dispatcher[d].s
           seen == win_happened[f] \cap win_selected[f]
           ff == W!FlagsOf(f, seen)
<1>1. UNCHANGED <<win_file, win_opened>> /\ Marked' = Marked
  BY DEF W!Look, W!NextKey, W!Same, Marked
<1>2. CASE UNCHANGED <<win_dispatcher, win_event>>
  BY <1>1, <1>2 DEF WinInv, OfItsHandle
<1>3. CASE /\ win_event' = [d |-> d, ff |-> ff, cache_id |-> win_dispatcher[d].id, file |-> f,
                            slot |-> "none"]
           /\ win_dispatcher' = [win_dispatcher EXCEPT
                ![d].state = IF "connect" \in ff THEN "connected" ELSE @]
  <2> DEFINE state == IF "connect" \in ff THEN "connected" ELSE win_dispatcher[d].state
             new == [win_dispatcher[d] EXCEPT !.state = state]
  <2>1. ff \subseteq Flags
    BY DEF W!FlagsOf, Flags
  <2>2. win_dispatcher[d] \in WinDispatcher /\ OfItsHandle(win_dispatcher[d])
        /\ win_dispatcher \in [Sockets -> WinDispatcher]
    BY DEF WinInv
  <2>3. state \in {"closed", "connecting", "connected"}
    BY <2>2 DEF WinDispatcher
  <2>4. win_dispatcher' = [win_dispatcher EXCEPT ![d] = new]
    BY <1>3, <2>2
  <2>5. PICK g : g = f
    OBVIOUS
  <2> HIDE DEF state, ff, f
  <2>6. /\ new \in WinDispatcher /\ new.id = win_dispatcher[d].id /\ new.s = win_dispatcher[d].s
        /\ new.signal_close_ = win_dispatcher[d].signal_close_
    BY <2>2, <2>3 DEF WinDispatcher
  <2> HIDE DEF new
  <2>7. /\ win_dispatcher' \in [Sockets -> WinDispatcher] /\ win_dispatcher'[d] = new
        /\ \A x \in Sockets : x # d => win_dispatcher'[x] = win_dispatcher[x]
    BY <2>2, <2>4, <2>6
  <2>8. \A x \in Sockets : OfItsHandle(win_dispatcher[x])'
    BY <1>1, <2>2, <2>6, <2>7 DEF WinInv, OfItsHandle
  <2>9. /\ win_event'.d = d /\ win_event'.ff = ff /\ win_event'.cache_id = win_dispatcher[d].id
        /\ win_event'.file = f
        /\ win_event' = [d |-> win_event'.d, ff |-> win_event'.ff, cache_id |-> win_event'.cache_id,
                         file |-> win_event'.file, slot |-> win_event'.slot]
    BY <1>3
  <2>10. /\ win_event'.cache_id = win_event'.file \/ (win_event'.cache_id = 0 /\ win_event'.file \in Marked')
         /\ win_dispatcher'[win_event'.d].s \in {win_dispatcher'[win_event'.d].id, win_event'.file}
    BY <1>1, <2>2, <2>6, <2>7, <2>9 DEF OfItsHandle, f
  <2>11. win_opened' \in Nat /\ win_file' \in [W!Files -> WinFile] /\ \A x \in Marked' : x <= win_opened'
    BY <1>1 DEF WinInv
  <2>12. WinInv'
    BY <2>1, <2>7, <2>8, <2>9, <2>10, <2>11 DEF WinInv
  <2> QED
    BY <1>3, <2>12
<1> QED
  BY <1>2, <1>3 DEF W!Look

(* A slot but that of DE_READ runs for the connection of the event only,   *)
(* or for a closed socket whose handle was accepted; and so is the end     *)
(* remembered.                                                             *)
LEMMA WinOnEventKeeps ==
  ASSUME WinInv, W!OnEvent
  PROVE  /\ WinInv'
         /\ win_event'.slot \notin {"none", "read"} =>
              \/ win_dispatcher[win_event'.d].s = win_event'.file
              \/ win_event'.file \in Marked /\ win_dispatcher[win_event'.d].s = 0
<1>0. PICK d \in Sockets : d = win_event.d
  BY DEF W!OnEvent, WinInv
<1> DEFINE flag == W!NextFlag
           told == flag = "read" \/ W!StillThere
           slot == IF told /\ flag # "close" THEN flag ELSE "none"
           left == win_event.ff \ {flag}
           Its == win_dispatcher[d].s = win_event.file
                  \/ (win_event.file \in Marked /\ win_dispatcher[d].s = 0)
<1>1. /\ win_event.ff # {} /\ UNCHANGED <<win_file, win_opened>> /\ Marked' = Marked
      /\ win_event' = [win_event EXCEPT !.ff = left, !.slot = slot]
      /\ win_dispatcher' =
           IF ~told THEN win_dispatcher
           ELSE IF flag = "close"
             THEN [win_dispatcher EXCEPT ![d].signal_close_ = win_event.file]
             ELSE [win_dispatcher EXCEPT ![d].enabled = @ \ {flag}]
  BY <1>0 DEF W!OnEvent, W!Same, Marked
<1>2. /\ win_dispatcher[d] \in WinDispatcher /\ OfItsHandle(win_dispatcher[d])
      /\ win_dispatcher \in [Sockets -> WinDispatcher]
      /\ win_event.ff \subseteq Flags
      /\ win_event.cache_id = win_event.file \/ (win_event.cache_id = 0 /\ win_event.file \in Marked)
      /\ win_dispatcher[d].s \in {win_dispatcher[d].id, win_event.file}
      /\ win_event = [d |-> d, ff |-> win_event.ff, cache_id |-> win_event.cache_id,
                      file |-> win_event.file, slot |-> win_event.slot]
  BY <1>0, <1>1 DEF WinInv
<1>3. told /\ flag # "read" => Its
  BY <1>0, <1>2 DEF W!StillThere
<1>4. left \subseteq Flags
  BY <1>2
<1> HIDE DEF slot, left, flag, told
<1>5. /\ win_event' = [d |-> d, ff |-> left, cache_id |-> win_event.cache_id,
                       file |-> win_event.file, slot |-> slot]
  <2> DEFINE old == [d |-> d, ff |-> win_event.ff, cache_id |-> win_event.cache_id,
                     file |-> win_event.file, slot |-> win_event.slot]
  <2>1. win_event' = [old EXCEPT !.ff = left, !.slot = slot]
    BY <1>1, <1>2
  <2> QED
    BY <2>1
<1>6. PICK new \in WinDispatcher :
        /\ win_dispatcher' = [win_dispatcher EXCEPT ![d] = new]
        /\ new.id = win_dispatcher[d].id /\ new.s = win_dispatcher[d].s
        /\ OfItsHandle(new)
  <2>1. CASE ~told
    <3>1. win_dispatcher' = [win_dispatcher EXCEPT ![d] = win_dispatcher[d]]
      BY <1>1, <1>2, <2>1
    <3> QED
      BY <1>2, <3>1
  <2>2. CASE told /\ flag = "close"
    <3> DEFINE x == [win_dispatcher[d] EXCEPT !.signal_close_ = win_event.file]
    <3>1. Its
      BY <1>3, <2>2
    <3>2. win_event.file \in Nat
      BY <1>2, <3>1 DEF WinDispatcher, Marked, W!Files
    <3>3. /\ x \in WinDispatcher /\ x.id = win_dispatcher[d].id /\ x.s = win_dispatcher[d].s
          /\ x.signal_close_ = win_event.file
      BY <1>2, <3>2 DEF WinDispatcher
    <3>4. win_dispatcher' = [win_dispatcher EXCEPT ![d] = x]
      BY <1>1, <1>2, <2>2
    <3> HIDE DEF x
    <3>5. OfItsHandle(x)
      BY <1>2, <3>1, <3>3 DEF OfItsHandle
    <3> QED
      BY <3>3, <3>4, <3>5
  <2>3. CASE told /\ flag # "close"
    <3> DEFINE x == [win_dispatcher[d] EXCEPT !.enabled = @ \ {flag}]
    <3>1. /\ x \in WinDispatcher /\ x.id = win_dispatcher[d].id /\ x.s = win_dispatcher[d].s
          /\ x.signal_close_ = win_dispatcher[d].signal_close_
      BY <1>2 DEF WinDispatcher
    <3>2. win_dispatcher' = [win_dispatcher EXCEPT ![d] = x]
      BY <1>1, <1>2, <2>3
    <3> HIDE DEF x
    <3>3. OfItsHandle(x)
      BY <1>2, <3>1 DEF OfItsHandle
    <3> QED
      BY <3>1, <3>2, <3>3
  <2> QED
    BY <2>1, <2>2, <2>3
<1>7. WinInv'
  <2>1. /\ win_dispatcher' \in [Sockets -> WinDispatcher] /\ win_dispatcher'[d] = new
        /\ \A x \in Sockets : x # d => win_dispatcher'[x] = win_dispatcher[x]
    BY <1>2, <1>6
  <2>2. \A x \in Sockets : OfItsHandle(win_dispatcher[x])'
    BY <1>1, <1>6, <2>1 DEF WinInv, OfItsHandle
  <2>3. win_opened' \in Nat /\ win_file' \in [W!Files -> WinFile] /\ \A x \in Marked' : x <= win_opened'
    BY <1>1 DEF WinInv
  <2>4. /\ win_event'.d = d /\ win_event'.ff = left /\ win_event'.cache_id = win_event.cache_id
        /\ win_event'.file = win_event.file
    BY <1>5
  <2>5. /\ win_event'.cache_id = win_event'.file \/ (win_event'.cache_id = 0 /\ win_event'.file \in Marked')
        /\ win_dispatcher'[win_event'.d].s \in {win_dispatcher'[win_event'.d].id, win_event'.file}
    BY <1>1, <1>2, <1>6, <2>1, <2>4
  <2> QED
    BY <1>4, <1>5, <2>1, <2>2, <2>3, <2>4, <2>5 DEF WinInv
<1>8. ASSUME slot \notin {"none", "read"} PROVE Its
  BY <1>3, <1>8 DEF slot
<1> QED
  BY <1>5, <1>7, <1>8

LEMMA WinSlotReturnsKeeps ==
  ASSUME WinInv, W!SlotReturns
  PROVE  WinInv' /\ win_event'.slot = "none"
<1>1. /\ win_event' = IF win_event.ff = {} THEN W!NoEvent ELSE [win_event EXCEPT !.slot = "none"]
      /\ UNCHANGED <<win_file, win_dispatcher, win_opened>> /\ Marked' = Marked
  BY DEF W!SlotReturns, W!Same, Marked
<1>2. CASE win_event.ff = {}
  BY <1>1, <1>2 DEF WinInv, W!NoEvent, OfItsHandle
<1>3. CASE win_event.ff # {}
  <2>1. win_event' = [d |-> win_event.d, ff |-> win_event.ff, cache_id |-> win_event.cache_id,
                      file |-> win_event.file, slot |-> "none"]
    <3> DEFINE old == [d |-> win_event.d, ff |-> win_event.ff, cache_id |-> win_event.cache_id,
                       file |-> win_event.file, slot |-> win_event.slot]
    <3>1. win_event' = [old EXCEPT !.slot = "none"]
      BY <1>1, <1>3 DEF WinInv
    <3> QED
      BY <3>1
  <2> QED
    BY <1>1, <1>3, <2>1 DEF WinInv, OfItsHandle
<1> QED
  BY <1>2, <1>3

(* What the network does to a handle leaves it accepted or not.            *)
LEMMA WinNetworkKeeps ==
  ASSUME WinInv, W!Network
  PROVE  WinInv' /\ UNCHANGED win_event
<1>1. UNCHANGED <<win_dispatcher, win_opened, win_event>>
  BY DEF W!Network, W!loop
<1>2. PICK f, new :
        /\ win_file' = [win_file EXCEPT ![f] = new]
        /\ f \in W!Files => new \in WinFile /\ new.accepted = win_file[f].accepted
  <2>1. PICK f, x : f \in W!Handles /\ x = win_file[f] /\ \E events :
          \/ W!Happen(f, [x EXCEPT !.kind = "connected"], events)
          \/ W!Happen(f, [x EXCEPT !.kind = "failed", !.fin = TRUE], events)
          \/ W!Happen(f, [x EXCEPT !.data = TRUE], events)
          \/ W!Happen(f, [x EXCEPT !.fin = TRUE], events)
    BY DEF W!Network
  <2>2. f \in W!Files => x \in WinFile
    BY <2>1 DEF WinInv
  <2>3. f \in W!Files =>
          \A new \in {[x EXCEPT !.kind = "connected"], [x EXCEPT !.kind = "failed", !.fin = TRUE],
                      [x EXCEPT !.data = TRUE], [x EXCEPT !.fin = TRUE]} :
            new \in WinFile /\ new.accepted = x.accepted
    BY <2>2 DEF WinFile
  <2>4. \E new \in {[x EXCEPT !.kind = "connected"], [x EXCEPT !.kind = "failed", !.fin = TRUE],
                    [x EXCEPT !.data = TRUE], [x EXCEPT !.fin = TRUE]} :
          win_file' = [win_file EXCEPT ![f] = new]
    BY <2>1 DEF W!Happen
  <2> QED
    BY <2>1, <2>3, <2>4
<1>3. win_file' \in [W!Files -> WinFile] /\ Marked' = Marked
  BY <1>2, WinMarks
<1> QED
  BY <1>1, <1>3 DEF WinInv, OfItsHandle

LEMMA WinStep ==
  ASSUME WinInv, [W!Next]_W!vars
  PROVE  /\ WinInv'
         /\ win_event'.slot \notin {"none", "read"} /\ win_event' # win_event =>
              \/ win_dispatcher[win_event'.d].s = win_event'.file
              \/ /\ win_event'.file \in Marked
                 /\ win_event'.slot = "close" \/ win_dispatcher[win_event'.d].s = 0
<1>1. CASE W!Program
  <2>1. PICK d \in Sockets : W!Open(d) \/ W!Close(d) \/ W!Take(d) \/ \E e \in Sockets : W!Accept(d, e)
    BY <1>1 DEF W!Program
  <2>2. UNCHANGED win_event
    BY <2>1 DEF W!Open, W!Close, W!Take, W!Accept, W!InCall, W!loop
  <2> QED
    BY <2>1, <2>2, WinOpenKeeps, WinCloseKeeps, WinTakeKeeps, WinAcceptKeeps
<1>2. CASE \E d \in Sockets : W!CheckSignalClose(d)
  BY <1>2, WinCheckSignalCloseKeeps
<1>3. CASE \E d \in Sockets : W!Look(d)
  BY <1>3, WinLookKeeps
<1>4. CASE W!OnEvent
  BY <1>4, WinOnEventKeeps
<1>5. CASE W!SlotReturns
  BY <1>5, WinSlotReturnsKeeps
<1>6. CASE UNCHANGED <<win_file, win_opened, win_dispatcher, win_event>>
  BY <1>6 DEF WinInv, OfItsHandle, Marked
<1>7. ASSUME NEW d \in Sockets, W!Select(d)
      PROVE  UNCHANGED <<win_file, win_opened, win_dispatcher, win_event>>
  BY <1>7 DEF W!Select, W!NextKey, W!Same
<1>8. CASE W!Signal \/ W!Gone \/ W!Asked \/ W!Woken \/ W!TimeOut \/ W!PassEnds
           \/ (\E io, forever \in BOOLEAN : W!Wait(io, forever)) \/ UNCHANGED W!vars
  <2>1. UNCHANGED <<win_file, win_opened, win_dispatcher, win_event>>
    BY <1>8 DEF W!Signal, W!Gone, W!NextKey, W!Asked, W!Woken, W!TimeOut, W!PassEnds,
                W!Wait, W!Same, W!loop, W!vars, W!winFiles
  <2> QED
    BY <1>6, <2>1
<1>9. CASE W!Network
  BY <1>9, WinNetworkKeeps
<1> QED
  BY <1>1, <1>2, <1>3, <1>4, <1>5, <1>6, <1>7, <1>8, <1>9 DEF W!Next, W!Loop

LEMMA WindowsRuns == MCSpec => W!Init /\ [][W!Next]_W!vars
<1>1. MCInit => W!Init
  BY DEF MCInit
<1>2. [Posix(Next) \/ Windows(W!Next) \/ Files(Log!Next)]_allVars => [W!Next]_W!vars
  <2>1. winVars' = winVars => UNCHANGED W!vars
    BY DEF winVars, W!vars, W!winFiles, W!loop
  <2> QED
    BY <2>1 DEF Posix, Windows, Files, allVars
<1> QED
  BY <1>1, <1>2, PTL DEF MCSpec

(* The event of an entry is begun for the socket it was seen on only, and  *)
(* on Windows neither the rest of it nor the end of a connection reaches   *)
(* another connection, whatever the slots before close and open, unless    *)
(* the connection was accepted: for every number of sockets, descriptors   *)
(* and handles.                                                            *)
THEOREM EventsReachTheirSocket == MCSpec => EventsOfTheSameSocket
<1>1. PosixInv /\ [Next]_vars =>
        [\A e \in batch \ batch' :
           event' # event => kernel[socket[event'.d].s].id = e.file]_vars
  BY PosixTellsTheSameFile
<1>2. WinInv /\ [W!Next]_W!vars =>
        /\ WinInv'
        /\ [win_event'.slot \notin {"none", "read"} /\ win_event' # win_event =>
              LET f == win_event'.file
                  s == win_dispatcher[win_event'.d].s
              IN  s = f \/ (win_file[f].accepted /\ (win_event'.slot = "close" \/ s = W!INVALID_SOCKET))]_W!vars
  BY WinStep DEF Marked, W!INVALID_SOCKET
<1> QED
  BY <1>1, <1>2, WinInit, PosixInvariant, PosixRuns, WindowsRuns, PTL
     DEF Spec, EventsOfTheSameSocket, EventsOfTheSameFile, W!EventsOfTheSameFile

-----------------------------------------------------------------------------
(* The files of a rotating stream.                                         *)
(* The current file is closed while its name is given away.                *)
ClosedWhileRotating == pc \in {"delete", "move"} => ~is_open

(* The rotation index is lowered once, and only where it leaves room.      *)
IndexLoweredOnce ==
  IF config.session /\ num_rotations_ >= Log!Last
    THEN rotation_index_ = Log!Last - 1
    ELSE rotation_index_ = Log!Last

IndInv == Log!TypeOK /\ Log!ReadsInOrder /\ ClosedWhileRotating /\ IndexLoweredOnce

(* A plain stream has two files at least, a call-session stream three.     *)
LEMMA ConfigType ==
  ASSUME Log!RotatingAssumption, NEW c \in Log!Configs
  PROVE  /\ c.session \in BOOLEAN
         /\ c.first \in Nat
         /\ c.rotating \in Nat
         /\ c.files \in Nat
         /\ c.files >= 2
         /\ c.session => c.files >= 3
<1>1. CASE \E s \in FileSizes, n \in FileCounts : c = Log!FileConfig(s, n)
  BY <1>1 DEF Log!RotatingAssumption, Log!FileConfig
<1>2. CASE \E t \in TotalSizes : c = Log!SessionConfig(t)
  <2>1. PICK t \in TotalSizes : c = Log!SessionConfig(t)
    BY <1>2
  <2>2. t \in Nat /\ t \div 2 \in Nat /\ t \div 4 \in Nat
    BY DEF Log!RotatingAssumption
  <2>3. (t \div 2) \div kRotatingLogFileDefaultSize \in Nat
    BY <2>2 DEF Log!RotatingAssumption
  <2>4. Log!GetNumRotatingLogFiles(t) \in Nat /\ Log!GetNumRotatingLogFiles(t) >= 2
    BY <2>3 DEF Log!GetNumRotatingLogFiles
  <2>5. Log!GetRotatingLogSize(t) \in Nat
    BY <2>2 DEF Log!RotatingAssumption, Log!GetRotatingLogSize
  <2>6. QED
    BY <2>1, <2>2, <2>4, <2>5 DEF Log!SessionConfig
<1>3. QED
  BY <1>1, <1>2 DEF Log!Configs

LEMMA InitIndInv ==
  ASSUME Log!RotatingAssumption
  PROVE  Log!Init => IndInv
<1> SUFFICES ASSUME Log!Init PROVE IndInv
  OBVIOUS
<1>1. config.files \in Nat /\ config.files >= 2 /\ config.first \in Nat
      /\ (config.session => config.files >= 3)
  BY ConfigType DEF Log!Init
<1>2. DOMAIN dir = {}
  BY DEF Log!Init, Log!NoFiles
<1>3. Log!TypeOK
  <2>1. rotation_index_ \in 1 .. Log!Last /\ index \in 0 .. Log!Last
    BY <1>1 DEF Log!Init, Log!Last
  <2>2. max_file_size_ \in Nat /\ num_rotations_ \in Nat /\ current_bytes_written_ \in Nat
    BY <1>1 DEF Log!Init
  <2>3. written \in Nat /\ start \in 0 .. written /\ data_len \in Nat /\ opens \in Nat
    BY DEF Log!Init
  <2>4. allOpens \in 0 .. MaxOpens
    BY DEF Log!RotatingAssumption, Log!Init
  <2>5. config \in Log!Configs /\ is_open = FALSE /\ pc = "idle" /\ faults = {}
    BY DEF Log!Init
  <2>6. QED
    BY <1>2, <2>1, <2>2, <2>3, <2>4, <2>5 DEF Log!TypeOK
<1>4. Log!ReadsInOrder
  BY <1>2 DEF Log!ReadsInOrder
<1>5. ClosedWhileRotating /\ IndexLoweredOnce
  BY <1>1 DEF Log!Init, ClosedWhileRotating, IndexLoweredOnce, Log!Last
<1>6. QED
  BY <1>3, <1>4, <1>5 DEF IndInv

(* What the invariant says of a directory d when the last byte is w.       *)
DirOK(d, w) ==
  /\ DOMAIN d \subseteq 0 .. Log!Last
  /\ \A n \in DOMAIN d : d[n] \subseteq 1 .. w
  /\ \A m, n \in DOMAIN d : m < n => \A a \in d[m], b \in d[n] : b < a

(* Each change of the directory keeps it.                                  *)
LEMMA WithoutOK ==
  ASSUME DirOK(dir, written), NEW S
  PROVE  DirOK(Log!Without(S), written)
BY DEF DirOK, Log!Without

LEMMA TruncatedOK ==
  ASSUME Log!RotatingAssumption, NEW d, DirOK(d, written), config \in Log!Configs
  PROVE  DirOK(Log!Truncated(d), written) /\ 0 \in DOMAIN Log!Truncated(d)
<1>1. Log!Last \in Nat
  BY ConfigType DEF Log!Last
<1>2. DOMAIN Log!Truncated(d) = DOMAIN d \cup {0}
  BY DEF Log!Truncated
<1>3. DOMAIN Log!Truncated(d) \subseteq 0 .. Log!Last
  BY <1>1, <1>2 DEF DirOK
<1>4. \A n \in DOMAIN Log!Truncated(d) : Log!Truncated(d)[n] = IF n = 0 THEN {} ELSE d[n]
  BY DEF Log!Truncated
<1>5. QED
  BY <1>2, <1>3, <1>4 DEF DirOK

LEMMA RenamedOK ==
  ASSUME DirOK(dir, written), NEW k \in 1 .. Log!Last, k - 1 \in DOMAIN dir
  PROVE  DirOK(Log!Renamed(k - 1, k), written)
<1> DEFINE d == Log!Renamed(k - 1, k)
<1>1. DOMAIN d = (DOMAIN dir \ {k - 1}) \cup {k}
  BY DEF Log!Renamed
<1>2. \A n \in DOMAIN d : d[n] = IF n = k THEN dir[k - 1] ELSE dir[n]
  BY DEF Log!Renamed
<1>3. DOMAIN d \subseteq 0 .. Log!Last /\ \A n \in DOMAIN d : d[n] \subseteq 1 .. written
  BY <1>1, <1>2 DEF DirOK
<1>4. ASSUME NEW m \in DOMAIN d, NEW n \in DOMAIN d, m < n, NEW a \in d[m], NEW b \in d[n]
      PROVE  b < a
  <2> DEFINE old(x) == IF x = k THEN k - 1 ELSE x
  <2>1. old(m) \in DOMAIN dir /\ old(n) \in DOMAIN dir
    BY <1>1
  <2>2. m \in Int /\ n \in Int /\ m # k - 1 /\ n # k - 1
    BY <1>1, <1>3
  <2>3. old(m) < old(n)
    BY <1>4, <2>2
  <2>4. a \in dir[old(m)] /\ b \in dir[old(n)]
    BY <1>2
  <2>5. QED
    BY <2>1, <2>3, <2>4 DEF DirOK
<1>5. QED
  BY <1>3, <1>4 DEF DirOK

LEMMA AppendedOK ==
  ASSUME Log!RotatingAssumption, DirOK(dir, written), written \in Nat, 0 \in DOMAIN dir, config \in Log!Configs,
         NEW k \in Nat, Log!AppendBytes(k)
  PROVE  /\ written' = written + k
         /\ DirOK(dir', written')
         /\ DOMAIN dir' = DOMAIN dir
<1>1. Log!Last \in Nat
  BY ConfigType DEF Log!Last
<1>2. DOMAIN dir' = DOMAIN dir /\ written' = written + k
  BY DEF Log!AppendBytes
<1>3. \A n \in DOMAIN dir : dir'[n] = IF n = 0 THEN dir[0] \cup (written + 1 .. written + k)
                                      ELSE dir[n]
  BY DEF Log!AppendBytes
<1>4. \A n \in DOMAIN dir : dir[n] \subseteq 1 .. written /\ n \in 0 .. Log!Last
  BY DEF DirOK
<1>5. \A n \in DOMAIN dir' : dir'[n] \subseteq 1 .. written'
  BY <1>2, <1>3, <1>4
<1>6. ASSUME NEW m \in DOMAIN dir, NEW n \in DOMAIN dir, m < n, NEW a \in dir'[m], NEW b \in dir'[n]
      PROVE  b < a
  <2>1. n # 0 /\ b \in dir[n] /\ b \in 1 .. written
    BY <1>1, <1>3, <1>4, <1>6
  <2>2. CASE a \in dir[m]
    BY <2>1, <2>2, <1>6 DEF DirOK
  <2>3. CASE a \in written + 1 .. written + k
    BY <2>1, <2>3
  <2>4. QED
    BY <1>3, <2>2, <2>3
<1>7. QED
  BY <1>1, <1>2, <1>5, <1>6 DEF DirOK

(* The rest of the invariant: everything but the directory.                *)
Scalars ==
  /\ config \in Log!Configs
  /\ is_open \in BOOLEAN
  /\ max_file_size_ \in Nat
  /\ num_rotations_ \in Nat
  /\ current_bytes_written_ \in Nat
  /\ pc \in {"idle", "write", "delete", "move", "aborted"}
  /\ data_len \in Nat
  /\ index \in 0 .. Log!Last
  /\ opens \in Nat
  /\ allOpens \in 0 .. MaxOpens
  /\ written \in Nat
  /\ start \in 0 .. written
  /\ faults \subseteq {"stale", "reopened", "write", "delete", "move", "open"}
  /\ ClosedWhileRotating
  /\ IndexLoweredOnce

LEMMA IndInvParts ==
  IndInv <=> Scalars /\ DirOK(dir, written) /\ (is_open => 0 \in DOMAIN dir)
             /\ rotation_index_ \in 1 .. Log!Last
BY DEF IndInv, Scalars, DirOK, Log!TypeOK, Log!ReadsInOrder

LEMMA IndexInRange ==
  ASSUME Log!RotatingAssumption, config \in Log!Configs, IndexLoweredOnce
  PROVE  Log!Last \in Nat /\ rotation_index_ \in 1 .. Log!Last
BY ConfigType DEF IndexLoweredOnce, Log!Last

(* The current file is opened from the directory d, or it is not.          *)
LEMMA OpenCurrentFileOK ==
  ASSUME Log!RotatingAssumption, Scalars, NEW d, DirOK(d, written), NEW earlier, Log!OpenCurrentFile(d, earlier),
         config' = config, written' = written,
         earlier \subseteq {"stale", "reopened", "write", "delete", "move", "open"}
  PROVE  /\ DirOK(dir', written')
         /\ is_open' => 0 \in DOMAIN dir'
         /\ is_open' \in BOOLEAN
         /\ current_bytes_written_' \in Nat
         /\ faults' \subseteq {"stale", "reopened", "write", "delete", "move", "open"}
<1>1. DirOK(Log!Truncated(d), written) /\ 0 \in DOMAIN Log!Truncated(d)
  BY TruncatedOK DEF Scalars
<1>2. dir' \in {d, Log!Truncated(d)} /\ (is_open' => dir' = Log!Truncated(d))
  BY DEF Log!OpenCurrentFile
<1>3. DirOK(dir', written) /\ (is_open' => 0 \in DOMAIN dir')
  BY <1>1, <1>2
<1>4. DirOK(dir', written')
  BY <1>3
<1>5. QED
  BY <1>3, <1>4 DEF Log!OpenCurrentFile, Scalars

LEMMA StepIndInv ==
  ASSUME Log!RotatingAssumption
  PROVE  IndInv /\ [Log!Next]_Log!vars => IndInv'
<1> SUFFICES ASSUME IndInv, [Log!Next]_Log!vars PROVE IndInv'
  OBVIOUS
<1>1. Scalars /\ DirOK(dir, written) /\ (is_open => 0 \in DOMAIN dir)
  BY IndInvParts
<1>2. Log!Last \in Nat /\ rotation_index_ \in 1 .. Log!Last
  BY <1>1, IndexInRange DEF Scalars
<1>3. (config' = config) => Log!Last' = Log!Last
  BY DEF Log!Last
<1>a. SUFFICES Scalars' /\ DirOK(dir, written)' /\ (is_open' => 0 \in DOMAIN dir')
  <2>1. Scalars' => (config \in Log!Configs)' /\ IndexLoweredOnce'
    BY DEF Scalars
  <2>2. Scalars' => (rotation_index_ \in 1 .. Log!Last)'
    BY <2>1, IndexInRange, ConfigType DEF IndexLoweredOnce, Log!Last
  <2>3. QED
    BY <2>2 DEF IndInv, Scalars, DirOK, Log!TypeOK, Log!ReadsInOrder
<1>4. CASE Log!Open
  <2>1. PICK kept \in SUBSET DOMAIN dir :
          Log!OpenCurrentFile(Log!Without(DOMAIN dir \ kept),
                          {f \in {"stale", "reopened"} :
                             IF f = "stale" THEN kept # {} ELSE opens > 0})
    BY <1>4 DEF Log!Open
  <2>2. DirOK(Log!Without(DOMAIN dir \ kept), written)
    BY <1>1, WithoutOK
  <2>3. config' = config /\ written' = written
    BY <1>4 DEF Log!Open, Log!configVars
  <2>4. /\ DirOK(dir', written')
        /\ is_open' => 0 \in DOMAIN dir'
        /\ is_open' \in BOOLEAN
        /\ current_bytes_written_' \in Nat
        /\ faults' \subseteq {"stale", "reopened", "write", "delete", "move", "open"}
    BY <1>1, <2>1, <2>2, <2>3, OpenCurrentFileOK
  <2>5. pc' = "idle" /\ opens' \in Nat /\ allOpens' \in 0 .. MaxOpens /\ start' \in 0 .. written'
    BY <1>1, <1>4 DEF Log!RotatingAssumption, Log!Open, Scalars, Log!callVars
  <2>6. Scalars'
    BY <1>1, <1>3, <1>4, <2>3, <2>4, <2>5
    DEF Log!Open, Scalars, Log!configVars, Log!callVars, ClosedWhileRotating, IndexLoweredOnce
  <2>7. DirOK(dir, written)'
    BY <1>3, <2>3, <2>4 DEF DirOK
  <2>8. QED
    BY <2>4, <2>6, <2>7
<1>5. CASE Log!Close
  BY <1>1, <1>3, <1>5 DEF Log!Close, Scalars, DirOK, Log!configVars, Log!callVars, Log!openVars,
     ClosedWhileRotating, IndexLoweredOnce
<1>6. CASE \E n \in WriteSizes : Log!Write(n)
  BY <1>1, <1>3, <1>6 DEF Log!RotatingAssumption, Log!Write, Scalars, DirOK, Log!configVars, Log!openVars,
     ClosedWhileRotating, IndexLoweredOnce
<1>7. ASSUME Log!WriteChunk \/ Log!WriteFails PROVE Scalars' /\ DirOK(dir, written)' /\ (is_open' => 0 \in DOMAIN dir')
  <2>1. is_open /\ 0 \in DOMAIN dir /\ config' = config /\ UNCHANGED Log!configVars
    BY <1>1, <1>7 DEF Log!WriteChunk, Log!WriteFails, Log!CanWrite, Log!configVars
  <2>2. Log!write_length \in Nat /\ Log!write_length <= data_len
    BY <1>1, <1>7 DEF Log!write_length, Scalars, Log!WriteChunk, Log!WriteFails, Log!CanWrite
  <2>3. PICK k \in Nat : Log!AppendBytes(k)
    BY <1>7, <2>2 DEF Log!WriteChunk, Log!WriteFails
  <2>4. written' = written + k /\ DirOK(dir', written') /\ DOMAIN dir' = DOMAIN dir
    BY <1>1, <2>1, <2>3, AppendedOK DEF Scalars
  <2>5. DirOK(dir, written)' /\ (is_open' => 0 \in DOMAIN dir')
    BY <1>3, <2>1, <2>4 DEF DirOK
  <2>6. written' \in Nat /\ start' \in 0 .. written'
    BY <1>1, <1>7, <2>4 DEF Scalars, Log!WriteChunk, Log!WriteFails, Log!openVars
  <2>7. Scalars'
    <3>1. CASE Log!WriteChunk
      <4>1. data_len' \in Nat /\ current_bytes_written_' \in Nat
        BY <1>1, <2>2, <3>1 DEF Scalars, Log!WriteChunk
      <4>2. /\ pc' \in {"idle", "delete"}
            /\ is_open' \in BOOLEAN
            /\ ClosedWhileRotating'
        BY <2>1, <3>1 DEF Log!WriteChunk, ClosedWhileRotating
      <4>3. IndexLoweredOnce'
        BY <1>1, <1>3, <2>1 DEF Scalars, Log!configVars, IndexLoweredOnce
      <4>4. UNCHANGED <<config, max_file_size_, num_rotations_, index, opens, allOpens, faults>>
        BY <3>1 DEF Log!WriteChunk, Log!configVars, Log!openVars
      <4>5. QED
        BY <1>1, <1>3, <2>6, <4>1, <4>2, <4>3, <4>4 DEF Scalars
    <3>2. CASE Log!WriteFails
      BY <1>1, <1>3, <2>1, <2>6, <3>2
      DEF Scalars, Log!WriteFails, Log!configVars, Log!openVars, ClosedWhileRotating, IndexLoweredOnce
    <3>3. QED
      BY <1>7, <3>1, <3>2
  <2>8. QED
    BY <2>5, <2>7
<1>8. CASE Log!Abort
  BY <1>1, <1>3, <1>8 DEF Log!Abort, Scalars, DirOK, Log!configVars, Log!openVars,
     ClosedWhileRotating, IndexLoweredOnce
<1>9. CASE Log!DeleteOldest
  <2>1. DirOK(Log!Without({rotation_index_}), written)
    BY <1>1, WithoutOK
  <2>2. DirOK(dir', written) /\ written' = written /\ config' = config
    BY <1>1, <1>9, <2>1 DEF Log!DeleteOldest, Log!May, Log!configVars
  <2>3. DirOK(dir, written)'
    BY <1>3, <2>2 DEF DirOK
  <2>4. ~is_open'
    BY <1>1, <1>9 DEF Log!DeleteOldest, Scalars, ClosedWhileRotating
  <2>5. Scalars'
    <3>1. faults' \subseteq {"stale", "reopened", "write", "delete", "move", "open"}
      BY <1>1, <1>9 DEF Log!DeleteOldest, Log!May, Scalars
    <3>2. IndexLoweredOnce'
      BY <1>1, <1>3, <1>9 DEF Log!DeleteOldest, Scalars, Log!configVars, IndexLoweredOnce
    <3>3. index' \in 0 .. Log!Last /\ pc' = "move"
      BY <1>2, <1>9 DEF Log!DeleteOldest
    <3>4. UNCHANGED <<config, is_open, max_file_size_, num_rotations_, current_bytes_written_,
                      data_len, opens, allOpens, start, written>>
      BY <1>9 DEF Log!DeleteOldest, Log!configVars, Log!openVars
    <3>5. QED
      BY <1>1, <1>3, <2>4, <3>1, <3>2, <3>3, <3>4 DEF Scalars, ClosedWhileRotating
  <2>6. QED
    BY <2>3, <2>4, <2>5
<1>10. CASE Log!MoveNext
  <2>1. index \in 1 .. Log!Last
    BY <1>1, <1>2, <1>10 DEF Log!MoveNext, Scalars
  <2>2. index - 1 \in DOMAIN dir => DirOK(Log!Renamed(index - 1, index), written)
    BY <1>1, <2>1, RenamedOK
  <2>3. DirOK(dir', written) /\ written' = written /\ config' = config
    BY <1>1, <1>10, <2>2 DEF Log!MoveNext, Log!May, Log!configVars
  <2>4. DirOK(dir, written)'
    BY <1>3, <2>3 DEF DirOK
  <2>5. ~is_open'
    BY <1>1, <1>10 DEF Log!MoveNext, Scalars, ClosedWhileRotating
  <2>6. Scalars'
    <3>1. faults' \subseteq {"stale", "reopened", "write", "delete", "move", "open"}
      BY <1>1, <1>10 DEF Log!MoveNext, Log!May, Scalars
    <3>2. IndexLoweredOnce'
      BY <1>1, <1>3, <1>10 DEF Log!MoveNext, Scalars, Log!configVars, IndexLoweredOnce
    <3>3. index' \in 0 .. Log!Last
      BY <1>2, <1>10, <2>1 DEF Log!MoveNext
    <3>4. UNCHANGED <<config, is_open, max_file_size_, num_rotations_, current_bytes_written_,
                      pc, data_len, opens, allOpens, start, written>>
      BY <1>10 DEF Log!MoveNext, Log!configVars, Log!openVars
    <3>5. QED
      BY <1>1, <1>3, <2>5, <3>1, <3>2, <3>3, <3>4 DEF Scalars, ClosedWhileRotating
  <2>7. QED
    BY <2>4, <2>5, <2>6
<1>11. CASE Log!OpenNext
  <2>1. Log!OpenCurrentFile(dir, faults) /\ config' = config /\ written' = written
    BY <1>11 DEF Log!OpenNext
  <2>2. /\ DirOK(dir', written')
        /\ is_open' => 0 \in DOMAIN dir'
        /\ is_open' \in BOOLEAN
        /\ current_bytes_written_' \in Nat
        /\ faults' \subseteq {"stale", "reopened", "write", "delete", "move", "open"}
    BY <1>1, <2>1, OpenCurrentFileOK DEF Scalars
  <2>3. DirOK(dir, written)'
    BY <1>3, <2>1, <2>2 DEF DirOK
  <2>4. /\ config.session \in BOOLEAN
        /\ config.session => Log!Last >= 2
        /\ config.rotating \in Nat
    BY <1>1, ConfigType DEF Scalars, Log!Last
  <2>5. max_file_size_' \in Nat /\ num_rotations_' \in Nat /\ IndexLoweredOnce'
    BY <1>1, <1>2, <1>3, <1>11, <2>1, <2>4
    DEF Log!OpenNext, Log!OnRotation, Scalars, IndexLoweredOnce
  <2>6. Scalars'
    BY <1>1, <1>3, <1>11, <2>1, <2>2, <2>5
    DEF Log!OpenNext, Scalars, Log!openVars, ClosedWhileRotating
  <2>7. QED
    BY <2>2, <2>3, <2>6
<1>12. CASE Log!Restart
  <2>1. /\ config.first \in Nat
        /\ config.session => Log!Last >= 2
    BY <1>1, ConfigType DEF Scalars, Log!Last
  <2>2. IndexLoweredOnce'
    BY <1>2, <1>3, <1>12, <2>1 DEF Log!Restart, IndexLoweredOnce
  <2>3. Scalars'
    <3>1. /\ max_file_size_' \in Nat /\ num_rotations_' \in Nat
          /\ current_bytes_written_' \in Nat /\ data_len' \in Nat /\ opens' \in Nat
      BY <1>12, <2>1 DEF Log!Restart
    <3>2. index' \in 0 .. Log!Last /\ is_open' = FALSE /\ pc' = "idle"
      BY <1>2, <1>12 DEF Log!Restart
    <3>3. UNCHANGED <<config, allOpens, start, written, faults>>
      BY <1>12 DEF Log!Restart
    <3>4. QED
      BY <1>1, <1>3, <2>2, <3>1, <3>2, <3>3 DEF Scalars, ClosedWhileRotating
  <2>4. DirOK(dir, written)' /\ ~is_open'
    BY <1>1, <1>3, <1>12 DEF Log!Restart, DirOK
  <2>5. QED
    BY <2>3, <2>4
<1>13. CASE UNCHANGED Log!vars
  BY <1>1, <1>3, <1>13 DEF Log!vars, Scalars, DirOK, Log!configVars, Log!callVars, Log!openVars,
     ClosedWhileRotating, IndexLoweredOnce
<1>14. QED
  BY <1>4, <1>5, <1>6, <1>7, <1>8, <1>9, <1>10, <1>11, <1>12, <1>13 DEF Log!Next

LEMMA OrderIsKept == Log!Spec => []IndInv
<1>1. Log!Init => IndInv
  BY FilesAssumption, InitIndInv
<1>2. IndInv /\ [Log!Next]_Log!vars => IndInv'
  BY FilesAssumption, StepIndInv
<1>3. QED
  BY <1>1, <1>2, PTL DEF Log!Spec

(* The steps of the composition are those of the stream, or leave it alone.*)
LEMMA FilesRun == MCSpec => Log!Spec
<1>1. MCInit => Log!Init
  BY DEF MCInit
<1>2. [Posix(Next) \/ Windows(W!Next) \/ Files(Log!Next)]_allVars => [Log!Next]_Log!vars
  <2>1. logVars' = logVars => UNCHANGED Log!vars
    BY DEF logVars, Log!vars, Log!configVars, Log!callVars, Log!openVars
  <2> QED
    BY <2>1 DEF Posix, Windows, Files, allVars
<1>3. QED
  BY <1>1, <1>2, PTL DEF MCSpec, Log!Spec

(* Every reachable state is well typed; in particular an open stream has   *)
(* its current file, and the rotation index names a file other than it.    *)
THEOREM TypeCorrect == MCSpec => []Log!TypeOK
<1>1. IndInv => Log!TypeOK
  BY DEF IndInv
<1>2. QED
  BY <1>1, OrderIsKept, FilesRun, PTL

(* The files are read back in the order of writing at every moment, for    *)
(* any sizes and numbers of files and any failures.                        *)
THEOREM ReadBackInOrder == MCSpec => []ReadsInOrder
<1>1. IndInv => ReadsInOrder
  BY DEF IndInv, ReadsInOrder
<1>2. QED
  BY <1>1, OrderIsKept, FilesRun, PTL
-----------------------------------------------------------------------------
(* The size of the log and what is kept of it.                             *)

(* What the calls on a stream leave of its scalars, whatever fails.        *)
Bookkeeping ==
  /\ ~is_open => current_bytes_written_ = 0
  /\ current_bytes_written_ <= max_file_size_
  /\ max_file_size_ = IF config.session /\ num_rotations_ > 0 THEN config.rotating
                      ELSE config.first
  /\ opens = 0 => ~is_open /\ pc = "idle" /\ num_rotations_ = 0
  /\ pc = "move" => index <= rotation_index_

(* The byte b is in one of the files of the indices I.                     *)
Holds(d, I, b) == \E m \in I \cap DOMAIN d : b \in d[m]

(* The last byte of the newest file that was rotated.                      *)
Closed == written - current_bytes_written_

(* While the current file is open it holds what was written since the last *)
(* rotation, and the n next files what n files can hold of the bytes       *)
(* before.                                                                 *)
OpenHolds ==
  /\ \A b \in start + 1 .. written : b > Closed => b \in dir[0]
  /\ \A n \in 0 .. rotation_index_, b \in start + 1 .. Closed :
       b > Closed - n * config.rotating => Holds(dir, 1 .. n, b)

(* The indices of the n newest files while the index h is being freed: the *)
(* files above it have been moved.                                         *)
Newest(n, h) == IF n <= h THEN 0 .. n - 1 ELSE (0 .. n) \ {h}

RotationHolds(h) ==
  \A n \in 1 .. rotation_index_, b \in start + 1 .. written :
    b > written - n * config.rotating => Holds(dir, Newest(n, h), b)

(* The index of the first file of a session.                               *)
FirstAt ==
  IF num_rotations_ >= Log!Last THEN Log!Last
  ELSE IF pc = "move" /\ index <= num_rotations_ THEN num_rotations_ + 1
  ELSE num_rotations_

FirstHolds ==
  config.session =>
    /\ \A b \in start + 1 .. written :
         b <= start + config.first => Holds(dir, {FirstAt}, b)
    /\ IF num_rotations_ = 0
         THEN written = start + (IF is_open THEN current_bytes_written_ ELSE config.first)
         ELSE written >= start + config.first

Rotating == pc \in {"delete", "move"}

LogHolds ==
  faults \subseteq {"delete"} /\ opens > 0 =>
    /\ is_open => OpenHolds
    /\ pc = "delete" => RotationHolds(rotation_index_)
    /\ pc = "move" => RotationHolds(index)
    /\ is_open \/ Rotating => FirstHolds

(* One file at most is as large as the first one of a session may be.      *)
SizesWithin(d, big) ==
  \A n \in DOMAIN d : Cardinality(d[n]) <= IF n = big THEN config.first ELSE config.rotating

SizesKept ==
  faults \cap {"stale", "write"} = {} =>
    /\ \E big \in 0 .. Log!Last : SizesWithin(dir, big)
    /\ is_open => Cardinality(dir[0]) = current_bytes_written_
    /\ config.session /\ num_rotations_ = 0 /\ opens > 0 =>
         \A m, n \in DOMAIN dir : m = n

(* What is kept is kept when the stream is closed or the process ends.     *)
ClosedKeeps == ~is_open /\ ~Rotating => Log!EndsPreserved

LogInv == IndInv /\ Bookkeeping /\ LogHolds /\ SizesKept /\ ClosedKeeps

LEMMA UnionSize ==
  ASSUME NEW A, NEW B, IsFiniteSet(A), IsFiniteSet(B)
  PROVE  /\ IsFiniteSet(A \cup B)
         /\ Cardinality(A \cup B) <= Cardinality(A) + Cardinality(B)
<1>1. /\ IsFiniteSet(A \cup B)
      /\ Cardinality(A \cup B) = Cardinality(A) + Cardinality(B) - Cardinality(A \cap B)
  BY FS_Union
<1>2. Cardinality(A) \in Nat /\ Cardinality(B) \in Nat /\ Cardinality(A \cap B) \in Nat
  BY FS_Intersection, FS_CardinalityType
<1>3. QED
  BY <1>1, <1>2

(* N + 1 files of at most r bytes, but for one of at most F, hold at most  *)
(* F + N * r bytes.                                                        *)
LEMMA UnionBound ==
  ASSUME NEW N \in Nat, NEW F \in Nat, NEW r \in Nat, r <= F, NEW big \in 0 .. N,
         NEW d, DOMAIN d \subseteq 0 .. N,
         \A n \in DOMAIN d : /\ IsFiniteSet(d[n])
                             /\ Cardinality(d[n]) <= IF n = big THEN F ELSE r
  PROVE  Cardinality(UNION {d[n] : n \in DOMAIN d}) <= F + N * r
<1> DEFINE Bytes(k) == UNION {d[n] : n \in DOMAIN d \cap (0 .. k - 1)}
           Bound(k) == IF big < k THEN F + (k - 1) * r ELSE k * r
           Within(k) == IsFiniteSet(Bytes(k)) /\ Cardinality(Bytes(k)) <= Bound(k)
           Over == {k \in 0 .. N + 1 : ~Within(k)}
<1>1. Within(0)
  <2>1. Bytes(0) = {}
    OBVIOUS
  <2>2. Bound(0) = 0
    OBVIOUS
  <2>3. QED
    BY <2>1, <2>2, FS_EmptySet
<1>2. ASSUME NEW k \in 0 .. N, Within(k)
      PROVE  Within(k + 1)
  <2> DEFINE file == IF k \in DOMAIN d THEN d[k] ELSE {}
             size == IF k = big THEN F ELSE r
  <2>1. IsFiniteSet(file) /\ Cardinality(file) <= size /\ Cardinality(file) \in Nat
    BY FS_EmptySet, FS_CardinalityType
  <2>2. Bytes(k + 1) = Bytes(k) \cup file
    <3>1. \A n : n \in 0 .. (k + 1) - 1 <=> n \in 0 .. k - 1 \/ n = k
      OBVIOUS
    <3>2. QED
      BY <3>1
  <2>3. /\ IsFiniteSet(Bytes(k + 1))
        /\ Cardinality(Bytes(k + 1)) <= Cardinality(Bytes(k)) + Cardinality(file)
    <3>1. IsFiniteSet(Bytes(k))
      BY <1>2
    <3> HIDE DEF file, Bytes
    <3>2. /\ IsFiniteSet(Bytes(k) \cup file)
          /\ Cardinality(Bytes(k) \cup file) <= Cardinality(Bytes(k)) + Cardinality(file)
      BY <2>1, <3>1, UnionSize
    <3>3. QED
      BY <2>2, <3>2, Zenon
  <2>4. Bound(k) + size <= Bound(k + 1)
    <3>1. (k + 1) * r = k * r + r /\ k * r = (k - 1) * r + r
      OBVIOUS
    <3>2. k * r \in Nat /\ (k - 1) * r \in Int
      OBVIOUS
    <3>3. QED
      BY <3>1, <3>2
  <2>5. Bound(k) \in Int /\ size \in Nat /\ Bound(k + 1) \in Int
    <3>1. k * r \in Int /\ (k - 1) * r \in Int /\ (k + 1) * r \in Int
      OBVIOUS
    <3>2. QED
      BY <3>1
  <2>6. Cardinality(Bytes(k)) <= Bound(k) /\ Cardinality(Bytes(k)) \in Nat
    BY <1>2, FS_CardinalityType
  <2>7. Cardinality(Bytes(k + 1)) \in Nat
    BY <2>3, FS_CardinalityType
  <2>8. Cardinality(Bytes(k + 1)) <= Bound(k + 1)
    <3> HIDE DEF Bytes, Bound, file, size
    <3>1. QED
      BY <2>1, <2>3, <2>4, <2>5, <2>6, <2>7
  <2>9. QED
    BY <2>3, <2>8
<1>3. Over = {}
  <2>1. SUFFICES ASSUME Over # {}
                 PROVE  FALSE
    OBVIOUS
  <2>2. PICK x \in Over : \A y \in Over : ~(y < x)
    <3>1. Over \subseteq Nat
      OBVIOUS
    <3> HIDE DEF Over
    <3>2. PICK x \in Over : \A y \in Over : x <= y
      BY <2>1, <3>1, Least
    <3>3. QED
      BY <3>1, <3>2
  <2>3. x \in 0 .. N + 1 /\ ~Within(x)
    OBVIOUS
  <2> HIDE DEF Within
  <2>4. x # 0
    BY <1>1, <2>3
  <2>5. x - 1 \in 0 .. N /\ x - 1 \notin Over /\ (x - 1) + 1 = x
    BY <2>2, <2>3, <2>4
  <2>6. Within(x - 1)
    BY <2>5
  <2>7. Within((x - 1) + 1)
    BY <1>2, <2>5, <2>6
  <2>8. QED
    BY <2>3, <2>5, <2>7
<1>4. Within(N + 1)
  <2> HIDE DEF Within
  <2>1. QED
    BY <1>3
<1>5. Bytes(N + 1) = UNION {d[n] : n \in DOMAIN d}
  OBVIOUS
<1>6. Bound(N + 1) = F + N * r
  OBVIOUS
<1>7. QED
  BY <1>4, <1>5, <1>6

(* The sizes of the files add up to the size of the log.                   *)
LEMMA ConfigSizes ==
  ASSUME Log!RotatingAssumption, NEW c \in Log!Configs
  PROVE  /\ c.rotating <= c.first
         /\ ~c.session => c.rotating = c.first
         /\ c.first + (c.files - 1) * c.rotating <=
              IF c.session THEN c.total ELSE c.files * c.first
<1>1. CASE \E s \in FileSizes, n \in FileCounts : c = Log!FileConfig(s, n)
  <2>1. PICK s \in FileSizes, n \in FileCounts : c = Log!FileConfig(s, n)
    BY <1>1
  <2>2. s \in Nat /\ n \in Nat
    BY DEF Log!RotatingAssumption
  <2>3. s + (n - 1) * s = n * s
    BY <2>2
  <2>4. n * s \in Nat
    BY <2>2
  <2>5. QED
    BY <2>1, <2>2, <2>3, <2>4 DEF Log!FileConfig
<1>2. CASE \E t \in TotalSizes : c = Log!SessionConfig(t)
  <2>1. PICK t \in TotalSizes : c = Log!SessionConfig(t)
    BY <1>2
  <2> DEFINE half == t \div 2
             size == kRotatingLogFileDefaultSize
             n == Log!GetNumRotatingLogFiles(t)
             r == Log!GetRotatingLogSize(t)
  <2>2. t \in Nat /\ half \in Nat /\ 2 * half <= t
    BY DEF Log!RotatingAssumption
  <2>3. size \in Nat \ {0}
    BY DEF Log!RotatingAssumption
  <2>4. (half \div size) \in Nat /\ (half \div size) * size <= half
    <3> HIDE DEF half, size
    <3>1. QED
      BY <2>2, <2>3
  <2>5. n \in Nat /\ r \in Nat /\ r <= half /\ n * r <= half
    <3>1. CASE half \div size > 2
      <4>1. n = half \div size /\ r = size
        BY <2>4, <3>1 DEF Log!GetNumRotatingLogFiles, Log!GetRotatingLogSize
      <4>2. size <= (half \div size) * size
        <5> HIDE DEF half, size
        <5>1. QED
          BY <2>3, <2>4, <3>1
      <4>3. (half \div size) * size \in Nat
        BY <2>3, <2>4
      <4>4. QED
        BY <2>2, <2>3, <2>4, <4>1, <4>2, <4>3
    <3>2. CASE ~(half \div size > 2)
      <4>1. n = 2 /\ r = t \div 4
        BY <2>4, <3>2 DEF Log!GetNumRotatingLogFiles, Log!GetRotatingLogSize
      <4>2. t \div 4 \in Nat /\ t \div 4 <= t \div 2 /\ 2 * (t \div 4) <= t \div 2
        BY <2>2
      <4>3. QED
        BY <4>1, <4>2
    <3>3. QED
      BY <3>1, <3>2
  <2>6. c.first = half /\ c.rotating = r /\ c.files = n + 1 /\ c.session /\ c.total = t
    BY <2>1 DEF Log!SessionConfig
  <2>7. (n + 1) - 1 = n /\ n * r \in Nat
    BY <2>5
  <2> HIDE DEF half, n, r
  <2>8. QED
    BY <2>2, <2>5, <2>6, <2>7
<1>3. QED
  BY <1>1, <1>2 DEF Log!Configs

LEMMA CountedAlike ==
  ASSUME NEW S
  PROVE  Log!Cardinality(S) = Cardinality(S)
BY DEF Log!Cardinality, Cardinality

(* The size of the log is bounded while the sizes of its files are.        *)
LEMMA SizesBoundTheLog ==
  ASSUME Log!RotatingAssumption
  PROVE  IndInv /\ SizesKept => Log!SizeBounded
<1> SUFFICES ASSUME IndInv, SizesKept, faults \cap {"stale", "write"} = {}
             PROVE  Cardinality(Log!OnDisk) <= Log!SizeLimit
  BY CountedAlike DEF Log!SizeBounded
<1>1. config \in Log!Configs /\ written \in Nat
  BY DEF IndInv, Log!TypeOK
<1>2. /\ Log!Last \in Nat /\ config.first \in Nat /\ config.rotating \in Nat
      /\ config.rotating <= config.first
      /\ config.first + Log!Last * config.rotating <= Log!SizeLimit
  BY <1>1, ConfigType, ConfigSizes DEF Log!Last, Log!SizeLimit
<1>3. PICK big \in 0 .. Log!Last : SizesWithin(dir, big)
  BY DEF SizesKept
<1>4. DOMAIN dir \subseteq 0 .. Log!Last
  BY DEF IndInv, Log!TypeOK
<1>5. \A n \in DOMAIN dir : IsFiniteSet(dir[n])
  <2>1. IsFiniteSet(1 .. written)
    BY <1>1, FS_Interval
  <2>2. QED
    BY <2>1, FS_Subset DEF IndInv, Log!TypeOK
<1>6. Cardinality(Log!OnDisk) <= config.first + Log!Last * config.rotating
  BY <1>2, <1>3, <1>4, <1>5, UnionBound DEF SizesWithin, Log!OnDisk
<1>7. Cardinality(Log!OnDisk) \in Nat /\ Log!Last * config.rotating \in Nat /\ Log!SizeLimit \in Int
  <2>1. Log!OnDisk \subseteq 1 .. written /\ IsFiniteSet(1 .. written)
    BY <1>1, FS_Interval DEF IndInv, Log!TypeOK, Log!OnDisk
  <2>2. Cardinality(Log!OnDisk) \in Nat
    BY <2>1, FS_Subset, FS_CardinalityType
  <2>3. config.total \in Nat \/ ~config.session
    BY <1>1 DEF Log!RotatingAssumption, Log!Configs, Log!FileConfig, Log!SessionConfig
  <2>4. config.files * config.first \in Nat
    BY <1>1, ConfigType
  <2>5. QED
    BY <1>2, <2>2, <2>3, <2>4 DEF Log!SizeLimit
<1>8. QED
  BY <1>2, <1>6, <1>7

(* What the invariant says of the scalars, in one place.                   *)
StateTypes ==
  /\ Log!Last \in Nat /\ Log!Last >= 1
  /\ config.session \in BOOLEAN
  /\ config.session => Log!Last >= 2
  /\ config.first \in Nat /\ config.rotating \in Nat
  /\ ~config.session => config.rotating = config.first
  /\ config.rotating <= config.first
  /\ written \in Nat /\ start \in 0 .. written
  /\ current_bytes_written_ \in Nat /\ max_file_size_ \in Nat /\ num_rotations_ \in Nat
  /\ data_len \in Nat /\ opens \in Nat /\ index \in 0 .. Log!Last
  /\ rotation_index_ \in 1 .. Log!Last
  /\ rotation_index_ = IF config.session /\ num_rotations_ >= Log!Last THEN Log!Last - 1 ELSE Log!Last
  /\ DOMAIN dir \subseteq 0 .. Log!Last
  /\ \A n \in DOMAIN dir : dir[n] \subseteq 1 .. written
  /\ is_open => 0 \in DOMAIN dir
  /\ Rotating => ~is_open
  /\ is_open \in BOOLEAN

LEMMA TypedState ==
  ASSUME Log!RotatingAssumption
  PROVE  IndInv => StateTypes
<1> SUFFICES ASSUME IndInv PROVE StateTypes
  OBVIOUS
<1>1. config \in Log!Configs
  BY DEF IndInv, Log!TypeOK
<1>2. /\ config.session \in BOOLEAN
      /\ config.first \in Nat /\ config.rotating \in Nat
      /\ config.files \in Nat /\ config.files >= 2
      /\ config.session => config.files >= 3
      /\ config.rotating <= config.first
      /\ ~config.session => config.rotating = config.first
  BY <1>1, ConfigType, ConfigSizes
<1>3. Log!Last \in Nat /\ Log!Last >= 1 /\ (config.session => Log!Last >= 2)
  BY <1>2 DEF Log!Last
<1>4. QED
  BY <1>2, <1>3 DEF StateTypes, IndInv, Log!TypeOK, ClosedWhileRotating, IndexLoweredOnce, Rotating

(* What fits in the current file.                                          *)
LEMMA ChunkFits ==
  ASSUME StateTypes, Log!CanWrite
  PROVE  /\ Log!write_length \in Nat
         /\ current_bytes_written_ + Log!write_length <= max_file_size_
BY DEF StateTypes, Log!CanWrite, Log!write_length

LEMMA StepBookkeeping ==
  ASSUME Log!RotatingAssumption, IndInv, Bookkeeping, [Log!Next]_Log!vars
  PROVE  Bookkeeping'
<1>1. StateTypes
  BY TypedState
<1>2. CASE Log!Open
  BY <1>1, <1>2 DEF Log!Open, Log!OpenCurrentFile, Bookkeeping, Log!configVars, Log!callVars, StateTypes
<1>3. CASE Log!Close
  BY <1>1, <1>3 DEF Log!Close, Bookkeeping, Log!configVars, Log!callVars, Log!openVars, StateTypes
<1>4. CASE \E n \in WriteSizes : Log!Write(n)
  BY <1>1, <1>4 DEF Log!Write, Bookkeeping, Log!configVars, Log!openVars, StateTypes
<1>5. CASE Log!WriteChunk
  <2>1. Log!write_length \in Nat /\ current_bytes_written_ + Log!write_length <= max_file_size_
    BY <1>1, <1>5, ChunkFits DEF Log!WriteChunk
  <2>2. UNCHANGED <<config, max_file_size_, num_rotations_, opens>> /\ opens # 0
    BY <1>5 DEF Log!WriteChunk, Log!configVars, Log!openVars, Bookkeeping
  <2>3. pc' # "move" /\ (~is_open' => current_bytes_written_' = 0)
        /\ current_bytes_written_' \in {0, current_bytes_written_ + Log!write_length}
    BY <1>5 DEF Log!WriteChunk, Log!CanWrite
  <2>4. QED
    BY <1>1, <2>1, <2>2, <2>3 DEF Bookkeeping, StateTypes
<1>6. CASE Log!WriteFails
  BY <1>1, <1>6 DEF Log!WriteFails, Bookkeeping, Log!configVars, Log!openVars, StateTypes
<1>7. CASE Log!Abort
  BY <1>1, <1>7 DEF Log!Abort, Bookkeeping, Log!configVars, Log!openVars, StateTypes
<1>8. CASE Log!DeleteOldest
  BY <1>1, <1>8 DEF Log!DeleteOldest, Bookkeeping, Log!configVars, Log!openVars, StateTypes
<1>9. CASE Log!MoveNext
  BY <1>1, <1>9 DEF Log!MoveNext, Bookkeeping, Log!configVars, Log!openVars, StateTypes
<1>10. CASE Log!OpenNext
  <2>1. config' = config /\ pc' # "move" /\ opens' = opens /\ opens # 0
    BY <1>10 DEF Log!OpenNext, Log!openVars, Bookkeeping
  <2>2. current_bytes_written_ = 0 /\ current_bytes_written_' = 0
    BY <1>1, <1>10 DEF Log!OpenNext, Log!OpenCurrentFile, Bookkeeping, StateTypes, Rotating
  <2>3. max_file_size_' = IF config.session /\ num_rotations_' > 0 THEN config.rotating
                          ELSE config.first
    BY <1>1, <1>10 DEF Log!OpenNext, Log!OnRotation, Bookkeeping, StateTypes
  <2>4. 0 <= max_file_size_'
    BY <1>1, <2>3 DEF StateTypes
  <2>5. QED
    BY <2>1, <2>2, <2>3, <2>4 DEF Bookkeeping
<1>11. CASE Log!Restart
  BY <1>1, <1>11 DEF Log!Restart, Bookkeeping, StateTypes
<1>12. CASE UNCHANGED Log!vars
  BY <1>1, <1>12 DEF Log!vars, Bookkeeping, Log!configVars, Log!callVars, Log!openVars, StateTypes
<1>13. QED
  BY <1>2, <1>3, <1>4, <1>5, <1>6, <1>7, <1>8, <1>9, <1>10, <1>11, <1>12 DEF Log!Next

-----------------------------------------------------------------------------
(* The sizes *)

LEMMA FilesFinite ==
  ASSUME StateTypes
  PROVE  \A n \in DOMAIN dir : IsFiniteSet(dir[n]) /\ Cardinality(dir[n]) \in Nat
<1>1. IsFiniteSet(1 .. written)
  BY FS_Interval DEF StateTypes
<1>2. QED
  BY <1>1, FS_Subset, FS_CardinalityType DEF StateTypes

(* A file that is moved takes its size with it, and the place of the large *)
(* one when it has been the large one.                                     *)
LEMMA MovedSizes ==
  ASSUME StateTypes, NEW big \in 0 .. Log!Last, SizesWithin(dir, big), NEW k \in 1 .. Log!Last,
         k - 1 \in DOMAIN dir
  PROVE  \E b \in 0 .. Log!Last : SizesWithin(Log!Renamed(k - 1, k), b)
<1> DEFINE d == Log!Renamed(k - 1, k)
           b == IF big = k - 1 THEN k ELSE big
<1>1. DOMAIN d = (DOMAIN dir \ {k - 1}) \cup {k}
  BY DEF Log!Renamed
<1>2. \A n \in DOMAIN d : d[n] = IF n = k THEN dir[k - 1] ELSE dir[n]
  BY DEF Log!Renamed
<1>3. k # k - 1 /\ config.first \in Nat /\ config.rotating \in Nat
      /\ config.rotating <= config.first
  BY DEF StateTypes
<1>f. \A n \in DOMAIN dir : Cardinality(dir[n]) \in Nat
  BY FilesFinite
<1> HIDE DEF d
<1>4. ASSUME NEW n \in DOMAIN d
      PROVE  Cardinality(d[n]) <= IF n = b THEN config.first ELSE config.rotating
  <2>1. CASE n = k
    <3>1. d[n] = dir[k - 1] /\ k - 1 \in DOMAIN dir
      BY <1>2, <2>1
    <3>2. Cardinality(d[n]) <= IF big = k - 1 THEN config.first ELSE config.rotating
      BY <3>1 DEF SizesWithin
    <3>3. CASE big = k - 1
      BY <2>1, <3>2, <3>3
    <3>4. CASE big # k - 1
      <4>1. Cardinality(d[n]) <= config.rotating /\ Cardinality(d[n]) \in Nat
        BY <1>f, <3>1, <3>2, <3>4
      <4>2. QED
        BY <1>3, <4>1
    <3>5. QED
      BY <3>3, <3>4
  <2>2. CASE n # k
    <3>1. d[n] = dir[n] /\ n \in DOMAIN dir /\ n # k - 1
      BY <1>1, <1>2, <2>2
    <3>2. n = b <=> n = big
      BY <2>2, <3>1
    <3>3. QED
      BY <3>1, <3>2 DEF SizesWithin
  <2>3. QED
    BY <2>1, <2>2
<1>5. b \in 0 .. Log!Last
  OBVIOUS
<1>6. SizesWithin(d, b)
  <2> HIDE DEF b
  <2>1. QED
    BY <1>4 DEF SizesWithin
<1>7. QED
  BY <1>5, <1>6 DEF d

LEMMA StepSizes ==
  ASSUME Log!RotatingAssumption, IndInv, Bookkeeping, SizesKept, [Log!Next]_Log!vars
  PROVE  SizesKept'
<1>1. StateTypes
  BY TypedState
<1>2. config' = config /\ Log!Last' = Log!Last
  BY DEF Log!Next, Log!vars, Log!configVars, Log!Open, Log!Close, Log!Write, Log!WriteChunk, Log!WriteFails, Log!Abort,
     Log!DeleteOldest, Log!MoveNext, Log!OpenNext, Log!Restart, Log!Last
<1> SUFFICES ASSUME faults' \cap {"stale", "write"} = {}
             PROVE  /\ \E big \in 0 .. Log!Last : SizesWithin(dir', big)
                    /\ is_open' => Cardinality(dir'[0]) = current_bytes_written_'
                    /\ config.session /\ num_rotations_' = 0 /\ opens' > 0 =>
                         \A m, n \in DOMAIN dir' : m = n
  BY <1>2 DEF SizesKept, SizesWithin
<1>3. CASE Log!Open
  <2>1. DOMAIN dir' \subseteq {0} /\ (0 \in DOMAIN dir' => dir'[0] = {})
    <3>1. PICK kept \in SUBSET DOMAIN dir :
            Log!OpenCurrentFile(Log!Without(DOMAIN dir \ kept),
                            {f \in {"stale", "reopened"} :
                               IF f = "stale" THEN kept # {} ELSE opens > 0})
      BY <1>3 DEF Log!Open
    <3>2. kept = {}
      BY <3>1 DEF Log!OpenCurrentFile
    <3>3. DOMAIN Log!Without(DOMAIN dir \ kept) = {}
      BY <3>2 DEF Log!Without
    <3>4. dir' \in {Log!Without(DOMAIN dir \ kept), Log!Truncated(Log!Without(DOMAIN dir \ kept))}
      BY <3>1 DEF Log!OpenCurrentFile
    <3>5. DOMAIN Log!Truncated(Log!Without(DOMAIN dir \ kept)) = {0}
          /\ Log!Truncated(Log!Without(DOMAIN dir \ kept))[0] = {}
      BY <3>3 DEF Log!Truncated
    <3>6. QED
      BY <3>3, <3>4, <3>5
  <2>2. Cardinality({}) = 0
    BY FS_EmptySet
  <2>3. SizesWithin(dir', 0) /\ 0 \in 0 .. Log!Last
    <3>1. config.first \in Nat /\ config.rotating \in Nat /\ 0 \in 0 .. Log!Last
      BY <1>1 DEF StateTypes
    <3>2. \A n \in DOMAIN dir' : n = 0 /\ Cardinality(dir'[n]) = 0
      BY <2>1, <2>2
    <3>3. QED
      BY <3>1, <3>2 DEF SizesWithin
  <2>4. is_open' => 0 \in DOMAIN dir' /\ current_bytes_written_' = 0
    <3>1. is_open' => 0 \in DOMAIN dir'
      <4>1. PICK kept \in SUBSET DOMAIN dir :
              Log!OpenCurrentFile(Log!Without(DOMAIN dir \ kept),
                              {f \in {"stale", "reopened"} :
                                 IF f = "stale" THEN kept # {} ELSE opens > 0})
        BY <1>3 DEF Log!Open
      <4>2. is_open' => dir' = Log!Truncated(Log!Without(DOMAIN dir \ kept))
        BY <4>1 DEF Log!OpenCurrentFile
      <4>3. QED
        BY <4>2 DEF Log!Truncated
    <3>2. current_bytes_written_' = 0
      BY <1>1, <1>3 DEF Log!Open, Log!OpenCurrentFile, Bookkeeping, StateTypes
    <3>3. QED
      BY <3>1, <3>2
  <2>5. QED
    BY <2>1, <2>2, <2>3, <2>4
<1>4. CASE Log!Close \/ (\E n \in WriteSizes : Log!Write(n)) \/ Log!Abort \/ UNCHANGED Log!vars
  <2>1. UNCHANGED <<dir, num_rotations_, opens, faults>>
    BY <1>4 DEF Log!Close, Log!Write, Log!Abort, Log!vars, Log!configVars, Log!openVars
  <2>2. is_open' => is_open /\ current_bytes_written_' = current_bytes_written_
    BY <1>4 DEF Log!Close, Log!Write, Log!Abort, Log!vars
  <2>3. QED
    BY <1>2, <2>1, <2>2 DEF SizesKept
<1>5. CASE Log!WriteChunk
  <2> DEFINE len == Log!write_length
  <2>1. len \in Nat /\ current_bytes_written_ + len <= max_file_size_
    BY <1>1, <1>5, ChunkFits DEF Log!WriteChunk
  <2>2. is_open /\ 0 \in DOMAIN dir /\ opens # 0 /\ faults \cap {"stale", "write"} = {}
        /\ num_rotations_' = num_rotations_
    BY <1>1, <1>5 DEF Log!WriteChunk, Log!CanWrite, StateTypes, Bookkeeping, Log!configVars
  <2>3. dir' = [dir EXCEPT ![0] = @ \cup (written + 1 .. written + len)]
    BY <1>5 DEF Log!WriteChunk, Log!AppendBytes
  <2> HIDE DEF len
  <2>4. Cardinality(dir'[0]) = current_bytes_written_ + len
    <3>1. dir[0] \subseteq 1 .. written /\ written \in Nat /\ current_bytes_written_ \in Nat
      BY <1>1, <2>2 DEF StateTypes
    <3>2. IsFiniteSet(dir[0])
      BY <1>1, <2>2, FilesFinite
    <3>3. IsFiniteSet(written + 1 .. written + len)
          /\ Cardinality(written + 1 .. written + len) = len
      <4>1. written + 1 \in Int /\ written + len \in Int
        BY <2>1, <3>1
      <4>2. CASE len = 0
        <5>1. written + 1 .. written + len = {}
          BY <3>1, <4>2
        <5> QED
          BY <4>2, <5>1, FS_EmptySet
      <4>3. CASE len # 0
        <5>1. written + 1 <= written + len /\ (written + len) - (written + 1) + 1 = len
          BY <2>1, <3>1, <4>3
        <5> QED
          BY <4>1, <5>1, FS_Interval
      <4> QED
        BY <4>2, <4>3
    <3>4. dir[0] \cap (written + 1 .. written + len) = {}
      BY <3>1
    <3>5. Cardinality(dir[0]) = current_bytes_written_
      BY <2>2 DEF SizesKept
    <3>6. dir'[0] = dir[0] \cup (written + 1 .. written + len)
      BY <2>2, <2>3
    <3> DEFINE added == written + 1 .. written + len
    <3> HIDE DEF added
    <3>7. Cardinality(dir[0] \cup added) =
            Cardinality(dir[0]) + Cardinality(added) - Cardinality(dir[0] \cap added)
      BY <3>2, <3>3, FS_Union DEF added
    <3>8. Cardinality(dir[0] \cap added) = 0 /\ Cardinality(added) = len
          /\ dir'[0] = dir[0] \cup added
      BY <3>3, <3>4, <3>6, FS_EmptySet DEF added
    <3>9. QED
      BY <2>1, <3>1, <3>5, <3>7, <3>8
  <2>5. DOMAIN dir' = DOMAIN dir /\ \A n \in DOMAIN dir : n # 0 => dir'[n] = dir[n]
    BY <2>3
  <2>6. config.session /\ num_rotations_ = 0 => DOMAIN dir = {0}
    BY <1>1, <2>2 DEF SizesKept, StateTypes
  <2>7. \E big \in 0 .. Log!Last : SizesWithin(dir', big)
    <3>1. CASE config.session /\ num_rotations_ = 0
      <4>1. Cardinality(dir'[0]) <= config.first
        BY <1>1, <2>1, <2>4, <3>1 DEF Bookkeeping, StateTypes
      <4>2. SizesWithin(dir', 0) /\ 0 \in 0 .. Log!Last
        BY <1>1, <2>5, <2>6, <3>1, <4>1 DEF SizesWithin, StateTypes
      <4>3. QED
        BY <4>2
    <3>2. CASE ~(config.session /\ num_rotations_ = 0)
      <4>1. PICK big \in 0 .. Log!Last : SizesWithin(dir, big)
        BY <2>2 DEF SizesKept
      <4>2. Cardinality(dir'[0]) <= config.rotating /\ Cardinality(dir'[0]) <= config.first
        BY <1>1, <2>1, <2>4, <3>2 DEF Bookkeeping, StateTypes
      <4>3. SizesWithin(dir', big)
        BY <2>5, <4>1, <4>2 DEF SizesWithin
      <4>4. QED
        BY <4>3
    <3>3. QED
      BY <3>1, <3>2
  <2>8. is_open' => current_bytes_written_' = current_bytes_written_ + len
    BY <1>5 DEF Log!WriteChunk, len
  <2>9. config.session /\ num_rotations_' = 0 => \A m, n \in DOMAIN dir' : m = n
    BY <2>2, <2>5, <2>6
  <2>10. QED
    BY <2>4, <2>7, <2>8, <2>9
<1>6. CASE Log!WriteFails
  BY <1>6 DEF Log!WriteFails
<1>7. CASE Log!DeleteOldest
  <2>1. ~is_open' /\ faults \cap {"stale", "write"} = {} /\ UNCHANGED <<num_rotations_, opens>>
    BY <1>1, <1>7 DEF Log!DeleteOldest, Log!May, StateTypes, Rotating, Log!configVars, Log!openVars
  <2>2. DOMAIN dir' \subseteq DOMAIN dir /\ \A n \in DOMAIN dir' : dir'[n] = dir[n]
    BY <1>7 DEF Log!DeleteOldest, Log!May, Log!Without
  <2>3. PICK big \in 0 .. Log!Last : SizesWithin(dir, big)
    BY <2>1 DEF SizesKept
  <2>4. SizesWithin(dir', big)
    BY <2>2, <2>3 DEF SizesWithin
  <2>5. QED
    BY <2>1, <2>2, <2>4 DEF SizesKept
<1>8. CASE Log!MoveNext
  <2>1. ~is_open' /\ faults \cap {"stale", "write"} = {} /\ UNCHANGED <<num_rotations_, opens>>
    BY <1>1, <1>8 DEF Log!MoveNext, Log!May, StateTypes, Rotating, Log!configVars, Log!openVars
  <2>2. PICK big \in 0 .. Log!Last : SizesWithin(dir, big)
    BY <2>1 DEF SizesKept
  <2>3. CASE dir' = dir
    BY <2>1, <2>2, <2>3 DEF SizesKept
  <2>4. CASE index - 1 \in DOMAIN dir /\ dir' = Log!Renamed(index - 1, index)
    <3>1. \E b \in 0 .. Log!Last : SizesWithin(Log!Renamed(index - 1, index), b)
      BY <1>1, <1>8, <2>2, <2>4, MovedSizes DEF Log!MoveNext, StateTypes
    <3>2. DOMAIN dir' = (DOMAIN dir \ {index - 1}) \cup {index}
      BY <2>4 DEF Log!Renamed
    <3>3. (\A m, n \in DOMAIN dir : m = n) => \A m, n \in DOMAIN dir' : m = n
      BY <2>4, <3>2
    <3>4. QED
      BY <2>1, <2>4, <3>1, <3>3 DEF SizesKept
  <2>5. QED
    BY <1>8, <2>3, <2>4 DEF Log!MoveNext, Log!May
<1>9. CASE Log!OpenNext
  <2>1. faults \cap {"stale", "write"} = {} /\ current_bytes_written_' = 0
    BY <1>1, <1>9 DEF Log!OpenNext, Log!OpenCurrentFile, Bookkeeping, StateTypes
  <2>2. dir' \in {dir, Log!Truncated(dir)} /\ (is_open' => dir' = Log!Truncated(dir))
    BY <1>9 DEF Log!OpenNext, Log!OpenCurrentFile
  <2>3. DOMAIN Log!Truncated(dir) = DOMAIN dir \cup {0}
        /\ \A n \in DOMAIN Log!Truncated(dir) : Log!Truncated(dir)[n] = IF n = 0 THEN {} ELSE dir[n]
    BY DEF Log!Truncated
  <2>4. Cardinality({}) = 0
    BY FS_EmptySet
  <2>5. PICK big \in 0 .. Log!Last : SizesWithin(dir, big)
    BY <2>1 DEF SizesKept
  <2>6. SizesWithin(Log!Truncated(dir), big)
    <3>1. ASSUME NEW n \in DOMAIN Log!Truncated(dir)
          PROVE  Cardinality(Log!Truncated(dir)[n]) <= IF n = big THEN config.first ELSE config.rotating
      <4>1. CASE n = 0
        BY <1>1, <2>3, <2>4, <4>1 DEF StateTypes
      <4>2. CASE n # 0
        BY <2>3, <2>5, <4>2 DEF SizesWithin
      <4>3. QED
        BY <4>1, <4>2
    <3>2. QED
      BY <3>1 DEF SizesWithin
  <2>7. is_open' => Cardinality(dir'[0]) = 0
    BY <2>2, <2>3, <2>4
  <2>8. ~(config.session /\ num_rotations_' = 0)
    BY <1>1, <1>9 DEF Log!OpenNext, Log!OnRotation, StateTypes
  <2>9. QED
    BY <2>1, <2>2, <2>5, <2>6, <2>7, <2>8
<1>10. CASE Log!Restart
  <2>1. ~is_open' /\ opens' = 0 /\ dir' = dir /\ faults' = faults
    BY <1>10 DEF Log!Restart
  <2>2. QED
    BY <2>1 DEF SizesKept
<1>11. QED
  BY <1>3, <1>4, <1>5, <1>6, <1>7, <1>8, <1>9, <1>10 DEF Log!Next
-----------------------------------------------------------------------------
(* What is kept *)

(* Files that only grow hold what they held.                               *)
LEMMA HoldsMore ==
  ASSUME NEW d, NEW e, NEW I, NEW J, NEW b, Holds(d, I, b),
         I \cap DOMAIN d \subseteq J \cap DOMAIN e,
         \A m \in I \cap DOMAIN d : d[m] \subseteq e[m]
  PROVE  Holds(e, J, b)
BY DEF Holds

(* A file that a move renames holds at i what it held at i - 1; the others *)
(* stay where they are, but for the one it replaces.                       *)
LEMMA HoldsMoved ==
  ASSUME StateTypes, index > 0, NEW d,
         IF index - 1 \in DOMAIN dir THEN d = Log!Renamed(index - 1, index) ELSE d = dir,
         NEW I, NEW J, NEW b, Holds(dir, I, b), index \notin I,
         \A m \in I \cap DOMAIN dir : (IF m = index - 1 THEN index ELSE m) \in J
  PROVE  Holds(d, J, b)
<1>1. PICK m \in I \cap DOMAIN dir : b \in dir[m]
  BY DEF Holds
<1>2. m \in Int /\ index \in Int /\ m # index
  BY <1>1 DEF StateTypes
<1>3. CASE index - 1 \in DOMAIN dir
  <2>1. DOMAIN d = (DOMAIN dir \ {index - 1}) \cup {index}
        /\ \A n \in DOMAIN d : d[n] = IF n = index THEN dir[index - 1] ELSE dir[n]
    BY <1>3 DEF Log!Renamed
  <2>2. CASE m = index - 1
    <3>1. index \in J \cap DOMAIN d /\ b \in d[index]
      BY <1>1, <2>1, <2>2
    <3>2. QED
      BY <3>1 DEF Holds
  <2>3. CASE m # index - 1
    <3>1. m \in J \cap DOMAIN d /\ b \in d[m]
      BY <1>1, <1>2, <2>1, <2>3
    <3>2. QED
      BY <3>1 DEF Holds
  <2>4. QED
    BY <2>2, <2>3
<1>4. CASE index - 1 \notin DOMAIN dir
  <2>1. m \in J \cap DOMAIN d /\ b \in d[m]
    BY <1>1, <1>4
  <2>2. QED
    BY <2>1 DEF Holds
<1>5. QED
  BY <1>3, <1>4

LEMMA OpenHoldsLog ==
  ASSUME StateTypes, Bookkeeping, Log!Open, faults' \subseteq {"delete"}
  PROVE  LogHolds'
<1>1. PICK kept \in SUBSET DOMAIN dir :
        Log!OpenCurrentFile(Log!Without(DOMAIN dir \ kept),
                        {f \in {"stale", "reopened"} :
                           IF f = "stale" THEN kept # {} ELSE opens > 0})
  BY DEF Log!Open
<1>2. is_open' = TRUE /\ opens = 0 /\ dir' = Log!Truncated(Log!Without(DOMAIN dir \ kept))
  BY <1>1 DEF Log!OpenCurrentFile, StateTypes
<1>3. dir'[0] = {} /\ current_bytes_written_' = 0 /\ num_rotations_ = 0
  BY <1>1, <1>2 DEF Log!OpenCurrentFile, Log!Truncated, Bookkeeping
<1>4. start' = written /\ written' = written /\ pc' = "idle" /\ num_rotations_' = 0
  BY <1>3 DEF Log!Open, Log!configVars, Log!callVars
<1>5. OpenHolds'
  BY <1>3, <1>4 DEF OpenHolds, Closed, StateTypes
<1>6. FirstHolds'
  BY <1>2, <1>3, <1>4 DEF FirstHolds, StateTypes
<1>7. QED
  BY <1>4, <1>5, <1>6 DEF LogHolds, Rotating

(* Writing to the current file.                                            *)
LEMMA WriteChunkHoldsLog ==
  ASSUME StateTypes, Bookkeeping, LogHolds, Log!WriteChunk, faults' \subseteq {"delete"}
  PROVE  LogHolds'
<1> DEFINE len == Log!write_length
           cur == current_bytes_written_
           r == config.rotating
<1>1. len \in Nat /\ cur + len <= max_file_size_ /\ cur \in Nat /\ max_file_size_ \in Nat
  BY ChunkFits DEF Log!WriteChunk, StateTypes
<1>2. is_open /\ 0 \in DOMAIN dir /\ opens > 0 /\ faults \subseteq {"delete"}
  BY DEF Log!WriteChunk, Log!CanWrite, StateTypes, Bookkeeping
<1>3. OpenHolds /\ FirstHolds
  BY <1>2 DEF LogHolds
<1>4. /\ DOMAIN dir' = DOMAIN dir
      /\ \A n \in DOMAIN dir : dir[n] \subseteq dir'[n]
      /\ written + 1 .. written + len \subseteq dir'[0]
      /\ written' = written + len
  BY <1>2 DEF Log!WriteChunk, Log!AppendBytes
<1>5. UNCHANGED <<config, num_rotations_, rotation_index_, start, opens>> /\ Log!Last' = Log!Last
  BY DEF Log!WriteChunk, Log!configVars, Log!openVars, Log!Last
<1>6. \A I, b : Holds(dir, I, b) => Holds(dir', I, b)
  BY <1>4 DEF Holds
<1>7. \A b \in start + 1 .. written' : b > Closed => b \in dir'[0]
  <2>1. SUFFICES ASSUME NEW b \in start + 1 .. written', b > Closed
                 PROVE  b \in dir'[0]
    OBVIOUS
  <2>2. CASE b <= written
    BY <1>2, <1>3, <1>4, <2>1, <2>2 DEF OpenHolds, StateTypes
  <2>3. CASE ~(b <= written)
    <3>1. b \in written + 1 .. written + len
      BY <1>1, <1>4, <2>1, <2>3 DEF StateTypes
    <3>2. QED
      BY <1>4, <3>1
  <2>4. QED
    BY <2>2, <2>3
<1> HIDE DEF len
<1>8. Closed \in Int /\ Closed <= written /\ written \in Nat /\ start \in Nat /\ start <= written
  BY DEF Closed, StateTypes
<1>9. FirstAt' = FirstAt /\ pc' # "move"
  BY <1>5 DEF Log!WriteChunk, FirstAt
<1>10. config.session => \A b \in start + 1 .. written' :
         b <= start + config.first => Holds(dir', {FirstAt}, b)
  <2>1. SUFFICES ASSUME config.session, NEW b \in start + 1 .. written', b <= start + config.first
                 PROVE  Holds(dir', {FirstAt}, b)
    OBVIOUS
  <2>2. CASE b <= written
    <3>1. b \in start + 1 .. written
      BY <1>1, <1>4, <1>8, <2>1, <2>2
    <3>2. Holds(dir, {FirstAt}, b)
      BY <1>3, <2>1, <3>1 DEF FirstHolds
    <3>3. QED
      BY <1>6, <3>2
  <2>3. CASE ~(b <= written)
    <3>1. num_rotations_ = 0
      BY <1>3, <1>8, <2>1, <2>3 DEF FirstHolds, StateTypes
    <3>2. FirstAt = 0
      BY <3>1 DEF FirstAt, StateTypes, Log!WriteChunk
    <3>3. b \in written + 1 .. written + len
      BY <1>1, <1>4, <1>8, <2>1, <2>3
    <3>4. 0 \in DOMAIN dir' /\ b \in dir'[0]
      BY <1>2, <1>4, <3>3
    <3>5. QED
      BY <3>2, <3>4 DEF Holds
  <2>4. QED
    BY <2>2, <2>3
<1>11. CASE cur + len >= max_file_size_
  <2>1. pc' = "delete" /\ is_open' = FALSE /\ cur + len = max_file_size_
    BY <1>1, <1>11 DEF Log!WriteChunk, len
  <2>2. RotationHolds(rotation_index_)'
    <3>1. SUFFICES ASSUME NEW n \in 1 .. rotation_index_, NEW b \in start + 1 .. written',
                          b > written' - n * r
                   PROVE  Holds(dir', 0 .. n - 1, b)
      BY <1>5 DEF RotationHolds, Newest, StateTypes
    <3>2. CASE b > Closed
      <4>1. 0 \in (0 .. n - 1) \cap DOMAIN dir' /\ b \in dir'[0]
        BY <1>2, <1>4, <1>7, <3>2 DEF StateTypes
      <4>2. QED
        BY <4>1 DEF Holds
    <3>3. CASE ~(b > Closed)
      <4>1. b \in start + 1 .. Closed
        BY <1>1, <1>4, <1>8, <3>3
      <4>2. ~(config.session /\ num_rotations_ = 0)
        BY <1>2, <1>3, <1>8, <4>1 DEF FirstHolds, Closed, StateTypes
      <4>3. max_file_size_ = r
        BY <4>2 DEF Bookkeeping, StateTypes
      <4>4. n * r = (n - 1) * r + r /\ n - 1 \in 0 .. rotation_index_
            /\ n * r \in Int /\ (n - 1) * r \in Int /\ r \in Nat
        BY DEF StateTypes
      <4>5. b > Closed - (n - 1) * r
        BY <1>1, <1>4, <1>8, <2>1, <3>1, <4>1, <4>3, <4>4 DEF Closed
      <4>6. Holds(dir, 1 .. n - 1, b)
        BY <1>3, <4>1, <4>4, <4>5 DEF OpenHolds
      <4>7. Holds(dir', 0 .. n - 1, b)
        <5>1. 1 .. n - 1 \subseteq 0 .. n - 1
          BY <4>4
        <5>2. QED
          BY <1>4, <4>6, <5>1 DEF Holds
      <4>8. QED
        BY <4>7
    <3>4. QED
      BY <3>2, <3>3
  <2>3. FirstHolds'
    <3>1. config.session =>
            IF num_rotations_ = 0 THEN written' = start + config.first
            ELSE written' >= start + config.first
      BY <1>1, <1>2, <1>3, <1>4, <1>8, <2>1 DEF FirstHolds, Bookkeeping, StateTypes
    <3>2. QED
      BY <1>5, <1>9, <1>10, <2>1, <3>1 DEF FirstHolds
  <2>4. QED
    BY <2>1, <2>2, <2>3 DEF LogHolds
<1>12. CASE ~(cur + len >= max_file_size_)
  <2>1. pc' = "idle" /\ is_open' = TRUE /\ current_bytes_written_' = cur + len
    BY <1>2, <1>12 DEF Log!WriteChunk, len
  <2>2. Closed' = Closed
    BY <1>1, <1>4, <1>8, <2>1 DEF Closed
  <2>3. OpenHolds'
    <3>1. \A n \in 0 .. rotation_index_, b \in start + 1 .. Closed :
            b > Closed - n * config.rotating => Holds(dir', 1 .. n, b)
      BY <1>3, <1>6 DEF OpenHolds
    <3>2. QED
      BY <1>5, <1>7, <2>2, <3>1 DEF OpenHolds
  <2>4. FirstHolds'
    <3>1. config.session =>
            IF num_rotations_ = 0 THEN written' = start + (cur + len)
            ELSE written' >= start + config.first
      BY <1>1, <1>2, <1>3, <1>4, <1>8 DEF FirstHolds, StateTypes
    <3>2. QED
      BY <1>5, <1>9, <1>10, <2>1, <3>1 DEF FirstHolds
  <2>5. QED
    BY <2>1, <2>3, <2>4 DEF LogHolds, Rotating
<1>13. QED
  BY <1>11, <1>12
(* Deleting the oldest file.                                               *)
LEMMA DeleteHoldsLog ==
  ASSUME StateTypes, Bookkeeping, LogHolds, Log!DeleteOldest, faults' \subseteq {"delete"}
  PROVE  LogHolds'
<1>1. /\ pc' = "move" /\ index' = rotation_index_ /\ ~is_open' /\ ~is_open
      /\ UNCHANGED <<config, num_rotations_, rotation_index_, written, start, opens>>
      /\ Log!Last' = Log!Last
  BY DEF Log!DeleteOldest, StateTypes, Rotating, Log!configVars, Log!openVars, Log!Last
<1>2. faults \subseteq {"delete"} /\ opens > 0
  <2>1. faults \subseteq faults'
    BY DEF Log!DeleteOldest, Log!May
  <2>2. opens > 0
    BY DEF Log!DeleteOldest, Bookkeeping, StateTypes
  <2>3. QED
    BY <2>1, <2>2
<1>3. RotationHolds(rotation_index_) /\ FirstHolds
  BY <1>2 DEF LogHolds, Log!DeleteOldest, Rotating
<1>4. \A I, b : Holds(dir, I, b) /\ rotation_index_ \notin I => Holds(dir', I, b)
  <2>1. dir' \in {dir, Log!Without({rotation_index_})}
    BY DEF Log!DeleteOldest, Log!May
  <2>2. \A n \in DOMAIN dir : n # rotation_index_ => n \in DOMAIN dir' /\ dir'[n] = dir[n]
    BY <2>1 DEF Log!Without
  <2>3. QED
    BY <2>2 DEF Holds
<1>5. RotationHolds(index)'
  <2>1. \A n \in 1 .. rotation_index_ :
          Newest(n, rotation_index_) = 0 .. n - 1 /\ rotation_index_ \notin 0 .. n - 1
    BY DEF Newest, StateTypes
  <2>2. \A n \in 1 .. rotation_index_, b \in start + 1 .. written :
          b > written - n * config.rotating => Holds(dir', Newest(n, rotation_index_), b)
    BY <1>3, <1>4, <2>1 DEF RotationHolds
  <2>3. QED
    BY <1>1, <2>2 DEF RotationHolds
<1>6. FirstHolds'
  <2>1. config.session => FirstAt' = FirstAt /\ FirstAt # rotation_index_
    BY <1>1 DEF FirstAt, StateTypes, Log!DeleteOldest
  <2>2. config.session => \A b \in start + 1 .. written :
          b <= start + config.first => Holds(dir', {FirstAt}, b)
    BY <1>3, <1>4, <2>1 DEF FirstHolds
  <2>3. QED
    BY <1>1, <1>3, <2>1, <2>2 DEF FirstHolds
<1>7. QED
  BY <1>1, <1>5, <1>6 DEF LogHolds

(* Moving the next file frees the index below.                             *)
LEMMA MoveHoldsLog ==
  ASSUME StateTypes, Bookkeeping, LogHolds, Log!MoveNext, faults' \subseteq {"delete"}
  PROVE  LogHolds'
<1>1. /\ pc = "move" /\ pc' = "move" /\ index' = index - 1 /\ index > 0 /\ ~is_open' /\ ~is_open
      /\ UNCHANGED <<config, num_rotations_, rotation_index_, written, start, opens>>
      /\ Log!Last' = Log!Last
  BY DEF Log!MoveNext, StateTypes, Rotating, Log!configVars, Log!openVars, Log!Last
<1>2. faults \subseteq {"delete"} /\ opens > 0 /\ index <= rotation_index_
  BY DEF Log!MoveNext, Log!May, Bookkeeping, StateTypes
<1>3. RotationHolds(index) /\ FirstHolds
  BY <1>1, <1>2 DEF LogHolds, Rotating
<1>4. IF index - 1 \in DOMAIN dir THEN dir' = Log!Renamed(index - 1, index) ELSE dir' = dir
  BY DEF Log!MoveNext, Log!May
<1>5. index \in 1 .. Log!Last /\ rotation_index_ \in 1 .. Log!Last /\ Log!Last \in Nat
  BY <1>1 DEF StateTypes
<1>6. RotationHolds(index)'
  <2>1. ASSUME NEW n \in 1 .. rotation_index_, NEW b \in start + 1 .. written,
               b > written - n * config.rotating
        PROVE  Holds(dir', Newest(n, index - 1), b)
    <3>1. Holds(dir, Newest(n, index), b)
      BY <1>3, <2>1 DEF RotationHolds
    <3>2. index \notin Newest(n, index)
      BY <1>5 DEF Newest
    <3>3. \A m \in Newest(n, index) : (IF m = index - 1 THEN index ELSE m) \in Newest(n, index - 1)
      BY <1>5 DEF Newest
    <3>4. QED
      BY <1>1, <1>4, <3>1, <3>2, <3>3, HoldsMoved
  <2>2. QED
    BY <1>1, <2>1 DEF RotationHolds
<1>7. FirstHolds'
  <2>1. config.session => FirstAt # index /\ FirstAt' = IF FirstAt = index - 1 THEN index ELSE FirstAt
    BY <1>1, <1>2, <1>5 DEF FirstAt, StateTypes
  <2>2. ASSUME config.session, NEW b \in start + 1 .. written, b <= start + config.first
        PROVE  Holds(dir', {FirstAt'}, b)
    <3>1. Holds(dir, {FirstAt}, b)
      BY <1>3, <2>2 DEF FirstHolds
    <3>2. index \notin {FirstAt}
          /\ \A m \in {FirstAt} : (IF m = index - 1 THEN index ELSE m) \in {FirstAt'}
      BY <2>1, <2>2
    <3>3. QED
      BY <1>1, <1>4, <3>1, <3>2, HoldsMoved
  <2>3. QED
    BY <1>1, <1>3, <2>2 DEF FirstHolds
<1>8. QED
  BY <1>1, <1>6, <1>7 DEF LogHolds

(* Opening the next file, whose index has been freed.                      *)
LEMMA OpenNextHoldsLog ==
  ASSUME StateTypes, Bookkeeping, LogHolds, Log!OpenNext, faults' \subseteq {"delete"}
  PROVE  LogHolds'
<1>1. /\ pc = "move" /\ index = 0 /\ ~is_open /\ pc' \in {"write", "idle"}
      /\ UNCHANGED <<config, written, start, opens>> /\ Log!Last' = Log!Last
  BY DEF Log!OpenNext, StateTypes, Rotating, Log!openVars, Log!Last
<1>2. /\ is_open' = TRUE /\ dir' = Log!Truncated(dir) /\ faults \subseteq {"delete"}
      /\ current_bytes_written_' = 0 /\ opens > 0
  <2>1. Log!OpenCurrentFile(dir, faults) /\ "open" \notin faults'
    BY DEF Log!OpenNext
  <2>2. is_open' = TRUE /\ dir' = Log!Truncated(dir) /\ faults' = faults
    BY <2>1 DEF Log!OpenCurrentFile
  <2>3. current_bytes_written_' = 0 /\ opens > 0
    BY <1>1, <2>1 DEF Log!OpenCurrentFile, Bookkeeping, StateTypes
  <2>4. QED
    BY <2>2, <2>3
<1>3. RotationHolds(0) /\ FirstHolds
  BY <1>1, <1>2 DEF LogHolds, Rotating
<1>4. \A I, b : Holds(dir, I, b) /\ 0 \notin I => Holds(dir', I, b)
  <2>1. \A n \in DOMAIN dir : n # 0 => n \in DOMAIN dir' /\ dir'[n] = dir[n]
    BY <1>2 DEF Log!Truncated
  <2>2. QED
    BY <2>1 DEF Holds
<1>5. rotation_index_' \in Nat /\ rotation_index_' <= rotation_index_
      /\ (config.session => num_rotations_' = num_rotations_ + 1)
  BY DEF Log!OpenNext, Log!OnRotation, StateTypes
<1>6. Closed' = written
  BY <1>1, <1>2 DEF Closed, StateTypes
<1>7. OpenHolds'
  <2>1. \A b \in start + 1 .. written : ~(b > written)
    BY DEF StateTypes
  <2>2. ASSUME NEW n \in 0 .. rotation_index_', NEW b \in start + 1 .. written,
               b > written - n * config.rotating
        PROVE  Holds(dir', 1 .. n, b)
    <3>1. n # 0
      BY <2>1, <2>2 DEF StateTypes
    <3>2. n \in 1 .. rotation_index_ /\ Newest(n, 0) = 1 .. n
      <4>1. n \in Nat /\ n > 0 /\ rotation_index_ \in Nat /\ n <= rotation_index_
        BY <1>5, <3>1 DEF StateTypes
      <4>2. (0 .. n) \ {0} = 1 .. n
        BY <4>1
      <4>3. ~(n <= 0) /\ n \in 1 .. rotation_index_
        BY <4>1
      <4>4. Newest(n, 0) = (0 .. n) \ {0}
        BY <4>3, Zenon DEF Newest
      <4>5. QED
        BY <4>2, <4>3, <4>4
    <3>3. Holds(dir, 1 .. n, b)
      BY <1>3, <2>2, <3>2 DEF RotationHolds
    <3>4. QED
      BY <1>4, <3>3
  <2>3. QED
    BY <1>1, <1>6, <2>1, <2>2 DEF OpenHolds
<1>8. FirstHolds'
  <2>1. config.session => FirstAt # 0 /\ FirstAt' = FirstAt
    BY <1>1, <1>5 DEF FirstAt, StateTypes
  <2>2. config.session => \A b \in start + 1 .. written :
          b <= start + config.first => Holds(dir', {FirstAt}, b)
    BY <1>3, <1>4, <2>1 DEF FirstHolds
  <2>3. config.session => num_rotations_' # 0 /\ written >= start + config.first
    BY <1>1, <1>3, <1>5 DEF FirstHolds, StateTypes
  <2>4. QED
    BY <1>1, <2>1, <2>2, <2>3 DEF FirstHolds
<1>9. QED
  BY <1>1, <1>7, <1>8 DEF LogHolds, Rotating

LEMMA StepLogHolds ==
  ASSUME Log!RotatingAssumption, IndInv, Bookkeeping, LogHolds, [Log!Next]_Log!vars
  PROVE  LogHolds'
<1>1. StateTypes
  BY TypedState
<1> SUFFICES ASSUME faults' \subseteq {"delete"}
             PROVE  LogHolds'
  BY DEF LogHolds
<1>2. CASE Log!Open
  BY <1>1, <1>2, OpenHoldsLog
<1>3. CASE Log!Close
  BY <1>3 DEF Log!Close, LogHolds, Rotating, Log!callVars
<1>4. CASE (\E n \in WriteSizes : Log!Write(n)) \/ Log!Abort \/ UNCHANGED Log!vars
  <2>1. /\ UNCHANGED <<config, dir, num_rotations_, rotation_index_, current_bytes_written_,
                       opens, start, written, faults, is_open, index>>
        /\ Log!Last' = Log!Last
    BY <1>4 DEF Log!Write, Log!Abort, Log!vars, Log!configVars, Log!callVars, Log!openVars, Log!Last
  <2>2. \/ pc' = pc
        \/ pc \in {"idle", "write"} /\ pc' \in {"write", "aborted"}
    BY <1>4 DEF Log!Write, Log!Abort, Log!vars, Log!callVars
  <2>3. FirstAt' = FirstAt
    BY <2>1, <2>2 DEF FirstAt
  <2>4. /\ is_open' <=> is_open
        /\ Rotating' => Rotating
        /\ pc' = "delete" => pc = "delete"
        /\ pc' = "move" => pc = "move"
    BY <2>1, <2>2 DEF Rotating
  <2>5. OpenHolds' <=> OpenHolds
    BY <2>1 DEF OpenHolds, Closed
  <2>6. (RotationHolds(rotation_index_)' <=> RotationHolds(rotation_index_))
        /\ (RotationHolds(index)' <=> RotationHolds(index))
    BY <2>1 DEF RotationHolds
  <2>7. FirstHolds' <=> FirstHolds
    BY <2>1, <2>3 DEF FirstHolds
  <2>8. QED
    BY <2>1, <2>4, <2>5, <2>6, <2>7 DEF LogHolds
<1>5. CASE Log!WriteChunk
  BY <1>1, <1>5, WriteChunkHoldsLog
<1>6. CASE Log!WriteFails
  BY <1>6 DEF Log!WriteFails
<1>7. CASE Log!DeleteOldest
  BY <1>1, <1>7, DeleteHoldsLog
<1>8. CASE Log!MoveNext
  BY <1>1, <1>8, MoveHoldsLog
<1>9. CASE Log!OpenNext
  BY <1>1, <1>9, OpenNextHoldsLog
<1>10. CASE Log!Restart
  BY <1>10 DEF Log!Restart, LogHolds
<1>11. QED
  BY <1>2, <1>3, <1>4, <1>5, <1>6, <1>7, <1>8, <1>9, <1>10 DEF Log!Next

(* Both ends of the log are kept.                                          *)
LEMMA HoldsBothEnds ==
  ASSUME Log!RotatingAssumption
  PROVE  LogInv => Log!EndsPreserved
<1> SUFFICES ASSUME LogInv, is_open \/ Rotating, faults \subseteq {"delete"},
                    NEW b \in start + 1 .. written,
                    \/ config.session /\ b <= start + config.first
                    \/ b > written - Log!KeptFiles * config.rotating
             PROVE  b \in Log!OnDisk
  BY DEF LogInv, ClosedKeeps, Log!EndsPreserved
<1>1. StateTypes
  BY TypedState DEF LogInv
<1>2. opens > 0
  BY <1>1 DEF LogInv, Bookkeeping, Rotating, StateTypes
<1>3. \A I : Holds(dir, I, b) => b \in Log!OnDisk
  BY DEF Holds, Log!OnDisk
<1>4. CASE config.session /\ b <= start + config.first
  BY <1>2, <1>3, <1>4 DEF LogInv, LogHolds, FirstHolds
<1>5. CASE b > written - Log!KeptFiles * config.rotating
  <2> DEFINE k == Log!KeptFiles
             r == config.rotating
  <2>1. k \in 1 .. rotation_index_
    <3>1. Log!KeptFiles = IF config.session THEN Log!Last - 1 ELSE Log!Last
      <4>1. config.files \in Nat
        BY ConfigType DEF LogInv, IndInv, Log!TypeOK
      <4>2. QED
        BY <4>1 DEF Log!KeptFiles, Log!Last
    <3>2. QED
      BY <1>1, <3>1 DEF StateTypes
  <2>2. r \in Nat /\ k * r \in Nat
    BY <1>1, <2>1 DEF StateTypes
  <2>3. CASE is_open
    <3>1. OpenHolds
      BY <1>2, <2>3 DEF LogInv, LogHolds
    <3>2. Closed \in Int /\ Closed <= written
      BY <1>1 DEF Closed, StateTypes
    <3>3. CASE b > Closed
      <4>1. 0 \in DOMAIN dir /\ b \in dir[0]
        BY <1>1, <2>3, <3>1, <3>3 DEF OpenHolds, StateTypes
      <4>2. QED
        BY <4>1 DEF Log!OnDisk
    <3>4. CASE ~(b > Closed)
      <4> HIDE DEF k, r
      <4>1. b \in start + 1 .. Closed /\ k \in 0 .. rotation_index_
        BY <1>1, <2>1, <3>2, <3>4 DEF StateTypes
      <4>2. b > Closed - k * r
        BY <1>1, <1>5, <2>2, <3>2, <4>1 DEF k, r, StateTypes
      <4>3. Holds(dir, 1 .. k, b)
        BY <3>1, <4>1, <4>2 DEF OpenHolds, r
      <4>4. QED
        BY <1>3, <4>3
    <3>5. QED
      BY <3>3, <3>4
  <2>4. CASE Rotating
    <3>1. PICK h : RotationHolds(h)
      BY <1>2, <2>4 DEF LogInv, LogHolds, Rotating
    <3>2. Holds(dir, Newest(k, h), b)
      BY <1>5, <2>1, <3>1 DEF RotationHolds
    <3>3. QED
      BY <1>3, <3>2
  <2>5. QED
    BY <2>3, <2>4
<1>6. QED
  BY <1>4, <1>5

LEMMA StepClosedKeeps ==
  ASSUME Log!RotatingAssumption
  PROVE  LogInv /\ [Log!Next]_Log!vars => ClosedKeeps'
<1> SUFFICES ASSUME LogInv, [Log!Next]_Log!vars, ~is_open', ~Rotating', faults' \subseteq {"delete"}
             PROVE  Log!EndsPreserved'
  BY DEF ClosedKeeps, Log!EndsPreserved
<1>1. StateTypes
  BY TypedState DEF LogInv
<1>2. UNCHANGED <<config, dir, start, written, faults>>
  <2>1. CASE Log!Open
    BY <2>1 DEF Log!Open, Log!OpenCurrentFile
  <2>2. CASE Log!OpenNext
    BY <2>2 DEF Log!OpenNext, Log!OpenCurrentFile
  <2>3. CASE Log!WriteChunk
    BY <2>3 DEF Log!WriteChunk, Rotating, Log!CanWrite
  <2>4. CASE Log!WriteFails
    BY <2>4 DEF Log!WriteFails
  <2>5. CASE Log!DeleteOldest \/ Log!MoveNext
    BY <2>5 DEF Log!DeleteOldest, Log!MoveNext, Rotating
  <2>6. CASE Log!Close \/ (\E n \in WriteSizes : Log!Write(n)) \/ Log!Abort \/ Log!Restart \/ UNCHANGED Log!vars
    BY <2>6 DEF Log!Close, Log!Write, Log!Abort, Log!Restart, Log!vars, Log!configVars, Log!openVars
  <2>7. QED
    BY <2>1, <2>2, <2>3, <2>4, <2>5, <2>6 DEF Log!Next
<1>3. Log!EndsPreserved
  BY HoldsBothEnds
<1>4. Log!KeptFiles' = Log!KeptFiles /\ Log!OnDisk' = Log!OnDisk
  BY <1>2 DEF Log!KeptFiles, Log!OnDisk
<1>5. QED
  BY <1>2, <1>3, <1>4 DEF Log!EndsPreserved

LEMMA InitLogInv ==
  ASSUME Log!RotatingAssumption
  PROVE  Log!Init => LogInv
<1> SUFFICES ASSUME Log!Init PROVE LogInv
  OBVIOUS
<1>1. IndInv
  BY InitIndInv
<1>2. StateTypes
  BY <1>1, TypedState
<1>3. DOMAIN dir = {}
  BY DEF Log!Init, Log!NoFiles
<1>4. Bookkeeping
  BY <1>2 DEF Bookkeeping, Log!Init, StateTypes
<1>5. LogHolds
  BY DEF LogHolds, Log!Init
<1>6. SizesKept
  BY <1>2, <1>3 DEF SizesKept, SizesWithin, Log!Init, StateTypes
<1>7. ClosedKeeps
  BY DEF ClosedKeeps, Log!EndsPreserved, Log!Init
<1>8. QED
  BY <1>1, <1>4, <1>5, <1>6, <1>7 DEF LogInv

LEMMA StepLogInv ==
  ASSUME Log!RotatingAssumption
  PROVE  LogInv /\ [Log!Next]_Log!vars => LogInv'
<1> SUFFICES ASSUME LogInv, [Log!Next]_Log!vars PROVE LogInv'
  OBVIOUS
<1>1. IndInv' /\ Bookkeeping' /\ LogHolds' /\ SizesKept' /\ ClosedKeeps'
  BY StepIndInv, StepBookkeeping, StepLogHolds, StepSizes, StepClosedKeeps DEF LogInv
<1>2. QED
  BY <1>1 DEF LogInv

(* "Logs from the middle are deleted whereas logs from the beginning and   *)
(* end are preserved": for any numbers and sizes of files the log stays    *)
(* within its size, and the beginning of a session and the newest full     *)
(* files are on disk at every moment of a rotation and after a crash in    *)
(* it.                                                                     *)
THEOREM BothEndsAreKept == MCSpec => []LogIsKept
<1>1. LogInv => LogIsKept
  BY FilesAssumption, HoldsBothEnds, SizesBoundTheLog DEF LogInv, LogIsKept, Log!LogIsKept
<1>2. Log!Init => LogInv
  BY FilesAssumption, InitLogInv
<1>3. LogInv /\ [Log!Next]_Log!vars => LogInv'
  BY FilesAssumption, StepLogInv
<1>4. QED
  BY <1>1, <1>2, <1>3, FilesRun, PTL DEF Log!Spec
=============================================================================
