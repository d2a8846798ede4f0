-------------------------------- MODULE Platform --------------------------------
(***************************************************************************)
(* What the library takes from the system and gives back: threads          *)
(* (rtc_base/platform_thread.cc), files (system/file_wrapper.cc), what     *)
(* Windows says of itself (win/windows_version.cc) and the families of     *)
(* addresses (net_helpers.cc).                                             *)
(*                                                                         *)
(* A PlatformThread and a FileWrapper own what they hold and can only be   *)
(* moved.  One thread of the program has the objects; the threads that were*)
(* spawned run meanwhile.  The callers of OSInfo::GetInstance run at once. *)
(* The system is external: handles and streams are numbers, 0 is none.     *)
(***************************************************************************)
EXTENDS Integers, Sequences, FiniteSets, SequencesExt

CONSTANTS ThreadObjects, \* PlatformThread objects that have a name
          Temporary,     \* the PlatformThread that SpawnThread returns
          MaxSpawned,    \* bound: threads
          Wrappers,      \* FileWrapper objects
          MaxStreams,    \* bound: files that are opened
          Callers,       \* threads that call OSInfo::GetInstance
          MaxAsked,      \* bound: how often each of them does
          MaxString      \* kMaxStringLength

VARIABLES
  posix,                 \* the build is for POSIX, else for Windows
  handle_, joinable_,    \* of the PlatformThread objects
  threads,               \* by handle: joinable, where it is, how often joined and closed
  call,                  \* the move or Finalize under way
  file_,                 \* of the FileWrapper objects
  streams,               \* how often each was closed, and whether the program took it
  info, instances,       \* GetInstance's static info; every OSInfo, and if it lives
  caller                 \* of each caller: its new_info, what it got, calls made

threadVars == <<posix, handle_, joinable_, threads, call>>
fileVars == <<file_, streams>>
infoVars == <<info, instances, caller>>
vars == <<threadVars, fileVars, infoVars>>

-----------------------------------------------------------------------------
(* PlatformThread *)

Owners == ThreadObjects \cup {Temporary}
NoCall == [to |-> Temporary, from |-> Temporary]

ThreadsInit ==
  /\ posix \in BOOLEAN
  /\ handle_ = [o \in Owners |-> 0] /\ joinable_ = [o \in Owners |-> FALSE]
  /\ threads = << >> /\ call = NoCall

(* The new thread runs, and is moved to o.                                 *)
SpawnThread(o, joinable) ==
  /\ call = NoCall /\ Len(threads) < MaxSpawned
  /\ threads' = Append(threads, [joinable |-> joinable, at |-> "created", joined |-> 0, closed |-> 0])
  /\ handle_' = [handle_ EXCEPT ![Temporary] = Len(threads) + 1]
  /\ joinable_' = [joinable_ EXCEPT ![Temporary] = joinable]
  /\ call' = [to |-> o, from |-> Temporary]
  /\ UNCHANGED posix

(* The thread names itself, sets its priority and calls the function; then *)
(* the function is deleted.                                                *)
RunPlatformThread(h) ==
  /\ threads[h].at \in {"created", "running"}
  /\ threads' = [threads EXCEPT ![h].at = IF @ = "created" THEN "running" ELSE "ended"]
  /\ UNCHANGED <<posix, handle_, joinable_, call>>

(* A new object takes r's thread.                                          *)
MoveConstruct(o, r) ==
  /\ call = NoCall /\ o # r /\ handle_[o] = 0
  /\ handle_' = [handle_ EXCEPT ![o] = handle_[r], ![r] = 0]
  /\ joinable_' = [joinable_ EXCEPT ![o] = joinable_[r]]
  /\ UNCHANGED <<posix, threads, call>>

(* operator= begins.  Finalize by itself, and as an object dies, does what *)
(* assigning an object to itself does.                                     *)
Assign(o, r) == call = NoCall /\ call' = [to |-> o, from |-> r] /\ UNCHANGED <<posix, handle_, joinable_, threads>>

(* Joining waits for the thread to end.  On Windows every handle is closed.*)
Finalize ==
  /\ call # NoCall /\ handle_[call.to] # 0
  /\ LET h == handle_[call.to]
         joins == joinable_[call.to]
     IN  /\ joins => threads[h].at = "ended"
         /\ threads' = [threads EXCEPT ![h].joined = @ + IF joins THEN 1 ELSE 0,
                                       ![h].closed = @ + IF posix THEN 0 ELSE 1]
  /\ handle_' = [handle_ EXCEPT ![call.to] = 0]
  /\ UNCHANGED <<posix, joinable_, call>>

(* Mutant: what was moved from keeps the handle. *)
Take_Shared ==
  /\ call # NoCall /\ handle_[call.to] = 0
  /\ handle_' = [handle_ EXCEPT ![call.to] = handle_[call.from]]
  /\ joinable_' = [joinable_ EXCEPT ![call.to] = joinable_[call.from]]
  /\ call' = NoCall
  /\ UNCHANGED <<posix, threads>>

(* The rest of operator=: an object assigned to itself has nothing left.   *)
Take ==
  /\ call # NoCall /\ handle_[call.to] = 0
  /\ handle_' = [handle_ EXCEPT ![call.to] = handle_[call.from], ![call.from] = 0]
  /\ joinable_' = [joinable_ EXCEPT ![call.to] = joinable_[call.from]]
  /\ call' = NoCall
  /\ UNCHANGED <<posix, threads>>

ThreadsNext ==
  \/ \E o \in ThreadObjects :
       \/ \E joinable \in BOOLEAN : SpawnThread(o, joinable)
       \/ \E r \in ThreadObjects : MoveConstruct(o, r) \/ Assign(o, r)
  \/ \E h \in DOMAIN threads : RunPlatformThread(h)
  \/ Finalize \/ Take

(* A thread belongs to one object at most, which knows whether to join it; *)
(* once it belongs to none it has been joined, if it can be, and its handle*)
(* closed, on Windows: once, and not before it had ended                   *)
(* (platform_thread.h: the destructor suspends the calling thread until    *)
(* the created thread exits).                                              *)
ThreadsHaveOneOwner ==
  \A h \in DOMAIN threads :
    LET owners == {o \in Owners : handle_[o] = h}
        t == threads[h]
    IN  /\ Cardinality(owners) <= 1
        /\ \A o \in owners : joinable_[o] = t.joinable
        /\ t.joined = IF owners = {} /\ t.joinable THEN 1 ELSE 0
        /\ t.closed = IF owners = {} /\ ~posix THEN 1 ELSE 0
        /\ t.joined = 1 => t.at = "ended"

(* SetPriority's number for a priority of 1 to 4, -1 if it gives up.       *)
SystemPriority(priority, min_prio, max_prio) ==
  LET top_prio == max_prio - 1
      low_prio == min_prio + 1
  IN  IF -1 \in {min_prio, max_prio} \/ max_prio - min_prio <= 2 THEN -1
      ELSE <<low_prio, (low_prio + top_prio - 1) \div 2,
             IF top_prio - 2 > low_prio THEN top_prio - 2 ELSE low_prio, top_prio>>[priority]

(* A higher priority never gets a lower number, and no number is at the    *)
(* ends of what the system has.                                            *)
PrioritiesAscend(min_prio, max_prio) ==
  \A p \in 1 .. 4 :
    LET n == SystemPriority(p, min_prio, max_prio) IN
    n # -1 => /\ min_prio < n /\ n < max_prio
              /\ p > 1 => SystemPriority(p - 1, min_prio, max_prio) <= n

-----------------------------------------------------------------------------
(* FileWrapper *)

FilesInit == file_ = [w \in Wrappers |-> 0] /\ streams = << >>

(* Closing nothing succeeds; the file is let go whether fclose fails or not.*)
Closed(s, f) == IF f = 0 THEN s ELSE [s EXCEPT ![f].closed = @ + 1]

FileClose(w) ==
  /\ streams' = Closed(streams, file_[w])
  /\ file_' = [file_ EXCEPT ![w] = 0]

(* OpenReadOnly and OpenWriteOnly return a wrapper that is moved to w; its *)
(* file is opened before w's old one is closed, or is none.                *)
FileOpen(w, fails) ==
  LET opened == IF fails THEN streams ELSE Append(streams, [closed |-> 0, taken |-> FALSE])
  IN  /\ Len(streams) < MaxStreams
      /\ streams' = Closed(opened, file_[w])
      /\ file_' = [file_ EXCEPT ![w] = IF fails THEN 0 ELSE Len(opened)]

FileMove(w, r) ==
  LET closed == [file_ EXCEPT ![w] = 0]
  IN  /\ streams' = Closed(streams, file_[w])
      /\ file_' = [closed EXCEPT ![w] = closed[r], ![r] = 0]

FileRelease(w) ==
  /\ file_[w] # 0
  /\ streams' = [streams EXCEPT ![file_[w]].taken = TRUE]
  /\ file_' = [file_ EXCEPT ![w] = 0]

FilesNext ==
  \E w \in Wrappers :
    \/ FileClose(w) \/ FileRelease(w)
    \/ \E fails \in BOOLEAN : FileOpen(w, fails)
    \/ \E r \in Wrappers : FileMove(w, r)

(* A file is closed once, when the last wrapper that had it lets go of it, *)
(* and never by a wrapper if the program took it out.                      *)
FilesHaveOneOwner ==
  \A f \in DOMAIN streams :
    LET owners == {w \in Wrappers : file_[w] = f}
    IN  /\ Cardinality(owners) <= 1
        /\ streams[f].closed = IF owners = {} /\ ~streams[f].taken THEN 1 ELSE 0

(* FileSize and where it leaves the position: it goes to the end and back, *)
(* and any of its calls may fail, in their order.                          *)
FileSize(open, position, size, fails) ==
  CASE ~open \/ fails \cap {"ftell", "to the end"} # {} -> <<-1, position>>
    [] open /\ fails \cap {"ftell", "to the end"} = {} /\ "back" \in fails -> <<-1, size>>
    [] open /\ fails = {"ftell at the end"} -> <<-1, position>>
    [] open /\ fails = {} -> <<size, position>>

(* A size that is told is right, and asking did not move the position.     *)
FileSizeAgrees(position, size, fails) ==
  LET told == FileSize(TRUE, position, size, fails)
  IN  /\ told[1] # -1 => told = <<size, position>>
      /\ told[1] = -1 => fails # {}
      /\ told[2] # position => "back" \in fails

-----------------------------------------------------------------------------
(* The registry *)

(* A RegKey, and what it has closed; Create opens a key as Open does.      *)
NewKey == [key |-> 0, closed |-> << >>]
Close(k) == IF k.key = 0 THEN k ELSE [key |-> 0, closed |-> Append(k.closed, k.key)]
Open(k, subkey) == IF subkey = 0 THEN k ELSE [Close(k) EXCEPT !.key = subkey]

(* RegQueryValueExW.  A value has a type, a size and data, or is missing.  *)
Query(v, size) ==
  IF v.size = 0 THEN "ERROR_FILE_NOT_FOUND"
  ELSE IF v.size > size THEN "ERROR_MORE_DATA" ELSE "ERROR_SUCCESS"

ReadValueDW(v, out_value) ==
  IF Query(v, 4) # "ERROR_SUCCESS" THEN <<Query(v, 4), out_value>>
  ELSE IF v.type \in {"REG_DWORD", "REG_BINARY"} /\ v.size = 4 THEN <<"ERROR_SUCCESS", v.data>>
  ELSE <<"ERROR_CANTREAD", out_value>>

(* Here sizes count characters, and a string is what it expands to.        *)
ReadValue(v, expanded_size, out_value) ==
  IF Query(v, MaxString) # "ERROR_SUCCESS" THEN <<Query(v, MaxString), out_value>>
  ELSE CASE v.type = "REG_SZ" -> <<"ERROR_SUCCESS", v.data>>
         [] v.type = "REG_EXPAND_SZ" ->
              IF expanded_size \in 1 .. MaxString THEN <<"ERROR_SUCCESS", expanded_size>>
                                                  ELSE <<"ERROR_MORE_DATA", out_value>>
         [] OTHER -> <<"ERROR_CANTREAD", out_value>>

GetUBR(opens, v) == IF opens THEN ReadValueDW(v, 0)[2] ELSE 0

(* Whatever keys are opened or fail to open after each other, every one    *)
(* that was opened is closed, once.                                        *)
KeysAreClosed(subkeys) ==
  Close(FoldLeft(Open, NewKey, subkeys)).closed = SelectSeq(subkeys, LAMBDA k : k # 0)

(* Only a value of the right type and size is read; otherwise the caller's *)
(* is as it was.                                                           *)
ReadsOrRefuses(v, expanded_size) ==
  /\ GetUBR(TRUE, v) # 0 => v.size = 4 /\ GetUBR(TRUE, v) = v.data /\ v.type \in {"REG_DWORD", "REG_BINARY"}
  /\ \A read \in {ReadValueDW(v, -1), ReadValue(v, expanded_size, -1)} :
       (read[1] # "ERROR_SUCCESS") = (read[2] = -1)

-----------------------------------------------------------------------------
(* What Windows it is *)

(* VERSION_PRE_XP to VERSION_WIN_LAST are 0 to 22; the build numbers with  *)
(* which the releases after the first Windows 10 begin.                    *)
Builds == <<10586, 14393, 15063, 16299, 17134, 17763, 18362, 18363,
            19041, 19042, 19043, 19044, 20348, 22000>>
VERSION_WIN10 == 7
VERSION_WIN11 == 21
VERSION_WIN_LAST == 22

MajorMinorBuildToVersion(major, minor, build) ==
  CASE major = 5 /\ minor > 0 -> IF minor = 1 THEN 1 ELSE 2
    [] major = 6 -> IF minor < 3 THEN 3 + minor ELSE 6
    [] major = 10 -> VERSION_WIN10 + Cardinality({k \in DOMAIN Builds : build >= Builds[k]})
    [] major = 11 -> VERSION_WIN11
    [] major > 6 /\ major \notin {10, 11} -> VERSION_WIN_LAST
    [] major < 5 \/ (major = 5 /\ minor = 0) -> 0

(* GetProductInfo's products, by their words.                              *)
Servers == {<<e, "SERVER">> : e \in {"CLUSTER", "DATACENTER", "ENTERPRISE", "SMALLBUSINESS", "STANDARD", "WEB"}}
  \cup {<<e, "SERVER", "CORE">> : e \in {"DATACENTER", "ENTERPRISE", "STANDARD"}}
  \cup {<<"ENTERPRISE", "SERVER", "IA64">>, <<"SMALLBUSINESS", "SERVER", "PREMIUM">>}
Enterprises == {<<"ENTERPRISE">> \o s : s \in {<<"E">>} \cup
                  {a \o b : a \in {<< >>, <<"N">>, <<"S">>, <<"S", "N">>}, b \in {<< >>, <<"EVALUATION">>}}}
  \cup {<<"BUSINESS">>, <<"BUSINESS", "N">>}

VersionType(os) ==
  CASE os.major \in {6, 10} ->
         IF os.product \in Servers THEN "SERVER"
         ELSE IF os.product \in {<<"PROFESSIONAL">>, <<"ULTIMATE">>} THEN "PROFESSIONAL"
         ELSE IF os.product \in Enterprises THEN "ENTERPRISE"
         ELSE IF os.product \in {<<"EDUCATION">>, <<"EDUCATION", "N">>} THEN "EDUCATION" ELSE "HOME"
    [] os.major = 5 /\ os.minor = 2 ->
         IF os.workstation /\ os.processor = "AMD64" THEN "PROFESSIONAL"
         ELSE IF "WH_SERVER" \in os.suites THEN "HOME" ELSE "SERVER"
    [] os.major = 5 /\ os.minor = 1 -> IF "PERSONAL" \in os.suites THEN "HOME" ELSE "PROFESSIONAL"
    [] OTHER -> "HOME"

(* IsWow64Process may not exist, fail, or tell.                            *)
GetWOW64StatusForProcess(is_wow64) ==
  CASE is_wow64 \in {"no function", "FALSE"} -> "WOW64_DISABLED"
    [] is_wow64 = "fails" -> "WOW64_UNKNOWN"
    [] is_wow64 = "TRUE" -> "WOW64_ENABLED"

(* What the constructor makes of the answers of the system.                *)
OSInfo(os) ==
  [version |-> MajorMinorBuildToVersion(os.major, os.minor, os.build),
   patch |-> GetUBR(os.registry, os.ubr),
   architecture |-> IF os.processor \in {"INTEL", "AMD64", "IA64"} THEN os.processor ELSE "OTHER",
   version_type |-> VersionType(os),
   wow64_status |-> GetWOW64StatusForProcess(os.is_wow64)]

(* The version grows with the numbers, of releases there are, and a build  *)
(* of Windows 10 or 11 is the newest that windows_version.h names and that *)
(* is not newer than it.                                                   *)
Earlier(a, b) ==
  \/ a[1] < b[1]
  \/ a[1] = b[1] /\ (a[2] < b[2] \/ (a[2] = b[2] /\ a[3] <= b[3]))
VersionsAgree(a, b) ==
  LET version(v) == MajorMinorBuildToVersion(v[1], v[2], v[3])
      named == <<10240>> \o Builds
      k == version(a) - VERSION_WIN10 + 1
  IN  /\ Earlier(a, b) => version(a) <= version(b)
      /\ a[1] = 10 /\ a[3] >= 10240 => named[k] <= a[3] /\ (k < Len(named) => a[3] < named[k + 1])
      /\ version(a) # VERSION_WIN_LAST

(* No Windows XP and no workstation's edition counts as a server, an       *)
(* edition with an N counts as the one without, unless as any other does   *)
(* (HOME), and the patch is the registry's or 0.                           *)
EditionsAgree(os) ==
  LET known == OSInfo(os)
  IN  /\ known.version_type = "SERVER" =>
           known.version # 1 /\ (os.major >= 6 => Contains(os.product, "SERVER"))
      /\ known.version_type # "HOME" =>
           \A k \in DOMAIN os.product : os.product[k] = "N" =>
             VersionType([os EXCEPT !.product = RemoveAt(@, k)]) = known.version_type
      /\ known.patch # 0 => os.registry /\ known.patch = os.ubr.data
      /\ (known.wow64_status = "WOW64_UNKNOWN") = (os.is_wow64 = "fails")

-----------------------------------------------------------------------------
(* OSInfo::GetInstance.  info is read without a lock: a caller may miss    *)
(* that it was just set.                                                   *)

InfoInit ==
  /\ info = 0 /\ instances = << >>
  /\ caller = [c \in Callers |-> [new_info |-> 0, got |-> 0, asked |-> 0]]

GetInstance(c) ==
  /\ caller[c].new_info = 0 /\ caller[c].asked < MaxAsked
  /\ \/ /\ info # 0
        /\ caller' = [caller EXCEPT ![c].got = info, ![c].asked = @ + 1]
        /\ UNCHANGED instances
     \/ /\ caller[c].got = 0
        /\ instances' = Append(instances, "alive")
        /\ caller' = [caller EXCEPT ![c].new_info = Len(instances) + 1, ![c].asked = @ + 1]
  /\ UNCHANGED info

(* InterlockedCompareExchangePointer, the deletion and the return.         *)
Exchange(c) ==
  /\ caller[c].new_info # 0
  /\ info' = IF info = 0 THEN caller[c].new_info ELSE info
  /\ instances' = IF info = 0 THEN instances ELSE [instances EXCEPT ![caller[c].new_info] = "deleted"]
  /\ caller' = [caller EXCEPT ![c].new_info = 0, ![c].got = info']

InfoNext == \E c \in Callers : GetInstance(c) \/ Exchange(c)

(* All get the same OSInfo, which lives, and no other is left.             *)
OneOSInfo ==
  /\ \A c \in Callers : caller[c].got \in {0, info}
  /\ \A i \in DOMAIN instances :
       (instances[i] = "alive") = (i = info \/ \E c \in Callers : caller[c].new_info = i)

-----------------------------------------------------------------------------
(* The families of addresses *)

HasIPv4Enabled(on_posix, fails, families) == on_posix => ~fails /\ "AF_INET" \in families

(* WSCEnumProtocols is asked again, with as much room as it said it needs, *)
(* while that was too little; `answers' are what it needs and lists then.  *)
Enumerated(answers, room) ==
  LET need(k) == answers[k].size
      enough == {k \in DOMAIN answers : need(k) <= IF k = 1 THEN room ELSE need(k - 1)}
  IN  IF enough = {} THEN {} ELSE answers[CHOOSE k \in enough : \A j \in enough : k <= j].families

HasIPv6Enabled(on_posix, fails, families, version, answers) ==
  IF on_posix THEN ~fails /\ "AF_INET6" \in families
  ELSE version >= 3 \/ (version >= 1 /\ "AF_INET6" \in Enumerated(answers, 4096))

(* What is enabled does not depend on how much room the list takes, and on *)
(* Windows XP IPv6 is there only if it is installed.                       *)
FamiliesAgree(version, families, sizes) ==
  LET answers == [k \in DOMAIN sizes |-> [size |-> sizes[k], families |-> families]]
      enabled == HasIPv6Enabled(FALSE, FALSE, {}, version, answers)
      settles == \E k \in DOMAIN sizes : sizes[k] <= IF k = 1 THEN 4096 ELSE sizes[k - 1]
  IN  /\ settles => enabled = (version >= 3 \/ (version \in {1, 2} /\ "AF_INET6" \in families))
      /\ HasIPv4Enabled(FALSE, FALSE, families)
      /\ \A fails \in BOOLEAN : HasIPv4Enabled(TRUE, fails, families) = (~fails /\ "AF_INET" \in families)
=================================================================================
