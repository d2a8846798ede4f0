----------------------------- MODULE MCSequential -----------------------------
(***************************************************************************)
(* The parts of the library that one thread uses: the flat map, the        *)
(* statistics and the conversions; what the library takes from the system; *)
(* and the signals of MCSignals, which call back within a call.  `subject' *)
(* says which one a behaviour is about; for the conversions, which have no *)
(* state, `sample' is what is converted.                                   *)
(***************************************************************************)
EXTENDS Integers, MCSignals

CONSTANTS Keys, Mapped, Default, MaxRange,
          WindowSize, WindowLength, Advances, IntBits, LongBits, MaxFed,
          SampleValues, Boundary, MaxInt, MaxSamples,
          TimestampBits, FractionBits, Milli, MaxWraps,
          PointerSize, Bits, K, Part, TextIntBits, TextLongBits, TextLargeBits,
          Gaps, HalfTime, PerSecond, Max_, MaxInputs,
          WordBits, ArgBits, LineBits, kMaxLogLineSize,
          ThreadObjects, Temporary, MaxSpawned, Wrappers, MaxStreams, Callers, MaxAsked, MaxString

VARIABLES sample,
          body_, map, returned,
          percentile, moving, average, maximum, now, fed,
          counter, stats, histogram, all, left, emptied, tails,
          handler, stored, number, unwrapped_number,
          filter, estimate, rate, observed,
          posix, handle_, joinable_, threads, call, file_, streams, info, instances, caller

FilterSamples == {-1, 0, 2}
Width == <<2, 3, 4, 5>>
Percentiles == {<<1, 2>>, <<1, 1>>}
Others == {<<0, 3>>, <<1>>}
Inputs == {-2, 0, 4}

B == INSTANCE FlatTree
C == INSTANCE Statistics
N == INSTANCE Numbers
A == INSTANCE Addresses
S == INSTANCE Strings WITH IntBits <- TextIntBits, LongBits <- TextLongBits,
                           LargeBits <- TextLargeBits
L == INSTANCE Messages WITH IntBits <- ArgBits
O == INSTANCE Platform

mapVars == <<body_, map, returned>>
filterVars == <<percentile, moving, average, maximum, now, fed>>
counterVars == <<counter, stats, histogram, all, left, emptied, tails>>
timeVars == <<handler, stored, number, unwrapped_number>>
averageVars == <<filter, estimate, rate, observed>>
threadVars == <<posix, handle_, joinable_, threads, call>>
wrapperVars == <<file_, streams>>
infoVars == <<info, instances, caller>>
platformVars == <<threadVars, wrapperVars, infoVars>>
libraryVars == <<mapVars, filterVars, counterVars, timeVars, averageVars>>
partVars == <<sample, libraryVars, platformVars>>

SeqsOver(S_, n) == UNION {[1 .. l -> S_] : l \in 0 .. n}

-----------------------------------------------------------------------------
(* The samples.  Numbers: the types and bounds of two values, and a modulus.*)
TypeSamples == [t : N!Types, u : N!Types, h : N!Types]
ModulusSamples == 0 .. 3

(* Units: the values at the edges of the range, and sizes with a rate.     *)
UnitSamples == BOOLEAN \X N!UnitEdges(FALSE)
RateSamples == (0 .. 64) \X (1 .. 64)

(* Times: years around the leap years, and microseconds around the ends of *)
(* an int64_t of the model's width.                                        *)
Years == {1970, 1971, 1972, 1999, 2000, 2001, 2100, 2101, 2400}
Microseconds == 0 .. 200 \cup 6190 .. 6210 \cup 6395 .. 6450
Milliseconds == -40 .. 40 \cup 5115 .. 5125 \cup -5125 .. -5115

(* Calls of sockets: a platform, a size, an answer; an option and a value. *)
TransferSamples == UNION {A!Platforms \X {cb} \X A!Answers(cb) : cb \in 0 .. 3}
OptionSamples == A!Platforms \X A!Families \X A!Options \X {0, 1}

(* Trace events: arguments, with what their text is later, and ids.        *)
Texts == SeqsOver({L!quote, L!backslash, "a"}, 3) \ {<< >>}
Integers_ == UNION {[type : {"unsigned long long"}, value : 0 .. 2 ^ WordBits - 1],
                    [type : {"long long"}, value : -(2 ^ (WordBits - 1)) .. 2 ^ (WordBits - 1) - 1],
                    [type : {"unsigned int"}, value : 0 .. 2 ^ ArgBits - 1],
                    [type : {"int"}, value : -(2 ^ (ArgBits - 1)) .. 2 ^ (ArgBits - 1) - 1]}
ArgumentSamples == (Integers_ \X {<<"a">>})
  \cup ([type : L!Texts, value : Texts] \X {<<L!quote, "a">>, <<"a">>})
  \cup (([type : {"bool"}, value : BOOLEAN] \cup [type : {"double", "const void*"}, value : {5}]) \X {<<"a">>})
IdSamples == {{}, {"COPY"}} \X (Integers_ \cup [type : {"const void*", "ForceMangle"}, value : {0, 5, 63}])
StepText == [type |-> "const char*", value |-> <<"a">>]
FewIntegers == {[type |-> "int", value |-> 3], [type |-> "long long", value |-> -5], [type |-> "unsigned int", value |-> 7]}
CategorySamples == SeqsOver({"disabled", "-", "a"}, 4)

(* Messages: what is streamed, and the file and line.                      *)
Streamed(types) == [type : types, value : {"1", "2"}] \cup {[type |-> "const char*", value |-> L!Null]}
LogSamples == (SeqsOver(Streamed(L!LogTypes), 2) \X {<<"a", "/", "b">>} \X {31})
  \cup ({<<[type |-> "int", value |-> "1"]>>} \X SeqsOver({"a", "/", "\\"}, 3) \X {0, 1, 32})
CheckSamples == SeqsOver([type : L!CheckTypes, value : {"1", "2"}], 2)
SizeSamples == 0 .. 3 * kMaxLogLineSize + 1

(* Encodings: every short text over a few bytes.                           *)
ByteSamples == SeqsOver({0, 1, 7, 15}, 4)
Base64Samples == SeqsOver({0, 5, S!pd, S!sp, S!il}, 5)
HexSamples == SeqsOver({0, 3, S!Capital + 3, S!Delimiter, S!Other}, 5)
OrderSamples == {1, 2, 4} \X {0, 1, 100, 4660, 65535}

(* Addresses, each as 16-bit words: those at the borders of the networks   *)
(* that are told apart.                                                    *)
V4Words == {0, 1, 2560, 25664, 25728, 32512, 32513, 43518, 44048, 44064, 49320, 64512, 65535,
            8193, 8194, 16382, 64768, 65152, 65216, 65280}
Words(w) == UNION {A!Shift(A!BitsOf(16, w[k]), 16 * (k - 1)) : k \in DOMAIN w}
V4Samples == {A!V4(Words(<<h, l>>)) : h \in V4Words, l \in {0, 1, 256, 65535}}
V6Samples == {A!V6(Words(<<h>> \o v)) : h \in {0, 1, 8193, 65152, 65216, 64768}, v \in [1 .. 7 -> {0, 1}]}
  \cup {A!V6(A!kV4MappedPrefix \cup A!Shift(A!BitsOf(16, h), 96)) : h \in V4Words}
  \cup {A!V6(A!BitsOf(16, h)) : h \in V4Words} \cup {A!V6(1 .. 128)}
FewIPs == {A!Unspec, A!V4({}), A!V4({32}), A!V4({1}), A!V6({}), A!V6({128}),
           A!V6(A!kV4MappedPrefix), A!V6({1})}
FewHosts == {<< >>, <<<<"name", 1>>>>, <<<<"name", 2>>>>}
FromV6Text == A!SetPort(A!SetHost(A!Nil, A!TextOf(A!V6({}))), 80)
SocketAddresses ==
  {[A!SetPort(A!SetResolvedIP(A!SetHost(A!Nil, h), ip), p) EXCEPT !.scope_id = x] :
     h \in FewHosts, ip \in FewIPs, p \in {0, 80}, x \in {0, 1}}
  \cup {A!SetPort(A!SetHost(A!Nil, A!TextOf(ip)), 80) : ip \in FewIPs}
FewAddresses == {addr \in SocketAddresses : addr.scope_id = 0 /\ addr.ip \in FewIPs \ {A!V4({1}), A!V6({1})}}

(* Strings: every short text over the characters that are told apart, and  *)
(* the values a JSON document may hold.                                    *)
FieldSamples == SeqsOver({1, 2, S!separator}, 5)
NumberSamples == SeqsOver({0, 1, 9, 13, S!minus, S!space, S!x, S!nul}, 4)
BuilderSamples == (1 .. 5) \X (0 .. 3) \X (0 .. 3)
JsonTexts == SeqsOver({0, 1, 7, S!minus, S!space, S!plus, S!x, S!nul}, 3)
  \cup {<<S!minus, 8>>, <<1, 5>>, <<1, 6>>, <<S!minus, 1, 5>>, <<S!minus, 2, 5, 5>>, <<2, 5, 6>>}
Json(type, values) == [type : {type}, value : values]
JsonSamples == Json("null", {0}) \cup Json("bool", BOOLEAN) \cup {S!Array(<< >>), S!Object(<< >>)}
  \cup Json("int", {0, 2, 6, 8, 14, 16, 30, 32, -2, -16, -18}) \cup Json("uint", {0, 2, 6, 8, 14, 16, 30, 32})
  \cup Json("real", {1, -1, 4, -5, 15, 16, 30, 31, 33}) \cup Json("string", JsonTexts)
FewJson == Json("int", {2}) \cup Json("null", {0}) \cup Json("string", {<<9>>})

(* The platform: priorities, sizes of files, the registry, and Windows.    *)
FailureSamples == (0 .. 2) \X (0 .. 2) \X SUBSET {"ftell", "to the end", "ftell at the end", "back"}
RegistryTypes == {"REG_DWORD", "REG_BINARY", "REG_SZ", "REG_EXPAND_SZ"}
RegistryValues == [type : RegistryTypes, size : 0 .. MaxString + 1, data : {7}]
VersionSamples == {<<4, 10, 0>>, <<5, 0, 2195>>, <<5, 1, 2600>>, <<5, 2, 3790>>, <<11, 0, 22000>>}
  \cup {<<6, n, 6000 + n>> : n \in 0 .. 3}
  \cup {<<10, 0, O!Builds[k] + off>> : k \in DOMAIN O!Builds, off \in {-1, 0}} \cup {<<10, 0, 10240>>}
Products == O!Servers \cup O!Enterprises
  \cup {<<e>> \o n : e \in {"PROFESSIONAL", "ULTIMATE", "EDUCATION", "HOME_BASIC"}, n \in {<< >>, <<"N">>}}
SystemSamples ==
  [major : {5, 6, 10}, minor : 0 .. 2, build : {10240}, workstation : BOOLEAN, processor : {"AMD64", "ARM"},
   suites : SUBSET {"PERSONAL", "WH_SERVER"}, product : Products, registry : BOOLEAN,
   ubr : {[type |-> "REG_DWORD", size |-> 4, data |-> 7]}, is_wow64 : {"TRUE", "fails"}]

Pure == [types |-> TypeSamples, modulus |-> ModulusSamples, units |-> UnitSamples, rates |-> RateSamples,
         year |-> Years, ntp |-> Microseconds, bytes |-> ByteSamples, base64 |-> Base64Samples,
         hex |-> HexSamples, order |-> OrderSamples, ip |-> V4Samples \cup V6Samples \cup {A!Unspec},
         address |-> SocketAddresses, fields |-> FieldSamples, numbers |-> NumberSamples,
         json |-> JsonSamples, builders |-> BuilderSamples,
         transfers |-> TransferSamples, options |-> OptionSamples, bind |-> {"any", "loopback", "other"},
         arguments |-> ArgumentSamples, ids |-> IdSamples, categories |-> CategorySamples,
         priorities |-> (-1 .. 6) \X (-1 .. 12), sizes |-> FailureSamples, keys |-> SeqsOver(0 .. 3, 4),
         registry |-> RegistryValues \X (0 .. MaxString + 1), versions |-> VersionSamples,
         systems |-> SystemSamples, families |-> (0 .. 4) \X SUBSET {"AF_INET", "AF_INET6"},
         statements |-> LogSamples, checks |-> CheckSamples, pieces |-> SizeSamples]
Stateful == {"map", "filters", "counters", "times", "averages",
             "threads", "wrappers", "windows"}

-----------------------------------------------------------------------------
(* The signals keep their first values while another part runs, and none   *)
(* of the other parts runs while they do.                                  *)
PartsInit ==
  /\ C!FiltersInit /\ (subject # "filters" => percentile = <<1, 1>>)
  /\ B!Init /\ C!CountersInit /\ C!AveragesInit /\ N!Init
  /\ O!ThreadsInit /\ (subject # "threads" => posix) /\ O!FilesInit /\ O!InfoInit

SignalsStill == Init /\ P!Init /\ ~recursive /\ alive = Signals

SeqInit ==
  /\ \/ MCInit /\ sample = 0
     \/ SignalsStill /\ subject \in Stateful /\ sample = 0
     \/ SignalsStill /\ subject \in DOMAIN Pure /\ sample \in Pure[subject]
  /\ PartsInit

Others_ == <<subject, sample, platformVars>>
MapStep == subject = "map" /\ B!Next
  /\ UNCHANGED <<Others_, filterVars, counterVars, timeVars, averageVars>>
FilterStep == subject = "filters" /\ C!FiltersNext
  /\ UNCHANGED <<Others_, mapVars, counterVars, timeVars, averageVars>>
CounterStep == subject = "counters" /\ C!CountersNext
  /\ UNCHANGED <<Others_, mapVars, filterVars, timeVars, averageVars>>
TimeStep == subject = "times" /\ N!Next
  /\ UNCHANGED <<Others_, mapVars, filterVars, counterVars, averageVars>>
AverageStep == subject = "averages" /\ C!AveragesNext
  /\ UNCHANGED <<Others_, mapVars, filterVars, counterVars, timeVars>>
ThreadStep == subject = "threads" /\ O!ThreadsNext
  /\ UNCHANGED <<subject, sample, libraryVars, wrapperVars, infoVars>>
WrapperStep == subject = "wrappers" /\ O!FilesNext
  /\ UNCHANGED <<subject, sample, libraryVars, threadVars, infoVars>>
InfoStep == subject = "windows" /\ O!InfoNext
  /\ UNCHANGED <<subject, sample, libraryVars, threadVars, wrapperVars>>
PartStep ==
  \/ MapStep \/ FilterStep \/ CounterStep \/ TimeStep \/ AverageStep
  \/ ThreadStep \/ WrapperStep \/ InfoStep

SeqNext ==
  \/ PartStep /\ UNCHANGED <<vars, plainVars>>
  \/ MCNext /\ UNCHANGED partVars

SeqSpec == SeqInit /\ [][SeqNext]_<<subject, vars, plainVars, partVars>> /\ Fairness

-----------------------------------------------------------------------------
(* The map gives what an ordered map would give, whatever was inserted,    *)
(* assigned, erased, extracted and replaced before (flat_tree.h).          *)
ActsAsMap == B!ActsAsMap

(* Integers of any two types convert, compare and clamp by their values    *)
(* (numerics/); time, sizes and rates saturate and round as they say       *)
(* (units/, api/units/); timestamps that wrap around, calendar dates and   *)
(* NTP times stand for the right instant; and the percentile, average,     *)
(* maximum, variance and histograms kept up to date sample by sample are   *)
(* those of the samples themselves (numerics/).                            *)
NumbersAgree ==
  /\ subject = "types" =>
       /\ N!ConversionsAgree(sample.t, sample.u) /\ N!ComparisonsAgree(sample.t, sample.u)
       /\ N!MinMaxAgree(sample.t, sample.u) /\ N!ClampAgrees(sample.t, sample.u, sample.h)
  /\ subject = "modulus" => N!ModOpsAgree(sample) /\ N!SequenceAgrees(sample)
  /\ subject = "units" => (sample[2] \in N!UnitEdges(sample[1]) =>
       N!SumsAgree(sample[1], sample[2]) /\ N!RoundingAgrees(sample[1], sample[2]))
  /\ subject = "rates" => N!ConversionsOfUnitsAgree(sample[1], sample[2])
  /\ subject = "times" => N!UnwrapsRight
  /\ subject = "year" => N!CalendarAgrees(sample)
  /\ subject = "ntp" => \A ms \in Milliseconds : N!NtpAgrees(sample, ms)
  /\ subject = "filters" => C!FiltersAgree
  /\ subject = "counters" => C!CountersAgree
  /\ subject = "averages" => C!AveragesAgree

(* Threads, files, registry keys and the OSInfo that are taken from the    *)
(* system are each given back once, when nothing holds them any more, a    *)
(* joinable thread not before it has ended (platform_thread.cc,            *)
(* system/file_wrapper.cc, win/windows_version.cc); and what is asked of   *)
(* the system besides is what it said.                                     *)
PlatformIsGivenBack ==
  /\ O!ThreadsHaveOneOwner /\ O!FilesHaveOneOwner /\ O!OneOSInfo
  /\ subject = "keys" => O!KeysAreClosed(sample)
  /\ subject = "registry" => O!ReadsOrRefuses(sample[1], sample[2])
  /\ subject = "sizes" => O!FileSizeAgrees(sample[1], sample[2], sample[3])
  /\ subject = "priorities" => O!PrioritiesAscend(sample[1], sample[2])
  /\ subject = "versions" => \A other \in VersionSamples : O!VersionsAgree(sample, other)
  /\ subject = "systems" => O!EditionsAgree(sample)
  /\ subject = "families" => \A sizes \in SeqsOver({100, 4096, 5000, 6000}, 3) :
       O!FamiliesAgree(sample[1], sample[2], sizes)

(* What is written as text or bytes reads back as it was, what cannot be   *)
(* read is refused (of the text in a JSON value, what comes before its     *)
(* first NUL), and addresses are ordered and classified by what they are   *)
(* (base64.cc, string_encode.cc, string_to_number.cc, strings/,            *)
(* byte_order.h, ip_address.cc, socket_address.cc, win32.cc); calls of a   *)
(* socket and its options come out the same on every platform              *)
(* (physical_socket_server.cc); and traces, logs and failed checks say what*)
(* they were given (trace_event.h, logging.h, checks.h).                   *)
ConversionsAgree ==
  /\ subject = "bytes" => S!Base64Agrees(sample)
  /\ subject = "base64" => S!DecodingAgrees(sample)
  /\ subject = "hex" => S!HexAgrees(<<0, 7, 15>>, sample)
  /\ subject = "order" => (sample[2] < S!P4 ^ sample[1] => S!ByteOrderAgrees(sample[1], sample[2]))
  /\ subject = "ip" => A!IPAgrees(sample)
  /\ subject = "address" =>
       /\ \A before \in {A!Nil, FromV6Text} : A!SocketAddressAgrees(sample, before)
       /\ (sample.scope_id = 0 => \A b, c \in FewAddresses : A!OrderAgrees(sample, b, c))
  /\ subject = "fields" => S!FieldsAgree(sample)
  /\ subject = "numbers" => S!ParsingAgrees(sample)
  /\ subject = "json" => \A w \in FewJson : S!JsonAgrees(sample, w)
  /\ subject = "builders" =>
       S!BuildersAgree(sample[1], [k \in 1 .. sample[2] |-> k], [k \in 1 .. sample[3] |-> 5 + k])
  /\ subject = "transfers" => A!TransfersAgree(sample[1], sample[2], sample[3])
  /\ subject = "options" => A!OptionsAgree(sample[1], sample[2], sample[3], sample[4])
  /\ subject = "bind" => A!BindAgrees(sample)
  /\ subject = "arguments" => L!ArgumentAgrees(sample[1], sample[2])
  /\ subject = "ids" => \A other \in FewIntegers, value \in FewIntegers :
       L!MacrosAgree(sample[1], sample[2], other, StepText, value)
  /\ subject = "categories" => L!CategoriesAgree(sample)
  /\ subject = "statements" => \A err_ctx \in {"ERRCTX_NONE", "ERRCTX_ERRNO"} :
       L!LogsWhatIsStreamed(sample[2], sample[3], 3, err_ctx, sample[1])
  /\ subject = "checks" => L!FailsWithWhatIsStreamed(
       [type |-> "int", value |-> "3"], [type |-> "unsigned long", value |-> "4"], sample)
  /\ subject = "pieces" => L!PiecesAgree(sample)
===============================================================================
