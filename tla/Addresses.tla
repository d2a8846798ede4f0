--------------------------------- MODULE Addresses ---------------------------------
(***************************************************************************)
(* IP addresses, socket addresses and their texts (rtc_base/ip_address,    *)
(* socket_address and, for the texts, win32), and what the calls of a      *)
(* socket make of addresses, options and the system's answers              *)
(* (rtc_base/physical_socket_server.cc); the sequencing of those calls is  *)
(* in PhysicalSocketServer and WinSockets.  The bytes of an address are the*)
(* set of their bits that are one; bit 1 is the first of the network order.*)
(***************************************************************************)
EXTENDS Integers, Sequences, FiniteSets, SequencesExt

BitsOf(width, n) == {b \in 1 .. width : (n \div 2^(width - b)) % 2 = 1}
ValueOf(width, bits) == FoldLeft(LAMBDA v, b : 2 * v + (IF b \in bits THEN 1 ELSE 0), 0, [b \in 1 .. width |-> b])
Shift(bits, n) == {b + n : b \in bits}
Slice(bits, from, width) == {b - from : b \in bits \cap from + 1 .. from + width}
Word(bits, i) == Slice(bits, 32 * i, 32)    \* as uint32_t, i from 0
Short(bits, i) == Slice(bits, 16 * i, 16)
ByteAt(bits, i) == Slice(bits, 8 * i, 8)

-----------------------------------------------------------------------------
(* IPAddress.  The union holds what the other family would read, too.      *)

Unspec == [family |-> "UNSPEC", bits |-> {}]
V4(bits) == [family |-> "INET", bits |-> bits]
V6(bits) == [family |-> "INET6", bits |-> bits]
Width(family) == CASE family = "INET" -> 32 [] family = "INET6" -> 128 [] family = "UNSPEC" -> 0

kV4MappedPrefix == 81 .. 96
k6To4Prefix == BitsOf(16, 8194)            \* 0x2002
kTeredoPrefix == BitsOf(16, 8193)          \* 0x2001, 0
kV4CompatibilityPrefix == {}
k6BonePrefix == BitsOf(16, 16382)          \* 0x3ffe
kPrivateNetworkPrefix == BitsOf(8, 253)    \* 0xfd

EqualIP(a, b) == a.family = b.family /\ a.bits = b.bits

(* memcmp and comparison of unsigned: the first bit that differs.          *)
LessBits(a, b) == \E n \in b \ a : a \cap 1 .. n - 1 = b \cap 1 .. n - 1
LessIP(a, b) ==
  IF a.family # b.family
    THEN a.family = "UNSPEC" \/ (a.family = "INET" /\ b.family = "INET6")
    ELSE a.family # "UNSPEC" /\ LessBits(a.bits, b.bits)

IPIsHelper(ip, tomatch, length) == ip.bits \cap 1 .. length = tomatch

IPIsUnspec(ip) == ip.family = "UNSPEC"
IPIsV4Mapped(ip) == IPIsHelper(ip, kV4MappedPrefix, 96)
IPIsV4Compatibility(ip) == IPIsHelper(ip, kV4CompatibilityPrefix, 96)
IPIs6To4(ip) == IPIsHelper(ip, k6To4Prefix, 16)
IPIsTeredo(ip) == IPIsHelper(ip, kTeredoPrefix, 32)
IPIs6Bone(ip) == IPIsHelper(ip, k6BonePrefix, 16)
IPIsULA(ip) == IPIsHelper(ip, BitsOf(7, 126), 7)
IPIsSiteLocal(ip) == IPIsHelper(ip, BitsOf(10, 1019), 10)

Normalized(ip) == IF ip.family = "INET6" /\ IPIsV4Mapped(ip) THEN V4(Slice(ip.bits, 96, 32)) ELSE ip
AsIPv6Address(ip) == IF ip.family = "INET" THEN V6(kV4MappedPrefix \cup Shift(ip.bits, 96)) ELSE ip

IPIsAny(ip) == ~IPIsUnspec(ip) /\ (ip.bits = {} \/ (ip.family = "INET6" /\ ip.bits = kV4MappedPrefix))

(* The integer shifted right by 32 - width is n.                           *)
Starts(ip, width, n) == ip.bits \cap 1 .. width = BitsOf(width, n)
IPIsLoopback(ip) == \/ ip.family = "INET" /\ Starts(ip, 8, 127)
                    \/ ip.family = "INET6" /\ ip.bits = {128}
IPIsPrivateNetwork(ip) ==
  \/ ip.family = "INET" /\ (Starts(ip, 8, 10) \/ Starts(ip, 12, 172 * 16 + 1) \/ Starts(ip, 16, 192 * 256 + 168))
  \/ ip.family = "INET6" /\ IPIsHelper(ip, kPrivateNetworkPrefix, 8)
IPIsSharedNetwork(ip) == ip.family = "INET" /\ Starts(ip, 10, 100 * 4 + 1)
IPIsLinkLocal(ip) == \/ ip.family = "INET" /\ Starts(ip, 16, 169 * 256 + 254)
                     \/ ip.family = "INET6" /\ IPIsHelper(ip, BitsOf(10, 1018), 10)
IPIsPrivate(ip) == IPIsLinkLocal(ip) \/ IPIsLoopback(ip) \/ IPIsPrivateNetwork(ip) \/ IPIsSharedNetwork(ip)

IPAddressPrecedence(ip) ==
  CASE ip.family = "INET" -> 30
    [] ip.family = "UNSPEC" -> 0
    [] ip.family = "INET6" ->
         IF IPIsLoopback(ip) THEN 60 ELSE IF IPIsULA(ip) THEN 50
         ELSE IF IPIsV4Mapped(ip) THEN 30 ELSE IF IPIs6To4(ip) THEN 20 ELSE IF IPIsTeredo(ip) THEN 10
         ELSE IF IPIsV4Compatibility(ip) \/ IPIsSiteLocal(ip) \/ IPIs6Bone(ip) THEN 1 ELSE 40

Xor(a, b) == (a \ b) \cup (b \ a)
HashIP(ip) == Xor(Xor(Word(ip.bits, 0), Word(ip.bits, 1)), Xor(Word(ip.bits, 2), Word(ip.bits, 3)))

(* Word by word: of the one at position, length % 32 bits are left.        *)
TruncateIP(ip, length) ==
  LET position == length \div 32
  IN  CASE length < 0 \/ ip.family = "UNSPEC" -> Unspec
        [] length > Width(ip.family) - 1 -> ip
        [] OTHER -> [ip EXCEPT !.bits = {b \in @ : \/ (b - 1) \div 32 < position
                                                   \/ (b - 1) \div 32 = position /\ b - 32 * position <= length % 32}]

(* The first word that is not all ones, less its trailing zeroes.          *)
CountIPMaskBits(mask) ==
  LET words == Width(mask.family) \div 32
      i == Cardinality({j \in 0 .. words - 1 : \A h \in 0 .. j : Word(mask.bits, h) = 1 .. 32})
      count == IF i = words THEN {} ELSE Word(mask.bits, i)
      zeroes == CHOOSE z \in 0 .. 31 : 32 - z \in count /\ \A b \in count : b <= 32 - z
  IN  32 * i + IF count = {} THEN 0 ELSE 32 - zeroes

(* What ToSensitiveString writes of the address.                           *)
ToSensitiveString(ip) ==
  CASE ip.family = "INET" -> <<ByteAt(ip.bits, 0), ByteAt(ip.bits, 1), ByteAt(ip.bits, 2)>>
    [] ip.family = "INET6" -> <<Short(ip.bits, 0), Short(ip.bits, 1), Short(ip.bits, 2)>>
    [] ip.family = "UNSPEC" -> << >>

-----------------------------------------------------------------------------
(* Texts are sequences of numbers <<base, value>>, names <<"name", n>> and *)
(* signs <<":", 0>>.                                                       *)

colon == <<":", 0>>
dot == <<".", 0>>
Hex(bits) == <<"hex", ValueOf(16, bits)>>
Dec(n) == <<"dec", n>>

inet_ntop_v4(bits) ==
  FlattenSeq([i \in 1 .. 4 |-> <<Dec(ValueOf(8, ByteAt(bits, i - 1)))>> \o IF i < 4 THEN <<dot>> ELSE << >>])

(* The first of the longest runs of zeroes, <<first, last>>, or none: as a *)
(* pair before the first.                                                  *)
Runs(bits) == {<<f, l>> \in (0 .. 7) \X (0 .. 7) : f <= l /\ \A i \in f .. l : Short(bits, i) = {}}
LongestRun(bits) ==
  IF Runs(bits) = {} THEN <<8, 7>>
  ELSE CHOOSE r \in Runs(bits) : \A s \in Runs(bits) :
         s[2] - s[1] < r[2] - r[1] \/ (s[2] - s[1] = r[2] - r[1] /\ r[1] <= s[1])

(* The shorts from f to l, with a colon after each but before a run.       *)
Shorts(bits, f, l, run) ==
  FlattenSeq([i \in 1 .. l - f + 1 |-> <<Hex(Short(bits, f + i - 1))>>
                \o IF f + i - 1 # 7 /\ f + i # run[1] THEN <<colon>> ELSE << >>])

inet_ntop_v6(bits) ==
  LET run == LongestRun(bits)
  IN  IF run[1] = 0 /\ (run[2] = 5 \/ (run[2] = 4 /\ Short(bits, 5) = 1 .. 16))
        THEN <<colon, colon>> \o (IF run[2] = 4 THEN <<Hex(1 .. 16), colon>> ELSE << >>)
               \o inet_ntop_v4(Slice(bits, 96, 32))
      ELSE IF run = <<8, 7>> THEN Shorts(bits, 0, 7, run)
      ELSE Shorts(bits, 0, run[1] - 1, run) \o <<colon, colon>> \o Shorts(bits, run[2] + 1, 7, run)

TextOf(ip) ==
  CASE ip.family = "INET" -> inet_ntop_v4(ip.bits)
    [] ip.family = "INET6" -> inet_ntop_v6(ip.bits)
    [] ip.family = "UNSPEC" -> << >>

(* What is parsed is a set: of one address, or empty.  A text of decimal   *)
(* numbers may end with a dot.                                             *)
inet_pton_v4(text) ==
  LET t == IF Len(text) = 8 /\ text[8] = dot THEN SubSeq(text, 1, 7) ELSE text
  IN  IF Len(t) = 7 /\ \A i \in 1 .. 7 : IF i % 2 = 0 THEN t[i] = dot ELSE t[i][1] = "dec" /\ t[i][2] <= 255
        THEN {UNION {Shift(BitsOf(8, t[2 * i - 1][2]), 8 * (i - 1)) : i \in 1 .. 4}}
        ELSE {}

Colons(t) == Cardinality({i \in DOMAIN t : t[i] = colon})

(* One turn of the loop: p.at is where it reads, p.cursor the short that   *)
(* is next.                                                                *)
ReadNext(p, text) ==
  LET t == SubSeq(text, p.at, Len(text))
      rest == SubSeq(t, 3, Len(t))
      left == Colons(rest) + 1
  IN  IF t = << >> \/ p.cursor = 8 \/ p.failed THEN p
      ELSE IF t[1] # colon THEN
        IF t[1][1] # "hex" \/ (Len(t) > 1 /\ t[2] # colon) THEN [p EXCEPT !.failed = TRUE]
        ELSE [p EXCEPT !.bits = @ \cup Shift(BitsOf(16, t[1][2]), 16 * p.cursor), !.cursor = @ + 1, !.at = @ + 1]
      ELSE IF Len(t) = 1 \/ t[2] # colon THEN [p EXCEPT !.at = @ + 1]
      ELSE IF p.seencompressed \/ (rest # << >> /\ left > 8 - p.cursor) THEN [p EXCEPT !.failed = TRUE]
      ELSE IF rest = << >> THEN [p EXCEPT !.at = @ + 2, !.cursor = 8]
      ELSE [p EXCEPT !.at = @ + 2, !.cursor = 8 - left, !.seencompressed = TRUE]

inet_pton_v6(text) ==
  LET start == SubSeq(text, 3, Len(text))
      mapped == Len(start) > 1 /\ start[2] = colon /\ start[1] = Hex(1 .. 16)
      v4 == inet_pton_v4(IF mapped THEN SubSeq(start, 3, Len(start)) ELSE start)
      p == FoldLeft(LAMBDA q, c : ReadNext(q, text),
                    [at |-> 1, cursor |-> 0, bits |-> {}, seencompressed |-> FALSE, failed |-> FALSE], text)
  IN  IF Len(text) > 2 /\ SubSeq(text, 1, 2) = <<colon, colon>> /\ dot \in ToSet(start)
        THEN IF colon \in ToSet(start) /\ ~mapped THEN {}
             ELSE {(IF mapped THEN kV4MappedPrefix ELSE {}) \cup Shift(b, 96) : b \in v4}
      ELSE IF p.failed \/ p.at <= Len(text) \/ p.cursor < 8 THEN {} ELSE {p.bits}

IPFromString(text) ==
  IF inet_pton_v4(text) # {} THEN {V4(b) : b \in inet_pton_v4(text)} ELSE {V6(b) : b \in inet_pton_v6(text)}

-----------------------------------------------------------------------------
(* SocketAddress: hostname is a text.  A port has 16 bits.                 *)

TheIP(ips) == IF ips = {} THEN Unspec ELSE CHOOSE ip \in ips : TRUE

Nil == [hostname |-> << >>, literal |-> FALSE, ip |-> Unspec, port |-> 0, scope_id |-> 0]
SetIP(a, ip) == [a EXCEPT !.hostname = << >>, !.literal = FALSE, !.ip = ip, !.scope_id = 0]
SetHost(a, hostname) ==
  [a EXCEPT !.hostname = hostname, !.literal = IPFromString(hostname) # {},
            !.ip = TheIP(IPFromString(hostname)), !.scope_id = 0]
SetResolvedIP(a, ip) == [a EXCEPT !.ip = ip, !.scope_id = 0]
SetPort(a, port) == [a EXCEPT !.port = port % 2^16]

IsNil(a) == a.hostname = << >> /\ IPIsUnspec(a.ip) /\ a.port = 0
IsComplete(a) == ~IPIsAny(a.ip) /\ a.port # 0
IsUnresolvedIP(a) == IPIsUnspec(a.ip) /\ ~a.literal /\ a.hostname # << >>

EqualIPs(a, b) == EqualIP(a.ip, b.ip) /\ ((~IPIsAny(a.ip) /\ ~IPIsUnspec(a.ip)) \/ a.hostname = b.hostname)
EqualAddress(a, b) == EqualIPs(a, b) /\ a.port = b.port

(* Names are ordered by their numbers, and before the texts of addresses,  *)
(* which are ordered as the addresses; no more is used of the order of     *)
(* strings than that it is one.                                            *)
LessHost(s, t) ==
  IF s = << >> \/ t = << >> THEN s = << >> /\ t # << >>
  ELSE IF s[1][1] = "name" /\ t[1][1] = "name" THEN s[1][2] < t[1][2]
  ELSE IF s[1][1] = "name" \/ t[1][1] = "name" THEN s[1][1] = "name"
  ELSE LessIP(TheIP(IPFromString(s)), TheIP(IPFromString(t)))

LessAddress(a, b) ==
  IF ~EqualIP(a.ip, b.ip) THEN LessIP(a.ip, b.ip)
  ELSE IF (IPIsAny(a.ip) \/ IPIsUnspec(a.ip)) /\ a.hostname # b.hostname THEN LessHost(a.hostname, b.hostname)
  ELSE a.port < b.port

(* port | port << 16                                                       *)
Hash(a) == Xor(HashIP(a.ip), BitsOf(16, a.port) \cup Shift(BitsOf(16, a.port), 16))

HostAsURIString(a) ==
  IF ~a.literal /\ a.hostname # << >> THEN a.hostname
  ELSE IF a.ip.family = "INET6" THEN <<<<"[", 0>>>> \o TextOf(a.ip) \o <<<<"]", 0>>>> ELSE TextOf(a.ip)
AddressToString(a) == HostAsURIString(a) \o <<colon, Dec(a.port)>>

First(text, sign) == CHOOSE i \in DOMAIN text : text[i] = sign /\ \A j \in 1 .. i - 1 : text[j] # sign
strtoul(text) == IF text # << >> /\ text[1][1] = "dec" THEN text[1][2] ELSE 0

(* A bracket that is not closed changes nothing and succeeds.              *)
FromString(a, text) ==
  LET bracketed == text[1] = <<"[", 0>>
      closebracket == Len(text) + 1 - First(Reverse(text) \o <<<<"]", 0>>>>, <<"]", 0>>)
      from == IF bracketed THEN closebracket ELSE 1
      tail == SubSeq(text, from, Len(text))
      at == from - 1 + First(tail, colon)
      host == SubSeq(text, IF bracketed THEN 2 ELSE 1, (IF bracketed THEN closebracket ELSE at) - 1)
  IN  IF bracketed /\ closebracket = 0 THEN [success |-> TRUE, address |-> a]
      ELSE IF colon \notin ToSet(tail) THEN [success |-> FALSE, address |-> a]
      ELSE [success |-> TRUE, address |-> SetHost(SetPort(a, strtoul(SubSeq(text, at + 1, Len(text)))), host)]

(* sockaddr_storage                                                        *)
ToSockAddrStorage(a, ip) ==
  [family |-> ip.family, bits |-> ip.bits, port |-> IF IPIsUnspec(ip) THEN 0 ELSE a.port,
   scope_id |-> IF ip.family = "INET6" THEN a.scope_id ELSE 0]
FromSockAddrStorage(s) ==
  [SetPort(SetIP(Nil, [family |-> s.family, bits |-> s.bits]), s.port) EXCEPT !.scope_id = s.scope_id]

-----------------------------------------------------------------------------
(* The address, its classes and its texts.  Truncation leaves the first    *)
(* bits, and a mask that was made so is counted; an IPv4 address and its   *)
(* IPv6 form are of one precedence, both "any" or neither, and the form is *)
(* turned back; ranges are those of the numbers they are written with; the *)
(* sensitive text tells the first half of the network and nothing more;    *)
(* however an address is written, with any of its zeroes left out, it is   *)
(* read back.                                                              *)
IPAgrees(ip) ==
  LET width == Width(ip.family)
      high == ValueOf(16, Short(ip.bits, 0))
      shown == IF ip.family = "INET" THEN 1 .. 24 ELSE 1 .. 48
      other == [ip EXCEPT !.bits = @ \cap shown]
      text == TextOf(ip)
  IN  /\ \A n \in 0 .. width : /\ TruncateIP(ip, n).bits = ip.bits \cap 1 .. n
                               /\ CountIPMaskBits(TruncateIP([ip EXCEPT !.bits = 1 .. width], n)) = n
      /\ IPAddressPrecedence(AsIPv6Address(ip)) = IPAddressPrecedence(ip)
      /\ IPIsAny(AsIPv6Address(ip)) <=> IPIsAny(ip)
      /\ ip.family = "INET" => /\ Normalized(AsIPv6Address(ip)) = ip
                               /\ IPIsPrivateNetwork(ip) <=>
                                    \/ high \in 10 * 256 .. 11 * 256 - 1 \/ high = 192 * 256 + 168
                                    \/ high \in 172 * 256 + 16 .. 172 * 256 + 31
                               /\ IPIsSharedNetwork(ip) <=> high \in 100 * 256 + 64 .. 100 * 256 + 127
      /\ ip.family = "INET6" => /\ IPIsLinkLocal(ip) <=> high \in 65152 .. 65215
                                /\ IPIsSiteLocal(ip) <=> high \in 65216 .. 65279
                                /\ IPIsULA(ip) <=> high \in 64512 .. 65023
      /\ ToSensitiveString(ip) = ToSensitiveString(other)
      /\ ip.family # "UNSPEC" => IPFromString(text) = {ip}
      /\ ip.family = "INET6" => \A run \in Runs(ip.bits) :
           IPFromString(Shorts(ip.bits, 0, run[1] - 1, run) \o <<colon, colon>>
                          \o Shorts(ip.bits, run[2] + 1, 7, run)) = {ip}

(* Socket addresses a, b and c: one order for the set or the map they are  *)
(* kept in, with equality as its third case and as the hash takes it.      *)
OrderAgrees(a, b, c) ==
  /\ Cardinality({r \in 1 .. 3 : CASE r = 1 -> LessAddress(a, b) [] r = 2 -> EqualAddress(a, b)
                                   [] r = 3 -> LessAddress(b, a)}) = 1
  /\ LessAddress(a, b) /\ LessAddress(b, c) => LessAddress(a, c)
  /\ EqualAddress(a, b) => Hash(a) = Hash(b)

(* An address survives a sockaddr_storage and, whatever was there before,  *)
(* its text (a host that was not resolved if its name has no colon).       *)
SocketAddressAgrees(a, before) ==
  /\ a.ip.family # "UNSPEC" =>
       LET stored == FromSockAddrStorage(ToSockAddrStorage(a, a.ip))
           dual == FromSockAddrStorage(ToSockAddrStorage(a, AsIPv6Address(a.ip)))
       IN  /\ EqualAddress(stored, [a EXCEPT !.hostname = << >>])
           /\ stored.scope_id = IF a.ip.family = "INET6" THEN a.scope_id ELSE 0
           /\ dual.ip.family = "INET6" /\ Normalized(dual.ip) = Normalized(a.ip) /\ dual.port = a.port
  /\ LET read == FromString(before, AddressToString(a))
     IN  read.success /\ read.address.port = a.port
           /\ IF a.hostname # << >> /\ ~a.literal
                THEN read.address.hostname = a.hostname /\ IsUnresolvedIP(read.address)
                ELSE read.address.ip = a.ip
  /\ IsNil(a) => a = [Nil EXCEPT !.scope_id = a.scope_id, !.literal = a.literal]
  /\ ~IsComplete(a) => a.port = 0 \/ IPIsAny(a.ip)

-----------------------------------------------------------------------------
(* The calls of a socket.                                                  *)

Platforms == {"Linux", "Android", "Mac", "Windows"}
Posix == Platforms \ {"Windows"}
Failed == -1
Blocking == {"EWOULDBLOCK", "EAGAIN", "EINPROGRESS"}
Errors == Blocking \cup {"ENOBUFS", "EPIPE"}
IsBlockingError(e) == e \in Blocking

(* An answer of the system, and what the call then leaves behind.          *)
LastError(answer) == IF answer.n = Failed THEN answer.e ELSE "none"
Answers(cb) == [n : 0 .. cb, e : {"none"}] \cup [n : {Failed}, e : Errors]

-----------------------------------------------------------------------------
(* Sending and receiving: what the calls of a socket make of what the      *)
(* system returns (rtc_base/physical_socket_server.cc), a number of bytes, *)
(* or Failed with an error, on each platform.                              *)

MaybeRemapSendError(platform, e) == IF platform = "Mac" /\ e = "ENOBUFS" THEN "EWOULDBLOCK" ELSE e

SendTo(platform, cb, answer) ==
  LET error == MaybeRemapSendError(platform, LastError(answer))
      short == answer.n > 0 /\ answer.n < cb
      blocked == answer.n < 0 /\ IsBlockingError(error)
  IN  [returns |-> answer.n, error |-> error,
       enables |-> IF short \/ blocked THEN {"write"} ELSE {}]

(* The source address and the time are only known when the experiment is   *)
(* off or something was received; the time needs POSIX but for Mac.        *)
DoReadFromSocket(platform, experiment, wants, stamp, answer) ==
  LET control == platform \in Posix /\ experiment
      fails == control /\ answer.n <= 0
  IN  [n |-> answer.n,
       addr |-> IF ~wants.addr THEN "untouched" ELSE IF fails THEN "cleared" ELSE "source",
       timestamp |-> IF ~wants.timestamp THEN "untouched"
                     ELSE IF fails \/ platform = "Windows" THEN -1
                     ELSE IF ~control /\ platform = "Mac" THEN -1 ELSE stamp]

RecvFrom(udp, answer) ==
  LET success == answer.n >= 0 \/ IsBlockingError(LastError(answer))
  IN  [returns |-> answer.n, error |-> LastError(answer),
       enables |-> IF udp \/ success THEN {"read"} ELSE {}]

(* Nothing where something was asked for is the end of the stream: it is   *)
(* told later, by DE_CLOSE.                                                *)
Recv(udp, cb, answer) ==
  IF answer.n = 0 /\ cb # 0
  THEN [returns |-> Failed, error |-> "EWOULDBLOCK", enables |-> {"read"}]
  ELSE RecvFrom(udp, answer)

-----------------------------------------------------------------------------
(* Bind *)

Bindings == {"none", "SUCCESS", "FAILURE", "NOT_IMPLEMENTED", "ADDRESS_NOT_FOUND", "NETWORK_CHANGED"}

(* The address bind() is given, or "no call".                              *)
Bind(binder, addr) ==
  IF binder = "none" \/ addr = "any" THEN addr
  ELSE IF binder = "SUCCESS" THEN "any"
  ELSE IF binder = "NOT_IMPLEMENTED" \/ addr = "loopback" THEN addr
  ELSE "no call"

-----------------------------------------------------------------------------
(* Options *)

Options == {"DONTFRAGMENT", "RCVBUF", "SNDBUF", "NODELAY", "DSCP", "RTP_SENDTIME_EXTN_ID"}
Families == {"INET", "INET6", "wrapped"}   \* Accept's sockets have no family_
Unsupported == <<"none", "none">>

TranslateOption(platform, family, opt) ==
  CASE opt = "DONTFRAGMENT" -> IF platform = "Windows" THEN <<"IP", "DONTFRAGMENT">>
                               ELSE IF platform = "Mac" THEN Unsupported
                               ELSE <<"IP", "MTU_DISCOVER">>
    [] opt \in {"RCVBUF", "SNDBUF"} -> <<"SOCKET", opt>>
    [] opt = "NODELAY" -> <<"TCP", "NODELAY">>
    [] opt = "DSCP" /\ platform \in Posix ->
         IF family = "INET6" THEN <<"IPV6", "TCLASS">> ELSE <<"IP", "TOS">>
    [] OTHER -> Unsupported

IP_PMTUDISC_DONT == 0
IP_PMTUDISC_DO == 2

ToSystem(platform, opt, value) ==
  IF opt = "DONTFRAGMENT" /\ platform = "Linux"
  THEN IF value # 0 THEN IP_PMTUDISC_DO ELSE IP_PMTUDISC_DONT
  ELSE IF opt = "DSCP" /\ platform \in Posix THEN value * 4 ELSE value

FromSystem(platform, opt, value) ==
  IF opt = "DONTFRAGMENT" /\ platform = "Linux"
  THEN IF value # IP_PMTUDISC_DONT THEN 1 ELSE 0
  ELSE IF opt = "DSCP" /\ platform \in Posix THEN value \div 4 ELSE value

(* The system's options after the call: a dual-stack socket is given the   *)
(* field of IPv4 as well.                                                  *)
SetOption(platform, family, opt, value, system) ==
  LET name == TranslateOption(platform, family, opt)
      new == ToSystem(platform, opt, value)
      known == [n \in DOMAIN system |-> IF n = <<"IP", "TOS">> /\ name = <<"IPV6", "TCLASS">> THEN new
                                        ELSE system[n]]
  IN  IF name = Unsupported THEN system ELSE [known EXCEPT ![name] = new]

GetOption(platform, family, opt, system) ==
  LET name == TranslateOption(platform, family, opt)
  IN  IF name = Unsupported THEN Failed ELSE FromSystem(platform, opt, system[name])

-----------------------------------------------------------------------------
(* What the calls of a socket promise.                                    *)

(* What could not be sent at once is asked for DE_WRITE, and only that; a  *)
(* receiver that may go on is asked for DE_READ, and is never shown the    *)
(* end of a stream by Recv; both ways to read give the same source and     *)
(* time where the system has both.                                         *)
TransfersAgree(platform, cb, answer) ==
  /\ LET sent == SendTo(platform, cb, answer)
     IN  sent.enables = {"write"} <=>
           (answer.n \in 1 .. cb - 1 \/ answer.e \in Blocking \/ (answer.e = "ENOBUFS" /\ platform = "Mac"))
  /\ \A udp \in BOOLEAN :
       LET got == Recv(udp, cb, answer)
       IN  /\ got.returns \in {Failed} \cup 1 .. cb \cup (IF cb = 0 THEN {0} ELSE {})
           /\ (got.error \in Blocking \/ udp) => got.enables = {"read"}
           /\ answer.n # 0 => got = RecvFrom(udp, answer)
  /\ \A wants \in [addr : BOOLEAN, timestamp : BOOLEAN] :
       (answer.n > 0 /\ platform # "Mac") =>
         DoReadFromSocket(platform, TRUE, wants, 7, answer) = DoReadFromSocket(platform, FALSE, wants, 7, answer)

(* A socket is never bound to an address of its own after a network was    *)
(* chosen for it, nor left on the default network when that failed, unless *)
(* it is to use loopback.                                                  *)
BindAgrees(addr) ==
  \A binder \in Bindings :
    /\ binder = "SUCCESS" => Bind(binder, addr) = "any"
    /\ Bind(binder, addr) = "no call" <=>
         (addr = "other" /\ binder \notin {"none", "SUCCESS", "NOT_IMPLEMENTED"})

(* An option that can be set reads back as it was set, and setting another *)
(* leaves it, but that the code point of IPv6 is that of IPv4 as well.     *)
System(value) == [n \in {<<"IP", "DONTFRAGMENT">>, <<"IP", "MTU_DISCOVER">>, <<"IP", "TOS">>,
                         <<"IPV6", "TCLASS">>, <<"SOCKET", "RCVBUF">>, <<"SOCKET", "SNDBUF">>,
                         <<"TCP", "NODELAY">>} |-> value]
OptionsAgree(platform, family, opt, value) ==
  LET after == SetOption(platform, family, opt, value, System(0))
  IN  \/ TranslateOption(platform, family, opt) = Unsupported /\ after = System(0)
      \/ /\ GetOption(platform, family, opt, after) = value
         /\ \A other \in Options \ {opt} :
              GetOption(platform, family, other, after) = GetOption(platform, family, other, System(0))
         /\ opt = "DSCP" => after[<<"IP", "TOS">>] = 4 * value
==================================================================================
