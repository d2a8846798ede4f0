---------------------------------- MODULE Strings ----------------------------------
(***************************************************************************)
(* Texts, numbers in them and JSON values (rtc_base/string_encode,         *)
(* string_to_number, string_builder, string_utils and strings/json).  A    *)
(* text is a sequence of characters: 0 to 15 are digits with that value,   *)
(* the others are named.                                                   *)
(***************************************************************************)
EXTENDS Integers, Sequences, FiniteSets, SequencesExt

CONSTANTS IntBits,    \* width of int
          LongBits,   \* of long: the same on Windows, the next elsewhere
          LargeBits,  \* of long long
          Part        \* bits of a quarter of a byte

minus == 20
plus == 21
space == 22
x == 23
nul == 24
separator == 25
Characters == 0 .. 15 \cup 20 .. 25

From(s, i) == SubSeq(s, i, Len(s))
Prefix(s, n) == SubSeq(s, 1, IF n < Len(s) THEN n ELSE Len(s))
IsDigit(c) == c \in 0 .. 9

-----------------------------------------------------------------------------
(* string_encode *)

AddField(r, c, keep_empty) ==
  IF c # separator THEN [r EXCEPT !.field = Append(@, c)]
  ELSE [fields |-> IF keep_empty \/ r.field # << >> THEN Append(r.fields, r.field) ELSE r.fields, field |-> << >>]

Fields(source, keep_empty) ==
  FoldLeft(LAMBDA r, c : AddField(r, c, keep_empty), [fields |-> << >>, field |-> << >>],
           Append(source, separator)).fields

tokenize(source) == Fields(source, FALSE)
split(source) == Fields(source, TRUE)

FirstAt(s, c) == CHOOSE i \in 1 .. Len(s) + 1 : (i <= Len(s) => s[i] = c) /\ \A j \in 1 .. i - 1 : s[j] # c

tokenize_first(source) ==
  LET left_pos == FirstAt(source, separator)
      right_pos == CHOOSE i \in left_pos .. Len(source) + 1 :
                     /\ i <= Len(source) => source[i] # separator
                     /\ \A j \in left_pos .. i - 1 : source[j] = separator
  IN  IF left_pos > Len(source) THEN << >> ELSE <<Prefix(source, left_pos - 1), From(source, right_pos)>>

(* Fields joined again are the source; a first token is followed by at     *)
(* least one delimiter and by all of them.                                 *)
FieldsAgree(source) ==
  LET joined == FlattenSeq([i \in DOMAIN split(source) |-> split(source)[i] \o <<separator>>])
      first == tokenize_first(source)
  IN  /\ joined = Append(source, separator)
      /\ tokenize(source) = SelectSeq(split(source), LAMBDA f : f # << >>)
      /\ \A f \in ToSet(split(source)) : separator \notin ToSet(f)
      /\ (first = << >>) <=> separator \notin ToSet(source)
      /\ first # << >> =>
           /\ \E n \in 1 .. Len(source) : source = first[1] \o [i \in 1 .. n |-> separator] \o first[2]
           /\ separator \notin ToSet(first[1]) /\ (first[2] # << >> => first[2][1] # separator)
           /\ tokenize(source) = tokenize(first[1]) \o tokenize(first[2])

-----------------------------------------------------------------------------
(* strtoll and strtoull of the C library: the value, where they stop and   *)
(* whether errno is set.  A base of 0 is found from the prefix.            *)

Magnitude(digits, base) == FoldLeft(LAMBDA v, c : v * base + c, 0, digits)
LeadingWhile(s, Test(_)) == CHOOSE n \in 0 .. Len(s) :
                              (\A i \in 1 .. n : Test(s[i])) /\ (n < Len(s) => ~Test(s[n + 1]))

(* The digits from start on, then what is before them.                     *)
Scanned(s, negative, radix, start) ==
  LET n == LeadingWhile(From(s, start + 1), LAMBDA c : c < radix)
  IN  [end |-> IF n = 0 THEN 0 ELSE start + n, negative |-> negative,
       value |-> Magnitude(SubSeq(s, start + 1, start + n), radix)]

ScanAt(s, base, at, negative) ==
  LET hex == Len(s) >= at + 3 /\ s[at + 1] = 0 /\ s[at + 2] = x /\ s[at + 3] \in 0 .. 15 /\ base \in {0, 16}
  IN  Scanned(s, negative,
              IF base # 0 THEN base ELSE IF hex THEN 16 ELSE IF Len(s) > at /\ s[at + 1] = 0 THEN 8 ELSE 10,
              at + IF hex THEN 2 ELSE 0)

ScanBehind(spaces, s, base) ==
  IF spaces < Len(s) /\ s[spaces + 1] \in {minus, plus}
    THEN ScanAt(s, base, spaces + 1, s[spaces + 1] = minus) ELSE ScanAt(s, base, spaces, FALSE)
Scan(s, base) == ScanBehind(LeadingWhile(s, LAMBDA c : c = space), s, base)

Bounded(r, low, high) ==
  LET v == IF r.negative THEN -r.value ELSE r.value
  IN  [end |-> r.end, value |-> IF v < low THEN low ELSE IF v > high THEN high ELSE v,
       error |-> v < low \/ v > high]
Wrapped(r, bits) == [r EXCEPT !.value = IF r.error THEN 2^bits - 1 ELSE @ % 2^bits]

strtoll(s, bits, base) == Bounded(Scan(s, base), -(2^(bits - 1)), 2^(bits - 1) - 1)
strtoull(s, bits, base) == Wrapped(Bounded(Scan(s, base), -(2^bits - 1), 2^bits - 1), bits)

(* string_to_number: none or one value.                                    *)
Begins(s) == s # << >> /\ (IsDigit(s[1]) \/ s[1] = minus)
Whole(s, r) == r.end = Len(s) /\ ~r.error

ParseSigned(s, base) ==
  LET r == strtoll(s, LargeBits, base) IN IF Begins(s) /\ Whole(s, r) THEN {r.value} ELSE {}

(* Mutant: a text that begins with a minus is not told apart. *)
ParseUnsigned_Wraps(s, base) ==
  LET r == strtoull(s, LargeBits, base) IN IF Begins(s) /\ Whole(s, r) THEN {r.value} ELSE {}

ParseUnsigned(s, base) ==
  LET r == strtoull(s, LargeBits, base)
  IN  IF Begins(s) /\ Whole(s, r) /\ (r.value = 0 \/ s[1] # minus) THEN {r.value} ELSE {}

LowestOf(signed, bits) == IF signed THEN -(2^(bits - 1)) ELSE 0
HighestOf(signed, bits) == IF signed THEN 2^(bits - 1) - 1 ELSE 2^bits - 1

StringToNumber(signed, bits, s, base) ==
  {v \in IF signed THEN ParseSigned(s, base) ELSE ParseUnsigned(s, base) :
     LowestOf(signed, bits) <= v /\ v <= HighestOf(signed, bits)}

(* ToString of an integer.                                                 *)
Digits[n \in Nat] == IF n < 10 THEN <<n>> ELSE Append(Digits[n \div 10], n % 10)
TextOf(v) == IF v < 0 THEN <<minus>> \o Digits[-v] ELSE Digits[v]

(* The number a text of digits in a base, with a sign or without, is.      *)
Denoted(s, base) ==
  LET digits == IF s # << >> /\ s[1] = minus THEN Tail(s) ELSE s
      bare == IF base = 16 /\ Len(digits) > 2 /\ digits[1] = 0 /\ digits[2] = x THEN From(digits, 3) ELSE digits
  IN  IF bare # << >> /\ \A i \in DOMAIN bare : bare[i] < base
        THEN {IF digits = s THEN Magnitude(bare, base) ELSE -Magnitude(bare, base)} ELSE {}

(* A text is a number of the type exactly if it denotes one the type holds,*)
(* and begins with a digit or a minus; what was written is read back.      *)
ParsingAgrees(s) ==
  \A signed \in BOOLEAN, bits \in {IntBits, LongBits, LargeBits} :
    /\ \A base \in {2, 10, 16} :
         StringToNumber(signed, bits, s, base) =
           IF Begins(s) THEN Denoted(s, base) \cap LowestOf(signed, bits) .. HighestOf(signed, bits) ELSE {}
    /\ \A v \in StringToNumber(signed, bits, s, 10) : StringToNumber(signed, bits, TextOf(v), 10) = {v}

-----------------------------------------------------------------------------
(* string_builder and strcpyn: a buffer of a size, with a nul behind the   *)
(* text.  AppendFormat writes as much as vsnprintf has room for.           *)

NewBuilder(size) == [size |-> size, text |-> << >>]
AppendText(b, s) == [b EXCEPT !.text = @ \o Prefix(s, b.size - Len(@) - 1)]
AppendFormat(b, s) == AppendText(b, s)
strcpyn(size, s) == IF size = 0 THEN << >> ELSE Prefix(s, size - 1)

(* However it is put together, what is built is the start of the whole,    *)
(* cut off only where the buffer ends, and the same as copied at once.     *)
BuildersAgree(size, s, t) ==
  LET b == AppendFormat(AppendText(NewBuilder(size), s), t)
  IN  b.text = Prefix(s \o t, size - 1) /\ Len(b.text) < size /\ strcpyn(size, s \o t) = b.text

-----------------------------------------------------------------------------
(* JSON values [type, value].  Of a number the value is twice the number,  *)
(* odd only for a real; what a value of jsoncpp can be converted to is its *)
(* own.                                                                    *)

Half(n) == IF n >= 0 THEN n \div 2 ELSE -((-n) \div 2)
Integral(v) == v.type \in {"int", "uint"} \/ (v.type = "real" /\ v.value % 2 = 0)
HasInt(v, signed) == v.value >= 2 * LowestOf(signed, IntBits) /\ v.value <= 2 * HighestOf(signed, IntBits)
IsNumeric(v) == v.type \in {"int", "uint", "real"}
isInt(v, signed) == IsNumeric(v) /\ Integral(v) /\ HasInt(v, signed)
IsConvertibleTo(v, signed) == v.type \in {"bool", "null"} \/ (IsNumeric(v) /\ HasInt(v, signed))
AsNumber(v) == CASE v.type = "null" -> 0 [] v.type = "bool" -> (IF v.value THEN 2 ELSE 0) [] OTHER -> v.value

(* A getter gives <<whether it succeeds, what it writes to *out>>; nothing *)
(* is << >>.  A text that is no number is written as what was scanned.  It *)
(* is a C string: it ends at its first NUL, whatever the length of the     *)
(* value.                                                                  *)
Converted(v, signed) ==
  IF IsConvertibleTo(v, signed) THEN <<TRUE, <<Half(AsNumber(v))>>>> ELSE <<FALSE, << >>>>
Kept(n, signed) == LET low == LowestOf(signed, IntBits) IN low + ((n - low) % 2^IntBits)
asCString(s) == Prefix(s, LeadingWhile(s, LAMBDA c : c # nul))
Taken(s, r, signed) ==
  <<r.end # 0 /\ Whole(asCString(s), r) /\ r.value \in LowestOf(signed, IntBits) .. HighestOf(signed, IntBits),
    <<Kept(r.value, signed)>>>>

GetIntFromJson(v) ==
  IF v.type # "string" THEN Converted(v, TRUE) ELSE Taken(v.value, strtoll(v.value, LongBits, 10), TRUE)

GetUIntFromJson(v) ==
  IF v.type # "string" THEN Converted(v, FALSE) ELSE Taken(v.value, strtoull(v.value, LongBits, 10), FALSE)

(* The texts of a bool are written as the characters x and nul.            *)
BoolText(b) == IF b THEN <<x>> ELSE <<nul>>
GetBoolFromJson(v) ==
  CASE v.type = "string" -> IF v.value \in {BoolText(TRUE), BoolText(FALSE)}
                              THEN <<TRUE, <<v.value = BoolText(TRUE)>>>> ELSE <<FALSE, << >>>>
    [] v.type = "bool" -> <<TRUE, <<v.value>>>>
    [] IsNumeric(v) -> <<TRUE, <<v.value # 0>>>>
    [] v.type = "null" -> <<TRUE, <<FALSE>>>>
    [] OTHER -> <<FALSE, << >>>>

GetStringFromJson(v) ==
  CASE v.type = "string" -> <<TRUE, <<v.value>>>>
    [] v.type = "bool" -> <<TRUE, <<BoolText(v.value)>>>>
    [] isInt(v, TRUE) \/ isInt(v, FALSE) -> <<TRUE, <<TextOf(Half(v.value))>>>>
    [] v.type = "real" -> <<TRUE, <<Append(TextOf(Half(v.value)), x)>>>>
    [] OTHER -> <<FALSE, << >>>>

Getters == {"int", "uint", "bool", "string"}
Get(getter, v) ==
  CASE getter = "int" -> GetIntFromJson(v) [] getter = "uint" -> GetUIntFromJson(v)
    [] getter = "bool" -> GetBoolFromJson(v) [] getter = "string" -> GetStringFromJson(v)

Array(vs) == [type |-> "array", value |-> vs]
VectorToJsonArray(getter, vec) ==
  Array([i \in DOMAIN vec |-> [type |-> getter, value |-> IF getter \in {"int", "uint"} THEN 2 * vec[i] ELSE vec[i]]])

(* The vector is cleared first, and holds what came before the failure.    *)
JsonArrayToVector(getter, v) ==
  IF v.type # "array" THEN <<FALSE, << >>>>
  ELSE LET n == LeadingWhile(v.value, LAMBDA e : Get(getter, e)[1])
       IN  <<n = Len(v.value), [i \in 1 .. n |-> Get(getter, v.value[i])[2][1]]>>

GetFromJsonArray(getter, v, n) ==
  IF v.type # "array" \/ n \notin 0 .. Len(v.value) - 1 THEN <<FALSE, << >>>> ELSE Get(getter, v.value[n + 1])

Object(members) == [type |-> "object", value |-> members]
GetFromJsonObject(getter, v, k) ==
  IF v.type # "object" \/ k \notin DOMAIN v.value THEN <<FALSE, << >>>> ELSE Get(getter, v.value[k])

(* The numbers a C string denotes with spaces or a plus in front.          *)
Written(s) ==
  LET text == From(s, 1 + LeadingWhile(s, LAMBDA c : c = space))
  IN  IF text = << >> \/ text[1] # plus THEN Denoted(text, 10)
      ELSE {n \in Denoted(Tail(text), 10) : text[2] # minus}

(* A getter takes a text exactly if what comes before its first NUL denotes*)
(* a number of the type, which for an unsigned one a negative number is    *)
(* modulo the width of long, and gives that number; of another value it    *)
(* gives the number, cut to an integer; text and value of an int are taken *)
(* alike; the elements of an array are those of its vector as far as that  *)
(* goes (json.cc).                                                         *)
JsonAgrees(v, w) ==
  /\ \A getter \in {"int", "uint"} :
       LET g == Get(getter, v)
           low == LowestOf(getter = "int", IntBits)
           high == HighestOf(getter = "int", IntBits)
       IN  /\ g[1] => g[2][1] \in low .. high
           /\ v.type = "string" =>
                {IF getter = "uint" /\ n < 0 THEN n + 2^LongBits ELSE n : n \in Written(asCString(v.value))}
                  \cap low .. high = IF g[1] THEN {g[2][1]} ELSE {}
           /\ isInt(v, getter = "int") => g = Get(getter, [type |-> "string", value |-> GetStringFromJson(v)[2][1]])
           /\ ~g[1] /\ v.type # "string" => g[2] = << >>
  /\ \A getter \in Getters :
       LET all == JsonArrayToVector(getter, Array(<<v, w>>))
       IN  /\ all[1] <=> Get(getter, v)[1] /\ Get(getter, w)[1]
           /\ \A n \in 0 .. Len(all[2]) - 1 : GetFromJsonArray(getter, Array(<<v, w>>), n) = <<TRUE, <<all[2][n + 1]>>>>
           /\ ~all[1] => ~GetFromJsonArray(getter, Array(<<v, w>>), Len(all[2]))[1]
           /\ GetFromJsonObject(getter, Object(<<v>>), 1) = Get(getter, v)
           /\ JsonArrayToVector(getter, VectorToJsonArray(getter, all[2])) = <<TRUE, all[2]>>

-----------------------------------------------------------------------------
(* Bytes as text and in memory: Base64, hexadecimal (string_encode) and    *)
(* byte_order.  A byte has four parts of `Part' bits, a Base64 character   *)
(* three and a hexadecimal digit two; a part of the code has 2 bits.       *)

P1 == 2^Part
P2 == P1 * P1
P3 == P1 * P2
P4 == P1 * P3        \* the number of bytes

-----------------------------------------------------------------------------
(* Base64.  A character is what DecodeTable gives: an index of the table,  *)
(* padding, a space or something illegal.                                  *)

pd == P3
sp == P3 + 1
il == P3 + 2

(* Three bytes, or those that are left, as four characters.                *)
EncodeQuantum(b) ==
  LET byte(i) == IF i <= Len(b) THEN b[i] ELSE 0
  IN  << byte(1) \div P1,
         (byte(1) % P1) * P2 + byte(2) \div P2,
         IF Len(b) < 2 THEN pd ELSE (byte(2) % P2) * P1 + byte(3) \div P3,
         IF Len(b) < 3 THEN pd ELSE byte(3) % P3 >>

Encode(data) ==
  FlattenSeq([q \in 1 .. (Len(data) + 2) \div 3 |->
                EncodeQuantum(SubSeq(data, 3 * q - 2, IF 3 * q <= Len(data) THEN 3 * q ELSE Len(data)))])

(* One character of a quantum: r.q are the characters taken, r.pads those  *)
(* of padding after them, r.start where padding began.                     *)
TakeChar(r, c, parse, illegal_pads) ==
  LET any == parse = "ANY"
      Skip == [r EXCEPT !.dpos = @ + 1]
      StopUnless(b) == IF b THEN Skip ELSE [r EXCEPT !.stop = TRUE]
  IN  CASE r.stop \/ Len(r.q) = 4 -> r
        [] c = il \/ (illegal_pads /\ c = pd) -> StopUnless(any)
        [] c = sp -> StopUnless(parse # "STRICT")
        [] c = pd /\ ~illegal_pads ->
             IF Len(r.q) < 2 \/ Len(r.q) + r.pads >= 4 THEN StopUnless(any)
             ELSE [Skip EXCEPT !.pads = @ + 1, !.start = IF r.pads = 0 THEN r.dpos ELSE @]
        [] c < pd ->
             IF r.pads > 0 /\ ~any THEN [r EXCEPT !.stop = TRUE]
             ELSE [Skip EXCEPT !.q = Append(@, c), !.pads = 0]

GetNextQuantum(parse, illegal_pads, data, dpos) ==
  LET r == FoldLeft(LAMBDA t, c : TakeChar(t, c, parse, illegal_pads),
                    [q |-> << >>, pads |-> 0, start |-> 0, dpos |-> dpos, stop |-> FALSE],
                    SubSeq(data, dpos + 1, Len(data)))
      padded == Len(r.q) + r.pads = 4
  IN  [q |-> r.q, padded |-> padded, dpos |-> IF ~padded /\ r.pads > 0 THEN r.start ELSE r.dpos]

(* The whole bytes of a quantum, and the bits that are left over.          *)
BytesOf(q) ==
  LET char(i) == IF i <= Len(q) THEN q[i] ELSE 0
      all == << char(1) * P1 + char(2) \div P2, (char(2) % P2) * P2 + char(3) \div P1,
                (char(3) % P1) * P3 + char(4) >>
  IN  IF Len(q) < 2 THEN << >> ELSE SubSeq(all, 1, Len(q) - 1)
Unused(q) ==
  CASE Len(q) = 0 -> 0 [] Len(q) = 1 -> q[1] [] Len(q) = 2 -> q[2] % P2
    [] Len(q) = 3 -> q[3] % P1 [] Len(q) = 4 -> 0

Ends(d, r, pad, term) ==
  [d EXCEPT !.bytes = @ \o BytesOf(r.q), !.dpos = r.dpos, !.done = Len(r.q) < 4,
            !.success = Len(r.q) = 4 \/ (~(term # "ANY" /\ Unused(r.q) # 0) /\ ~(pad = "YES" /\ ~r.padded))]

(* At most as many quanta as characters.                                   *)
Decode(data, parse, pad, term) ==
  LET d == FoldLeft(LAMBDA t, c : IF t.done \/ t.dpos >= Len(data) THEN t
                                  ELSE Ends(t, GetNextQuantum(parse, pad = "NO", data, t.dpos), pad, term),
                    [bytes |-> << >>, dpos |-> 0, success |-> TRUE, done |-> FALSE], data)
  IN  [bytes |-> d.bytes, used |-> d.dpos,
       success |-> d.success /\ ~(term = "BUFFER" /\ d.dpos # Len(data))]

Parses == {"STRICT", "WHITE", "ANY"}
Pads == {"YES", "ANY", "NO"}
Terms == {"BUFFER", "CHAR", "ANY"}

(* What was encoded is decoded, whatever the flags (padding where it is    *)
(* allowed), and the strictest flags accept nothing but an encoding.       *)
Base64Agrees(data) ==
  \A parse \in Parses, pad \in Pads, term \in Terms :
    (pad = "NO" => Len(data) % 3 = 0)
    => Decode(Encode(data), parse, pad, term) = [bytes |-> data, used |-> Len(Encode(data)), success |-> TRUE]

(* Any text: strict decoding succeeds only for the encoding of its result; *)
(* what was used is a text of its own with the same result; and spaces and *)
(* illegal characters change nothing where they are ignored.               *)
DecodingAgrees(s) ==
  \A parse \in Parses, pad \in Pads, term \in Terms :
    LET d == Decode(s, parse, pad, term)
        used == Decode(SubSeq(s, 1, d.used), parse, pad, term)
    IN  /\ parse = "STRICT" /\ pad = "YES" /\ term = "BUFFER" /\ d.success => s = Encode(d.bytes)
        /\ used.bytes = d.bytes
        /\ parse = "WHITE" => d.bytes = Decode(SelectSeq(s, LAMBDA c : c # sp), "STRICT", pad, term).bytes
        /\ parse = "ANY" => d.bytes = Decode(SelectSeq(s, LAMBDA c : c < pd), "STRICT", pad, term).bytes
        /\ term = "ANY" /\ pad # "YES" => d.success

-----------------------------------------------------------------------------
(* Hexadecimal.  A character is a digit, a capital letter (Capital + its   *)
(* value), the delimiter or another; None stands for no delimiter.         *)

Capital == 2 * P2
Delimiter == 4 * P2
Other == 4 * P2 + 1
None == 0

hex_decode_digit(c) == IF c < P2 THEN <<c>> ELSE IF c \in Capital .. Capital + P2 - 1 THEN <<c - Capital>> ELSE << >>

hex_encode_with_delimiter(source, delimiter) ==
  FlattenSeq([i \in DOMAIN source |->
                <<source[i] \div P2, source[i] % P2>>
                  \o (IF delimiter # None /\ i < Len(source) THEN <<delimiter>> ELSE << >>)])

hex_encode_output_length(n, delimiter) == IF delimiter # None /\ n > 0 THEN n * 3 - 1 ELSE n * 2

(* The bytes, and how much of the source is left; any error gives 0 bytes. *)
DecodeHexByte(r, delimiter) ==
  LET s == r.left
      h == IF Len(s) < 2 THEN << >> ELSE hex_decode_digit(s[1]) \o hex_decode_digit(s[2])
      separated == delimiter # None /\ Len(s) > 3
  IN  IF r.failed \/ s = << >> THEN r
      ELSE IF Len(h) < 2 \/ (separated /\ s[3] # delimiter) THEN [r EXCEPT !.failed = TRUE]
      ELSE [r EXCEPT !.bytes = Append(@, h[1] * P2 + h[2]),
                     !.left = SubSeq(s, IF separated THEN 4 ELSE 3, Len(s))]

hex_decode_with_delimiter(size, source, delimiter) ==
  LET needed == IF delimiter # None THEN (Len(source) + 1) \div 3 ELSE Len(source) \div 2
      r == FoldLeft(LAMBDA t, c : DecodeHexByte(t, delimiter),
                    [bytes |-> << >>, left |-> source, failed |-> FALSE], source)
  IN  IF size = 0 \/ size < needed \/ r.failed THEN << >> ELSE r.bytes

Lower(s) == [i \in DOMAIN s |-> IF s[i] \in Capital .. Capital + P2 - 1 THEN s[i] - Capital ELSE s[i]]

(* Bytes are the ones that were encoded, if the buffer has room for them,  *)
(* and only an encoding, in letters of any size, decodes to bytes.         *)
HexAgrees(data, s) ==
  \A delimiter \in {None, Delimiter} :
    LET text == hex_encode_with_delimiter(data, delimiter)
    IN  /\ Len(text) = hex_encode_output_length(Len(data), delimiter)
        /\ \A size \in 0 .. Len(data) + 1 :
             hex_decode_with_delimiter(size, text, delimiter) = IF size < Len(data) THEN << >> ELSE data
        /\ LET bytes == hex_decode_with_delimiter(Len(s), s, delimiter)
           IN  bytes # << >> => hex_encode_with_delimiter(bytes, delimiter) = Lower(s)

-----------------------------------------------------------------------------
(* byte_order: a number in memory, its bytes from the lowest address.      *)

BigEndian(n, v) == [i \in 1 .. n |-> (v \div P4^(n - i)) % P4]
LittleEndian(n, v) == [i \in 1 .. n |-> (v \div P4^(i - 1)) % P4]
Memory(host_is_big, n, v) == IF host_is_big THEN BigEndian(n, v) ELSE LittleEndian(n, v)
Value(host_is_big, m) ==
  FoldLeft(LAMBDA v, b : v * P4 + b, 0, IF host_is_big THEN m ELSE Reverse(m))

(* htobe, be16toh and their like: the bytes swapped unless the host has    *)
(* that order.                                                             *)
Swapped(n, v) == Value(TRUE, Reverse(BigEndian(n, v)))
htobe(host_is_big, n, v) == IF host_is_big THEN v ELSE Swapped(n, v)
htole(host_is_big, n, v) == IF host_is_big THEN Swapped(n, v) ELSE v

SetBE(host_is_big, n, v) == Memory(host_is_big, n, htobe(host_is_big, n, v))
SetLE(host_is_big, n, v) == Memory(host_is_big, n, htole(host_is_big, n, v))
GetBE(host_is_big, m) == htobe(host_is_big, Len(m), Value(host_is_big, m))
GetLE(host_is_big, m) == htole(host_is_big, Len(m), Value(host_is_big, m))

(* On any host the memory holds the bytes in the order asked for, and one  *)
(* host reads what the other wrote.                                        *)
ByteOrderAgrees(n, v) ==
  \A writer, reader \in BOOLEAN :
    /\ SetBE(writer, n, v) = BigEndian(n, v) /\ GetBE(reader, SetBE(writer, n, v)) = v
    /\ SetLE(writer, n, v) = LittleEndian(n, v) /\ GetLE(reader, SetLE(writer, n, v)) = v
==================================================================================
