------------------------------- MODULE Messages -------------------------------
(***************************************************************************)
(* How what is streamed into RTC_LOG and RTC_CHECK gets into the message   *)
(* (rtc_base/logging.h and .cc, rtc_base/checks.h and .cc): each value is  *)
(* given a kind and a C type, the values become variable arguments, and the*)
(* other side reads them back by a list of kinds.                          *)
(*                                                                         *)
(* A value is [type, value]; a text is the sequence of what it is made of, *)
(* the printing of a value being the value itself.  Which messages are     *)
(* logged, and to which sinks, is in Logging.                              *)
(***************************************************************************)
EXTENDS Integers, Sequences, SequencesExt

CONSTANTS LineBits,          \* bits of line_and_sev_
          kMaxLogLineSize,
          WordBits, IntBits  \* widths of unsigned long long and int

Null == "null"

-----------------------------------------------------------------------------
(* MakeVal: what overload resolution makes of a type. *)

AsInt == {"int", "bool", "enum of int"}
AsText == {"ToLogString", "std::string"}
OfClass == {"class"}              \* printed by its operator<<; only in RTC_LOG
CheckTypes == AsInt \cup AsText \cup
  {"long", "long long", "unsigned", "unsigned long", "unsigned long long", "enum of unsigned", "float",
   "double", "long double", "const char*", "string_view", "const void*", "scoped_refptr"}
LogTypes == (CheckTypes \ {"scoped_refptr"}) \cup OfClass

(* The kind, and the C type of what GetVal passes.                         *)
KindOf(type) ==
  CASE type \in AsInt -> <<"kInt", "int">>
    [] type = "long" -> <<"kLong", "long">>
    [] type = "long long" -> <<"kLongLong", "long long">>
    [] type \in {"unsigned", "enum of unsigned"} -> <<"kUInt", "unsigned">>
    [] type = "unsigned long" -> <<"kULong", "unsigned long">>
    [] type = "unsigned long long" -> <<"kULongLong", "unsigned long long">>
    [] type \in {"float", "double"} -> <<"kDouble", "double">>
    [] type = "long double" -> <<"kLongDouble", "long double">>
    [] type = "const char*" -> <<"kCharP", "const char*">>
    [] type \in AsText \cup OfClass -> <<"kStdString", "const std::string*">>
    [] type = "string_view" -> <<"kStringView", "const string_view*">>
    [] type \in {"const void*", "scoped_refptr"} -> <<"kVoidP", "const void*">>
    [] type = "LogMetadata" -> <<"kLogMetadata", type>>
    [] type = "LogMetadataErr" -> <<"kLogMetadataErr", type>>
    [] type = "LogMetadataTag" -> <<"kLogMetadataTag", type>>

MakeVal(x) == [kind |-> KindOf(x.type)[1], stored |-> KindOf(x.type)[2], value |-> x.value]

(* The C type that is read for a kind.                                     *)
ReadAs(kind) ==
  CASE kind = "kInt" -> "int" [] kind = "kLong" -> "long" [] kind = "kLongLong" -> "long long"
    [] kind = "kUInt" -> "unsigned" [] kind = "kULong" -> "unsigned long"
    [] kind = "kULongLong" -> "unsigned long long"
    [] kind = "kDouble" -> "double" [] kind = "kLongDouble" -> "long double"
    [] kind = "kCharP" -> "const char*" [] kind = "kStdString" -> "const std::string*"
    [] kind = "kStringView" -> "const string_view*" [] kind = "kVoidP" -> "const void*"

-----------------------------------------------------------------------------
(* LogStreamer: each operator<< makes a node that points to the one before *)
(* it; Call walks back from the last and puts each value before the rest.  *)

Stream(node, x) == <<MakeVal(x)>> \o node
Streamer(xs) == FoldLeft(Stream, << >>, xs)

Call(node) == FoldLeft(LAMBDA args, val : <<val>> \o args, << >>, node)

KindsOf(args) == [k \in DOMAIN args |-> args[k].kind] \o <<"kEnd">>

(* Reading one argument of a kind: undefined if it was stored as another   *)
(* type.                                                                   *)
va_arg(kind, arg) == IF ReadAs(kind) = arg.stored THEN arg.value ELSE "undefined"

-----------------------------------------------------------------------------
(* RTC_LOG *)

(* The line and the severity share a word.                                 *)
LogMetadata(file, line, severity) == [file |-> file, line_and_sev_ |-> ((8 * line) % 2 ^ LineBits) + severity]
LineOf(meta) == meta.line_and_sev_ \div 8
SeverityOf(meta) == meta.line_and_sev_ % 8

Separators == {"/", "\\"}
FilenameFromPath(path) ==
  LET last == {k \in DOMAIN path : path[k] \in Separators}
  IN  SubSeq(path, 1 + (IF last = {} THEN 0 ELSE CHOOSE k \in last : \A i \in last : i <= k), Len(path))

(* Log, LogMessage and FinishPrintStream.  `meta' is the first argument; no *)
(* file is an empty path.                                                  *)
Log(fmt, args) ==
  LET first == args[1].value
      meta == first.meta
      extra == IF fmt[1] = "kLogMetadataErr" /\ first.err_ctx # "ERRCTX_NONE" THEN <<" : ", first.err>> ELSE << >>
      Text(kind, arg) == IF kind = "kCharP" /\ arg.value = Null THEN "(null)" ELSE va_arg(kind, arg)
  IN  [severity |-> SeverityOf(meta),
       filename |-> FilenameFromPath(meta.file),
       line |-> IF meta.file = << >> THEN 0 ELSE LineOf(meta),
       tag |-> IF fmt[1] = "kLogMetadataTag" THEN first.tag ELSE "default",
       message |-> [k \in 1 .. Len(fmt) - 2 |-> Text(fmt[k + 1], args[k + 1])] \o extra \o <<"end of line">>]

(* What a sink that does not look at the parts is given.                   *)
DefaultLogLine(line, timestamp, thread_id) ==
  (IF timestamp = Null THEN << >> ELSE <<timestamp>>) \o (IF thread_id = Null THEN << >> ELSE <<thread_id>>)
  \o (IF line.filename = << >> THEN << >> ELSE <<line.filename, line.line>>) \o line.message

(* Android writes a long message in pieces.                                *)
max_lines(size) == size \div kMaxLogLineSize + 1
Pieces(size) ==
  IF max_lines(size) = 1 THEN <<[from |-> 0, size |-> size]>>
  ELSE LET count == size \div kMaxLogLineSize + (IF size % kMaxLogLineSize = 0 THEN 0 ELSE 1)
       IN  [k \in 1 .. count |->
              [from |-> (k - 1) * kMaxLogLineSize,
               size |-> IF k * kMaxLogLineSize <= size THEN kMaxLogLineSize ELSE size % kMaxLogLineSize]]

-----------------------------------------------------------------------------
(* RTC_CHECK *)

(* ParseArg, until the end of the list or a kind it does not know.         *)
ParseArgs(fmt, args) == [k \in 1 .. Len(fmt) - 1 |-> va_arg(fmt[k], args[k])]

(* RTC_CHECK_OP streams its two values first.                              *)
FatalLog(message, fmt, args) ==
  IF fmt[1] = "kCheckOp"
  THEN LET parsed == ParseArgs(Tail(fmt), args)
       IN  <<message, "(", parsed[1], "vs.", parsed[2], ")">> \o SubSeq(parsed, 3, Len(parsed))
  ELSE <<message, "#">> \o ParseArgs(fmt, args)

CallCheckOp(message, xs) == LET args == Call(Streamer(xs)) IN FatalLog(message, <<"kCheckOp">> \o KindsOf(args), args)
CallCheck(message, xs) == LET args == Call(Streamer(xs)) IN FatalLog(message, KindsOf(args), args)
rtc_FatalMessage(message) == FatalLog(message, <<"kEnd">>, << >>)

(* What the macros do: nothing, or what they say before they abort.  The   *)
(* values of an RTC_DCHECK are not even streamed in builds without it.     *)
RTC_CHECK(messages, holds, message, xs) ==
  IF holds THEN << >> ELSE IF messages THEN CallCheck(message, xs) ELSE <<"Check failed.">>
RTC_CHECK_OP(messages, holds, message, v1, v2, xs) ==
  IF holds THEN << >> ELSE IF messages THEN CallCheckOp(message, <<v1, v2>> \o xs) ELSE <<"Check failed.">>
RTC_DCHECK(on, messages, holds, message, xs) == IF on THEN RTC_CHECK(messages, holds, message, xs) ELSE << >>

-----------------------------------------------------------------------------
(* Properties *)

ValuesOf(xs) == [k \in DOMAIN xs |-> xs[k].value]
Shown(xs) == [k \in DOMAIN xs |-> IF xs[k].type = "const char*" /\ xs[k].value = Null THEN "(null)" ELSE xs[k].value]

(* A statement logs its values in the order they were streamed, whatever   *)
(* their types, with the file, line and severity it was given, as long as  *)
(* the line leaves room for the severity; the file without its directories.*)
LogsWhatIsStreamed(path, line, severity, err_ctx, xs) ==
  LET meta == LogMetadata(path, line, severity)
      first == IF err_ctx = "ERRCTX_NONE"
               THEN [type |-> "LogMetadata", value |-> [meta |-> meta]]
               ELSE [type |-> "LogMetadataErr", value |-> [meta |-> meta, err_ctx |-> err_ctx, err |-> "error"]]
      args == Call(Streamer(<<first>> \o xs))
      line_ == Log(KindsOf(args), args)
  IN  /\ line < 2 ^ (LineBits - 3) => line_.line = (IF path = << >> THEN 0 ELSE line)
      /\ line_.severity = severity
      /\ line_.message = Shown(xs) \o (IF err_ctx = "ERRCTX_NONE" THEN << >> ELSE <<" : ", "error">>) \o <<"end of line">>
      /\ Range(line_.filename) \cap Separators = {} /\ IsSuffix(line_.filename, path)
      /\ IsSuffix(line_.message, DefaultLogLine(line_, Null, "thread"))

(* A failed check says its condition, its operands in their order and then *)
(* what was streamed; one that holds says nothing, nor does an RTC_DCHECK  *)
(* of a build without them.                                                *)
FailsWithWhatIsStreamed(v1, v2, xs) ==
  /\ RTC_CHECK_OP(TRUE, FALSE, "c", v1, v2, xs) =
       <<"c", "(", v1.value, "vs.", v2.value, ")">> \o ValuesOf(xs)
  /\ RTC_CHECK(TRUE, FALSE, "c", xs) = rtc_FatalMessage("c") \o ValuesOf(xs)
  /\ \A messages, holds \in BOOLEAN :
       /\ RTC_DCHECK(FALSE, messages, holds, "c", xs) = << >>
       /\ (RTC_CHECK(messages, holds, "c", xs) = << >>) = holds
       /\ (RTC_CHECK_OP(messages, holds, "c", v1, v2, xs) = << >>) = holds

(* The pieces of a message on Android are the message, none is too long,   *)
(* and no more of them come than the first announced.                      *)
PiecesAgree(size) ==
  LET pieces == Pieces(size)
  IN  /\ Len(pieces) <= max_lines(size)
      /\ \A k \in DOMAIN pieces :
           /\ pieces[k].size <= kMaxLogLineSize
           /\ pieces[k].from = IF k = 1 THEN 0 ELSE pieces[k - 1].from + pieces[k - 1].size
      /\ Last(pieces).from + Last(pieces).size = size

-----------------------------------------------------------------------------
(* What the trace macros (rtc_base/trace_event.h) hand to the tracer, and  *)
(* what the internal tracer (event_tracer.cc) writes of their arguments.   *)
(* When an event is recorded at all is in TraceScopes and EventTracer.     *)
(*                                                                         *)
(* An unsigned long long has WordBits bits and an int IntBits.  A text is a*)
(* sequence of characters of which a quote and a backslash are told apart. *)

Word(n) == n % 2 ^ WordBits
Signed(bits, n) == LET w == n % 2 ^ bits IN IF w >= 2 ^ (bits - 1) THEN w - 2 ^ bits ELSE w

quote == "quote"
backslash == "backslash"

-----------------------------------------------------------------------------
(* Arguments: of a C++ type, with a value; that of a string is the text it *)
(* points to.                                                              *)

UnsignedTypes == {"unsigned long long", "unsigned int"}
SignedTypes == {"long long", "int"}
Integral == UnsignedTypes \cup SignedTypes
Texts == {"const char*", "TraceStringWithCopy", "std::string"}

ValueTypeOf(type) ==
  CASE type \in UnsignedTypes -> "UINT"
    [] type \in SignedTypes -> "INT"
    [] type = "bool" -> "BOOL"
    [] type = "double" -> "DOUBLE"
    [] type = "const void*" -> "POINTER"
    [] type = "const char*" -> "STRING"
    [] type \in {"TraceStringWithCopy", "std::string"} -> "COPY_STRING"

SetTraceValue(arg) ==
  [type |-> ValueTypeOf(arg.type), value |-> IF arg.type \in Integral THEN Word(arg.value) ELSE arg.value]

(* What the logger finds when it writes: of a text that was not copied,    *)
(* what is there later.                                                    *)
Kept(arg, later) == IF arg.type = "STRING" THEN [arg EXCEPT !.value = later] ELSE arg

Escaped(text) ==
  FoldLeft(LAMBDA out, c : out \o (IF c \in {quote, backslash} THEN <<backslash>> ELSE << >>) \o <<c>>, << >>, text)

(* Texts of at least one character: with an empty one the loop of the code *)
(* reads past its end.                                                     *)
TraceArgValueAsString(arg) ==
  CASE arg.type \in {"STRING", "COPY_STRING"} -> <<quote>> \o Escaped(arg.value) \o <<quote>>
    [] arg.type = "BOOL" -> IF arg.value THEN "true" ELSE "false"
    [] arg.type = "UINT" -> arg.value
    [] arg.type = "INT" -> Signed(WordBits, arg.value)
    [] OTHER -> arg.value

-----------------------------------------------------------------------------
(* Events *)

kNoEventId == 0

TraceID(id) ==
  [data |-> Word(id.value), flags |-> IF id.type \in {"const void*", "ForceMangle"} THEN {"MANGLE_ID"} ELSE {}]

(* Flags are {} or {"COPY"} in the macros.                                 *)
Event(phase, flags, args) == [phase |-> phase, id |-> kNoEventId, flags |-> flags, args |-> args]
EventWithId(phase, id, flags, args) ==
  [phase |-> phase, id |-> TraceID(id).data, flags |-> flags \cup {"HAS_ID"} \cup TraceID(id).flags, args |-> args]

(* TRACE_EVENT0 to TRACE_EVENT2, whose end has no arguments.               *)
Scope(args) == <<Event("B", {}, args), Event("E", {}, << >>)>>

TRACE_EVENT_INSTANT(copy, args) == Event("I", copy, args)
TRACE_EVENT_BEGIN(copy, args) == Event("B", copy, args)
TRACE_EVENT_END(copy, args) == Event("E", copy, args)

ToInt(value) == [type |-> "int", value |-> Signed(IntBits, value.value)]
TRACE_COUNTER(copy, values) == Event("C", copy, [k \in DOMAIN values |-> ToInt(values[k])])
TRACE_COUNTER_ID(copy, id, values) == EventWithId("C", id, copy, [k \in DOMAIN values |-> ToInt(values[k])])

TRACE_EVENT_ASYNC_BEGIN(copy, id, args) == EventWithId("S", id, copy, args)
TRACE_EVENT_ASYNC_STEP(copy, id, step, args) == EventWithId("T", id, copy, <<step>> \o args)
TRACE_EVENT_ASYNC_END(copy, id, args) == EventWithId("F", id, copy, args)

TRACE_EVENT_FLOW_BEGIN(copy, id, args) == EventWithId("s", id, copy, args)
TRACE_EVENT_FLOW_STEP(copy, id, step, args) == EventWithId("t", id, copy, <<step>> \o args)
TRACE_EVENT_FLOW_END(copy, id, args) == EventWithId("f", id, copy, args)

(* Is a category of this name traced by the internal tracer?               *)
disabled_by_default == <<"disabled", "-">>
TRACE_DISABLED_BY_DEFAULT(name) == disabled_by_default \o name
InternalGetCategoryEnabled(name) == name # << >> /\ ~IsPrefix(disabled_by_default, name)

-----------------------------------------------------------------------------
(* Properties *)

Unescaped(text) ==
  FoldLeft(LAMBDA s, c : IF c = backslash /\ ~s.escape THEN [s EXCEPT !.escape = TRUE]
                         ELSE [out |-> Append(s.out, c), escape |-> FALSE],
           [out |-> << >>, escape |-> FALSE], text).out
Unquoted(text) == SubSeq(text, 2, Len(text) - 1)

(* Every argument is written as it was when the event was added, whatever  *)
(* becomes of it later; of a plain const char*, that it must outlive the   *)
(* event is the macro's condition.                                         *)
ArgumentAgrees(arg, later) ==
  LET text == TraceArgValueAsString(Kept(SetTraceValue(arg), later))
  IN  /\ arg.type \in Texts =>
           /\ Unescaped(Unquoted(text)) = (IF arg.type = "const char*" THEN later ELSE arg.value)
           /\ \A k \in 2 .. Len(text) - 1 : text[k] = quote => text[k - 1] = backslash
      /\ arg.type \in Integral => text = arg.value

(* The events of one asynchronous operation or flow carry the same id, so  *)
(* that they can be joined, different integers never share one unless they *)
(* differ in sign, no event has more than two arguments, and a counter is  *)
(* right as long as it fits an int.                                        *)
EventsOf(copy, id, step, value) ==
  << <<TRACE_EVENT_ASYNC_BEGIN(copy, id, <<value>>), TRACE_EVENT_ASYNC_STEP(copy, id, step, << >>),
       TRACE_EVENT_ASYNC_STEP({}, id, step, <<value>>), TRACE_EVENT_ASYNC_END({}, id, <<value, value>>)>>,
     <<TRACE_EVENT_FLOW_BEGIN(copy, id, << >>), TRACE_EVENT_FLOW_STEP({}, id, step, <<value>>),
       TRACE_EVENT_FLOW_END(copy, id, <<value, value>>)>>,
     <<TRACE_COUNTER_ID(copy, id, <<value>>), TRACE_COUNTER_ID({}, id, <<value, value>>)>>,
     Scope(<<value, value>>),
     <<TRACE_EVENT_BEGIN(copy, <<value>>), TRACE_EVENT_END({}, <<value, value>>)>>,
     <<TRACE_EVENT_INSTANT(copy, <<value>>), TRACE_COUNTER(copy, <<value>>)>> >>

MacrosAgree(copy, id, other, step, value) ==
  LET events == EventsOf(copy, id, step, value)
      Fits(v) == Signed(IntBits, v) = v
  IN  /\ \A k \in DOMAIN events : \A e, f \in Range(events[k]) :
           /\ e.id = f.id /\ e.flags \ {"COPY"} = f.flags \ {"COPY"} /\ Len(e.args) <= 2
           /\ ("HAS_ID" \in e.flags <=> k \in 1 .. 3)
           /\ e.phase = "C" /\ value.type \in Integral /\ Fits(value.value) =>
                \A a \in Range(e.args) : SetTraceValue(a).value = Word(value.value)
      /\ TraceID(id).data = TraceID(other).data =>
           (id.value = other.value \/ (id.value < 0) # (other.value < 0))
      /\ ("MANGLE_ID" \in TraceID(id).flags) = (id.type \notin Integral)

(* A category is traced unless it is nameless or was marked as disabled.   *)
CategoriesAgree(name) ==
  InternalGetCategoryEnabled(name) <=>
    name # << >> /\ \A k \in 0 .. Len(name) : name # TRACE_DISABLED_BY_DEFAULT(SubSeq(name, k + 1, Len(name)))
===============================================================================
