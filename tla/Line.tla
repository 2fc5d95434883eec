-------------------------------- MODULE Line --------------------------------
(***************************************************************************)
(* The way of one logging call from its arguments to the text of a line,    *)
(* checked against reference definitions over bounded inputs.  The state is *)
(* the input under examination: each part of the machine grows inputs of    *)
(* its own kind, and each property compares what the code makes of the      *)
(* input with a definition that does not mention the code: a grammar given  *)
(* as a set, the values that were encoded, a calendar that counts days.     *)
(***************************************************************************)
EXTENDS Render, FiniteSets

CONSTANTS
  MaxFmt,       \* the longest format string
  MaxSpec,      \* the longest spec
  MaxPattern,   \* the longest line pattern, a field name counting as one
  MaxArgs,      \* the most arguments of mixed types in one call
  LastDay       \* the last day, counted from 1970-01-01

LastShownDay == 2932896   \* 9999-12-31: a line shows four digits of the year

ASSUME LineAssumption ==
  /\ {MaxFmt, MaxSpec, MaxPattern} \subseteq Nat
  /\ MaxArgs \in Nat /\ MaxArgs < ByteBase   \* the count of arguments is one byte
  /\ LastDay \in Nat /\ LastDay <= LastShownDay
  /\ MinutesPerHour > 1
  /\ 40 * NANOS_PER_SEC < CounterMod   \* the counter wraps once in the samples

VARIABLES
  part,    \* which kind of input is being grown
  input,   \* the input
  date     \* the calendar's date of the day `input`, when part = "day"

lineVars == <<part, input, date>>

-----------------------------------------------------------------------------
(* Inputs.                                                                  *)

FmtSymbols     == {"{", "}", ":", "a", "3", "<"}
SpecSymbols    == {"a", "0", "5", "<", ".", "#", "x", "+"}
PatternSymbols == {"{", "}", ":", "6", "level", "message"}

Bits(tag) == Weight[PrimitiveSize(tag)]

\* The boundary values of every type; strings up to one byte more than any
\* record can hold.
UnsignedEnds(tag) == {[tag |-> tag, v |-> v] : v \in {0, 1, Bits(tag) - 1}}
SignedEnds(tag)   == {[tag |-> tag, v |-> v] : v \in {0 - Bits(tag) \div 2, 0 - 1, Bits(tag) \div 2 - 1}}

StringSizes ==
  {0, 1, MAX_RECORD_SIZE - BASE_RECORD_SIZE - 4, MAX_RECORD_SIZE - BASE_RECORD_SIZE - 3,
   MAX_RECORD_SIZE - BASE_RECORD_SIZE - 2, U16Max + 1}

BoolValues     == {[tag |-> TAG.BOOL, v |-> v] : v \in BOOLEAN}
UnsignedValues == UNION {UnsignedEnds(t) : t \in {TAG.U64, TAG.F64, TAG.U32, TAG.F32, TAG.U16, TAG.U8}}
SignedValues   == UNION {SignedEnds(t) : t \in SignedTags}
StringValues   == {[tag |-> TAG.STR, v |-> Copies(n % ByteBase, n)] : n \in StringSizes}

ArgValues == BoolValues \cup UnsignedValues \cup SignedValues \cup StringValues

TrueArg == [tag |-> TAG.BOOL, v |-> TRUE]

IntegerValues ==
  {[tag |-> TAG.U8, v |-> v] : v \in {0, 1, 9, 10, 16, 143}}
    \cup {[tag |-> TAG.I8, v |-> v] : v \in {0 - 72, 0 - 9, 0 - 1, 0, 10, 71}}

IntegerSpecs ==
  [fill : {" ", "*"}, align : {None, "Left", "Right", "Center"}, zero_fill : BOOLEAN,
   width : {Unset, 0, 2, 7}, precision : {Unset, 0, 2, 4}, alternate : BOOLEAN,
   type_char : {None, "x", "o", "b"}]

-----------------------------------------------------------------------------
(* The calendar: month lengths and leap years.                              *)

Leap(y) == y % 4 = 0 /\ (y % 100 # 0 \/ y % 400 = 0)

MonthLength(d) ==
  CASE d.month = 2 -> IF Leap(d.year) THEN 29 ELSE 28
    [] d.month \in {4, 6, 9, 11} -> 30
    [] OTHER -> 31

Tomorrow(d) ==
  IF d.day < MonthLength(d) THEN [d EXCEPT !.day = @ + 1]
  ELSE IF d.month < 12 THEN [year |-> d.year, month |-> d.month + 1, day |-> 1]
  ELSE [year |-> d.year + 1, month |-> 1, day |-> 1]

-----------------------------------------------------------------------------
LineInit ==
  /\ part \in {"fmt", "spec", "pattern", "call", "value", "day"}
  /\ input = IF part = "day" THEN 1 ELSE <<>>
  /\ date = [year |-> 1970, month |-> 1, day |-> 2]

Grow(p, symbols, bound) ==
  /\ part = p /\ Len(input) < bound
  /\ \E c \in symbols : input' = Append(input, c)
  /\ UNCHANGED <<part, date>>

GrowFmt     == Grow("fmt", FmtSymbols, MaxFmt)
GrowSpec    == Grow("spec", SpecSymbols, MaxSpec)
GrowPattern == Grow("pattern", PatternSymbols, MaxPattern)
GrowCall    == Grow("call", ArgValues, MaxArgs)

\* As many arguments as a count byte can hold.
GrowFlags ==
  /\ part = "call" /\ Len(input) < ByteBase - 1
  /\ \A i \in DOMAIN input : input[i].tag = TAG.BOOL
  /\ input' = Append(input, TrueArg)
  /\ UNCHANGED <<part, date>>

PickInteger ==
  /\ part = "value" /\ input = <<>>
  /\ \E a \in IntegerValues, spec \in IntegerSpecs : input' = <<[arg |-> a, spec |-> spec]>>
  /\ UNCHANGED <<part, date>>

NextDay ==
  /\ part = "day" /\ input < LastDay
  /\ input' = input + 1
  /\ date' = Tomorrow(date)
  /\ UNCHANGED part

LineNext ==
  GrowFmt \/ GrowSpec \/ GrowPattern \/ GrowCall \/ GrowFlags \/ PickInteger \/ NextDay

LineSpec == LineInit /\ [][LineNext]_lineVars

-----------------------------------------------------------------------------
(* What a reader of the output expects.                                     *)

\* Sequences over a set, up to a length.
Words(S, n) == UNION {[1 .. k -> S] : k \in 0 .. n}

\* The number a run of digits denotes in a base, and in decimal.
Denoted(base, s) ==
  LET num[i \in 0 .. Len(s)] == IF i = 0 THEN 0 ELSE base * num[i - 1] + Value(s[i])
  IN num[Len(s)]

Number(s) == Denoted(10, s)

\* [[fill]align]['0'][width]['.' precision]['#'][type]: the texts of each part
\* with their meaning.  A width begins with '0' only after the zero flag, and a
\* number larger than a u16 is the largest u16.
DigitRuns == Words(SpecSymbols \cap Digits, MaxSpec) \ {<<>>}
U16(w)    == Min({MaxWidth, Number(w)})

AlignParts ==
  {[text |-> <<>>, fill |-> " ", align |-> None], [text |-> <<"<">>, fill |-> " ", align |-> "Left"]}
    \cup {[text |-> <<f, "<">>, fill |-> f, align |-> "Left"] : f \in SpecSymbols \ {"0", "#", "+"}}

WidthParts ==
  {[text |-> <<>>, zero_fill |-> FALSE, width |-> Unset], [text |-> <<"0">>, zero_fill |-> TRUE, width |-> Unset]}
    \cup {[text |-> w, zero_fill |-> FALSE, width |-> U16(w)] : w \in {x \in DigitRuns : x[1] # "0"}}
    \cup {[text |-> <<"0">> \o w, zero_fill |-> TRUE, width |-> U16(w)] : w \in DigitRuns}

PrecisionParts ==
  {[text |-> <<>>, precision |-> Unset]}
    \cup {[text |-> <<".">> \o w, precision |-> U16(w)] : w \in DigitRuns}

HashParts == {[text |-> <<>>, alternate |-> FALSE], [text |-> <<"#">>, alternate |-> TRUE]}
TypeParts == {[text |-> <<>>, type_char |-> None], [text |-> <<"x">>, type_char |-> "x"]}

SpecText(q) == q.a.text \o q.w.text \o q.p.text \o q.h.text \o q.t.text

SpecMeaning(q) ==
  [fill |-> q.a.fill, align |-> q.a.align, zero_fill |-> q.w.zero_fill, width |-> q.w.width,
   precision |-> q.p.precision, alternate |-> q.h.alternate, type_char |-> q.t.type_char]

SpecGrammar ==
  {<<SpecText(q), SpecMeaning(q)>> :
     q \in {r \in [a : AlignParts, w : WidthParts, p : PrecisionParts, h : HashParts, t : TypeParts] :
              Len(SpecText(r)) <= MaxSpec}}

SpecTexts == {g[1] : g \in SpecGrammar}

\* The texts of length 0 to max, each with its output, made from items that
\* are appended one after the other.
Grown(max, empty, items, Extend(_, _)) ==
  LET texts[n \in 0 .. max] ==
        IF n = 0 THEN <<{empty}>>
        ELSE LET shorter == texts[n - 1]
             IN Append(shorter, UNION {{Extend(t, i) : t \in shorter[n - Len(i.text) + 1]} :
                                         i \in {x \in items : Len(x.text) <= n}})
  IN texts[max]

\* Format strings: literals, escapes, and placeholders "{name}", "{name:spec}"
\* whose name is not a number; each with its number of arguments and its text
\* when argument k is the number k.  A fill is any symbol but the closing brace:
\* format.rs:7 and is_valid_fill allow that one as well, but to every scanner
\* the first "}" ends the placeholder, so "{:}<3}" is the placeholder "{:}" and
\* then the text "<3}", whose lone brace is refused.
FmtItems ==
  LET names == {w \in Words(FmtSymbols \ {":", "}"}, MaxFmt - 2) :
                  w = <<>> \/ (w[1] # "{" /\ \E i \in DOMAIN w : w[i] # "3")}
      fills == {<<f, w>> : f \in FmtSymbols \ {"}"}, w \in {<<>>, <<"3">>, <<"3", "3">>}}
      Item(text, pad) == [text |-> text, arg |-> TRUE, out |-> pad]
      Pad(f, w) == Copies(f, Max({0, Number(w) - 1}))
  IN {[text |-> <<c>>, arg |-> FALSE, out |-> <<c>>] : c \in FmtSymbols \ {"{", "}"}}
     \cup {[text |-> <<c, c>>, arg |-> FALSE, out |-> <<c>>] : c \in {"{", "}"}}
     \cup {Item(<<"{">> \o n \o <<"}">>, <<>>) : n \in names}
     \cup {Item(<<"{">> \o n \o <<":">> \o w \o <<"}">>, Pad(" ", w)) :
             n \in names, w \in {<<>>, <<"3">>, <<"3", "3">>, <<"3", "3", "3">>}}
     \cup {Item(<<"{">> \o n \o <<":", "<">> \o w \o <<"}">>, Pad(" ", w)) :
             n \in names, w \in {<<>>, <<"3">>, <<"3", "3">>}}
     \cup {Item(<<"{">> \o n \o <<":", f[1], "<">> \o f[2] \o <<"}">>, Pad(f[1], f[2])) :
             n \in names, f \in fills}

FmtGrammar ==
  LET Extend(t, i) == <<t[1] \o i.text, t[2] + (IF i.arg THEN 1 ELSE 0),
                        t[3] \o (IF i.arg THEN <<Digit(t[2] + 1)>> ELSE <<>>) \o i.out>>
  IN UNION Range(Grown(MaxFmt, << <<>>, 0, <<>> >>, FmtItems, Extend))

FmtTexts == {g[1] : g \in FmtGrammar}

\* Line patterns over the fields of PatternSymbols, at Level::Info, with the
\* message of SampleCall; the message at most once.
PatternItems ==
  LET info == LevelName[3]
      Item(text, msg, out) == [text |-> text, msg |-> msg, out |-> out]
      width(w) == info \o Copies(" ", Max({0, Number(w) - 4}))
  IN {Item(<<c>>, FALSE, <<c>>) : c \in PatternSymbols \ {"{", "}"}}
     \cup {Item(<<c, c>>, FALSE, <<c>>) : c \in {"{", "}"}}
     \cup {Item(<<"{", "level", "}">>, FALSE, info), Item(<<"{", "message", "}">>, TRUE, <<"7", "-", "1", "2">>)}
     \cup {Item(<<"{", "level", ":">> \o w \o <<"}">>, FALSE, width(w)) : w \in Words({"6"}, MaxPattern - 4)}

PatternGrammar ==
  LET Extend(t, i) == <<t[1] \o i.text, t[2] + (IF i.msg THEN 1 ELSE 0), t[3] \o i.out>>
  IN {t \in UNION Range(Grown(MaxPattern, << <<>>, 0, <<>> >>, PatternItems, Extend)) : t[2] <= 1}

PatternTexts == {g[1] : g \in PatternGrammar}

-----------------------------------------------------------------------------
(* The code applied to an input.                                            *)

Calibrated == calibrate(NANOS_PER_SEC, 0, 0)
MessageOnly == <<Place("message", DefaultSpec)>>

\* The line of a call at Level::Info under a pattern.
LineOf(segments, fmt, args) ==
  decode_and_format(ticklog_log(3, Trace, 0, 1, args), 0, Calibrated, segments, 0, <<>>,
                    <<Site(fmt, <<>>, 0)>>).line

Counting(n) == [k \in 1 .. n |-> [tag |-> TAG.U8, v |-> k]]

SampleCall == <<[tag |-> TAG.U16, v |-> 7], [tag |-> TAG.I32, v |-> 0 - 12]>>

\* The arguments read back one after the other, and where the cursor stops.
ReadBack(tags, r, at) ==
  LET read[i \in 0 .. Len(tags)] ==
        IF i = 0 THEN [args |-> <<>>, at |-> at, panic |-> FALSE]
        ELSE LET st == read[i - 1]
                 d  == DecodeArg(tags[i], r, st.at)
             IN IF st.panic \/ d.panic \/ ~d.known THEN [st EXCEPT !.panic = TRUE]
                ELSE [args |-> Append(st.args, d.arg), at |-> d.at, panic |-> FALSE]
  IN read[Len(tags)]

-----------------------------------------------------------------------------
(* Properties.                                                              *)

\* A call whose record fits a u16 comes back from the drain's cursor with the
\* level, the timestamp, the site and every argument it was made with, the
\* cursor stopping exactly at the end of the record and the header naming its
\* length; a call whose record does not fit leaves no record.  Sections of
\* older writers change none of it (dispatch, encode.rs, decode_and_format).
CallRoundTrip ==
  part = "call" =>
    LET size == BASE_RECORD_SIZE + Len(write_args(input))
        Comes(r, flags, level) ==
          LET h == DecodeHeader(r)
              b == ReadBack(h.tags, r, h.at)
          IN /\ <<h.level, h.ts, h.site>> = <<level, 17, IF Has(flags, FLAG_SITE) THEN <<5>> ELSE <<>> >>
             /\ h.source = IF Has(flags, FLAG_SOURCE) THEN <<[file |-> 5, line |-> 9]>> ELSE <<>>
             /\ h.thread = IF Has(flags, FLAG_THREAD) THEN <<[id |-> 3, name |-> <<1, 2>>]>> ELSE <<>>
             /\ ~b.panic /\ b.args = input /\ b.at = Len(r)
    IN \A level \in {Error, Trace} :
         LET r == ticklog_log(level, Trace, 17, 5, input)
         IN IF size > U16Max THEN r = <<>>
            ELSE /\ Len(r) = size /\ CapturedTotalSize(r) = size
                 /\ CapturedFlags(r) = FLAG_SITE /\ CapturedTicks(r) = 17
                 /\ Comes(r, FLAG_SITE, level)
                 /\ Len(input) <= 1 => \A flags \in 0 .. 31 :
                      Comes(Header(level, 17, flags, 0)
                              \o (IF Has(flags, FLAG_SITE) THEN ToLE(5, 8) ELSE <<>>)
                              \o LegacySections(flags, 5, 9, 3, <<1, 2>>)
                              \o <<Len(input)>> \o write_args(input), flags, level)

\* The macros' compile-time scanner (validate_fmt) accepts exactly the format
\* strings of the grammar, counting their placeholders, and the drain's own
\* scanner (interleave) renders every accepted one as the grammar says: no
\* missing argument, no lone brace, no panic, though the two scan apart.
AcceptedFormatRenders ==
  part = "fmt" =>
    LET n == validate_fmt(input)
    IN IF n = Err THEN input \notin FmtTexts
       ELSE LET line == LineOf(MessageOnly, input, Counting(n))
            IN ~line.panic /\ <<input, n, line.out>> \in FmtGrammar

\* Three scanners of a spec agree with the grammar and with each other: the
\* macros' (parse_spec_const, which sees the text after the closing brace),
\* the pattern's (validate_spec_rt), and parse_spec_body, which extracts the
\* fields of an accepted spec.
SpecScannersAgree ==
  part = "spec" =>
    LET valid == input \in SpecTexts
    IN /\ validate_spec_rt(input) <=> valid
       /\ \A tail \in {<<>>, <<"<">>, <<"x", "}">>} :
            LET text == input \o <<"}">> \o tail
            IN (parse_spec_const(text, 1) = Len(input) + 1) <=> valid
       /\ valid => <<input, parse_spec_body(input)>> \in SpecGrammar

\* A line is what the grammar says of the pattern in `input`, and one that
\* shows the message has used up its record.
AsWritten(line, messages) ==
  /\ ~line.panic /\ <<input, messages, line.out>> \in PatternGrammar
  /\ messages = 1 => line.at = Len(ticklog_log(3, Trace, 0, 1, SampleCall))

\* Template::parse accepts exactly the patterns of the grammar, and an
\* accepted pattern renders a line without a panic in the drain, every field
\* as written and the arguments of the record consumed once and completely.
PatternRenders ==
  part = "pattern" =>
    LET p == Parse(input)
    IN IF ~p.ok THEN input \notin PatternTexts
       ELSE AsWritten(LineOf(p.segments, <<"{", "}", "{", "}">>, SampleCall),
                      Cardinality({i \in DOMAIN p.segments : p.segments[i] = MessageOnly[1]}))

\* The base an integer is written in, the sign or the prefix before its digits,
\* and the digits: they denote its magnitude, and there are no more of them than
\* the magnitude or the precision needs.
IntegerBase(arg, spec) ==
  IF arg.tag \in SignedTags THEN 10
  ELSE CASE spec.type_char = "x" -> 16 [] spec.type_char = "o" -> 8
         [] spec.type_char = "b" -> 2 [] OTHER -> 10

IntegerHead(arg, spec) ==
  IF arg.v < 0 THEN <<"-">>
  ELSE IF arg.tag \notin SignedTags /\ spec.alternate /\ spec.type_char # None
       THEN <<"0", spec.type_char>>
  ELSE <<>>

Magnitude(v) == IF v < 0 THEN 0 - v ELSE v

DigitsRead(d, arg, spec) ==
  /\ \A i \in DOMAIN d : d[i] \in Range(DigitSymbols)
  /\ Denoted(IntegerBase(arg, spec), d) = Magnitude(arg.v)
  /\ Len(d) >= Max({1, spec.precision})
  /\ d[1] = "0" => Len(d) = Max({1, spec.precision})

\* `out` is the integer between l and m symbols of padding, and as wide as asked.
PaddedInteger(out, l, m, fill, arg, spec) ==
  LET n    == Len(out) - l - m
      core == SubSeq(out, l + 1, l + n)
      h    == Len(IntegerHead(arg, spec))
  IN /\ \A i \in (1 .. l) \cup (l + n + 1 .. Len(out)) : out[i] = fill
     /\ n > h /\ SubSeq(core, 1, h) = IntegerHead(arg, spec)
     /\ DigitsRead(SubSeq(core, h + 1, n), arg, spec)
     /\ Len(out) = Max({n, spec.width})

\* The text of an integer under a spec reads back, with the padding on the side
\* asked.  The zero flag is looked at where it pads digits only: no sign, no
\* prefix, to the right.
ReadsBack(arg, spec) ==
  LET out == FormatValue(arg, spec)
  IN IF spec.zero_fill
     THEN (IntegerHead(arg, spec) = <<>> /\ spec.align \in {None, "Right"}) =>
            \E l \in 0 .. Len(out) - 1 : PaddedInteger(out, l, 0, "0", arg, spec)
     ELSE \E l, m \in 0 .. Len(out) - 1 :
            /\ l + m < Len(out) /\ PaddedInteger(out, l, m, spec.fill, arg, spec)
            /\ CASE spec.align = "Right" -> m = 0
                 [] spec.align = "Center" -> m - l \in {0, 1}
                 [] OTHER -> l = 0

\* An integer formatted under a spec reads back, with the zero flag where it pads
\* digits only (format_unsigned_impl, format_signed_impl, format_with_spec).
IntegerReadsBack ==
  part = "value" /\ input # <<>> => ReadsBack(input[1].arg, input[1].spec)

\* A line shows the local date and time at which its record was stamped, on
\* every day of the calendar, for offsets on both sides of UTC, for counters
\* faster and slower than a nanosecond, and when the counter wraps between
\* the calibration and the stamp (ticks_to_ns, format_iso8601).
StampShowsLocalTime ==
  part = "day" =>
    \A tz \in {0, 5 * SecsPerHour + SecsPerMinute, 0 - 3 * SecsPerHour}, sec \in {0, SECS_PER_DAY - 1} :
      LET freq  == CASE input % 3 = 0 -> 0 [] input % 3 = 1 -> 1 [] OTHER -> 2 * NANOS_PER_SEC
          perNs == IF freq = 0 THEN <<1, 1>> ELSE <<freq, NANOS_PER_SEC>>
          now   == (input * SECS_PER_DAY + sec - tz) * NANOS_PER_SEC
          since == 20 * NANOS_PER_SEC
          calib == calibrate(counter_frequency(<<0, 0, 0>>, freq, NANOS_PER_SEC), now - since, CounterMod - 3)
          tick  == (CounterMod - 3 + (since * perNs[1]) \div perNs[2]) % CounterMod
      IN format_iso8601(ticks_to_ns(tick, calib), tz) =
           [date |-> date,
            time |-> [hour |-> IF sec = 0 THEN 0 ELSE HoursPerDay - 1,
                      min  |-> IF sec = 0 THEN 0 ELSE MinutesPerHour - 1,
                      sec  |-> IF sec = 0 THEN 0 ELSE SecsPerMinute - 1, nanos |-> 0],
            zone |-> IF tz = 0 THEN <<"Z">> ELSE IF tz > 0 THEN <<"+", 5, 1>> ELSE <<"-", 3, 0>>]
=============================================================================
