------------------------------- MODULE Format -------------------------------
(***************************************************************************)
(* format.rs: the scanners of format strings and of line patterns, the      *)
(* parser of a format spec, and the rendering of one value under a spec.    *)
(*                                                                          *)
(* A text is a sequence of symbols.  A symbol is one ASCII character, or a  *)
(* whole field name ("level", "message", ...), which stands for its         *)
(* letters: none of them is a brace, a colon or a digit.  Positions count   *)
(* from 1; Err is the error of a scanner.                                   *)
(***************************************************************************)
EXTENDS Integers, Sequences, SequencesExt

Err  == 0 - 1
None == "none"
Unset == 0 - 1   \* a width or a precision that is not given

DigitSymbols == <<"0", "1", "2", "3", "4", "5", "6", "7", "8", "9",
                  "a", "b", "c", "d", "e", "f">>
Digits    == {DigitSymbols[i] : i \in 1 .. 10}
Digit(n)  == DigitSymbols[n + 1]
Value(c)  == CHOOSE n \in 0 .. 15 : Digit(n) = c
TypeChars == {"?", "x", "X", "o", "b", "e", "E"}
AlignOf   == [c \in {"<", ">", "^"} |->
                CASE c = "<" -> "Left" [] c = ">" -> "Right" [] c = "^" -> "Center"]

is_align_char(c) == c \in DOMAIN AlignOf

is_valid_fill(c) == c \notin {"+", "-", "0", "#"}

is_all_digits(s) == \A i \in DOMAIN s : s[i] \in Digits

\* The byte at i, if there is one and it belongs to the class.
At(s, i, class) == i \in DOMAIN s /\ s[i] \in class

\* Where a `while i < len && ...` loop from i stops: the first symbol of the
\* class, or just past the end.
FirstOf(s, i, class)  == Min({j \in i .. Len(s) : s[j] \in class} \cup {Max({i, Len(s) + 1})})
SkipDigits(s, i)      == Min({j \in i .. Len(s) : s[j] \notin Digits} \cup {Max({i, Len(s) + 1})})

-----------------------------------------------------------------------------
(* Format specs.                                                            *)

\* FormatSpec::default()
DefaultSpec ==
  [fill |-> " ", align |-> None, zero_fill |-> FALSE, width |-> Unset,
   precision |-> Unset, alternate |-> FALSE, type_char |-> None]

\* [fill] [align]: two symbols when the second is an alignment, else one.
AfterAlign(s, i) ==
  IF i + 1 <= Len(s) /\ is_align_char(s[i + 1]) THEN i + 2
  ELSE IF At(s, i, DOMAIN AlignOf) THEN i + 1
  ELSE i

\* ['0']
AfterZero(s, i) == IF At(s, i, {"0"}) THEN i + 1 ELSE i

\* ['.' precision]: Err when no digit follows the dot.
AfterPrecision(s, i) ==
  IF ~At(s, i, {"."}) THEN i
  ELSE IF At(s, i + 1, Digits) THEN SkipDigits(s, i + 1)
  ELSE Err

\* ['#']
AfterHash(s, i) == IF At(s, i, {"#"}) THEN i + 1 ELSE i

\* From the start of a spec to its type character, Err if there is none such.
ToType(s, i) ==
  IF i + 1 <= Len(s) /\ is_align_char(s[i + 1]) /\ ~is_valid_fill(s[i]) THEN Err
  ELSE LET p == AfterPrecision(s, SkipDigits(s, AfterZero(s, AfterAlign(s, i))))
       IN IF p = Err THEN Err ELSE AfterHash(s, p)

\* [type], which the closing brace may stand for.
AfterType(s, t) ==
  IF t = Err THEN Err
  ELSE IF t > Len(s) \/ s[t] = "}" THEN t
  ELSE IF s[t] \in TypeChars THEN t + 1
  ELSE Err

parse_spec_const_LookaheadFirst(s, i) ==
  IF i > Len(s) THEN Err ELSE AfterType(s, ToType(s, i))

\* parse_spec_const: the position after the spec that starts at i, in the
\* whole format string; an empty spec is recognised before any lookahead.
parse_spec_const(s, i) ==
  IF i > Len(s) THEN Err
  ELSE IF s[i] = "}" THEN i
  ELSE AfterType(s, ToType(s, i))

\* validate_spec_rt: is the text between ':' and '}' a spec?
validate_spec_rt(b) ==
  LET t == ToType(b, 1)
  IN t # Err /\ (t > Len(b) \/ (b[t] \in TypeChars /\ t = Len(b)))

MaxWidth == 65535   \* u16::MAX

\* A run of digits as a u16: saturating_mul, saturating_add.
Saturated(s) ==
  LET num[i \in 0 .. Len(s)] ==
        IF i = 0 THEN 0 ELSE Min({MaxWidth, Min({MaxWidth, 10 * num[i - 1]}) + Value(s[i])})
  IN num[Len(s)]

\* parse_spec_body
parse_spec_body(b) ==
  LET a == AfterAlign(b, 1)
      z == AfterZero(b, a)
      w == SkipDigits(b, z)
      p == IF At(b, w, {"."}) THEN SkipDigits(b, w + 1) ELSE w
      h == AfterHash(b, p)
  IN [fill      |-> IF a = 3 THEN b[1] ELSE " ",
      align     |-> IF a = 1 THEN None ELSE AlignOf[b[a - 1]],
      zero_fill |-> z > a,
      width     |-> IF w = z THEN Unset ELSE Saturated(SubSeq(b, z, w - 1)),
      precision |-> IF p = w THEN Unset ELSE Saturated(SubSeq(b, w + 1, p - 1)),
      alternate |-> h > p,
      type_char |-> IF At(b, h, TypeChars) THEN b[h] ELSE None]

\* parse_placeholder: the name, and the spec after the first colon.
parse_placeholder(content) ==
  LET colon == FirstOf(content, 1, {":"})
  IN [name |-> SubSeq(content, 1, colon - 1),
      spec |-> IF colon > Len(content) THEN DefaultSpec
               ELSE parse_spec_body(SubSeq(content, colon + 1, Len(content)))]

-----------------------------------------------------------------------------
(* Format strings of the logging macros.                                    *)

\* validate_fmt: how many placeholders the string has, or Err.
validate_fmt(s) ==
  LET n == Len(s)
      count[i \in 1 .. n + 1] ==
        IF i > n THEN 0
        ELSE IF s[i] = "{" THEN
          IF At(s, i + 1, {"{"}) THEN count[i + 2]
          ELSE LET c == FirstOf(s, i + 1, {":", "}"})
                   e == IF At(s, c, {":"}) THEN parse_spec_const(s, c + 1) ELSE c
                   positional == c > i + 1 /\ is_all_digits(SubSeq(s, i + 1, c - 1))
               IN IF positional \/ c > n \/ e = Err \/ ~At(s, e, {"}"}) THEN Err
                  ELSE LET rest == count[e + 1]
                       IN IF rest = Err THEN Err ELSE rest + 1
        ELSE IF s[i] = "}" THEN
          IF At(s, i + 1, {"}"}) THEN count[i + 2] ELSE Err
        ELSE count[i + 1]
  IN count[1]

\* check_fmt: what the macros assert at compile time.
check_fmt(s, n_args) == validate_fmt(s) = n_args

-----------------------------------------------------------------------------
(* Line patterns.                                                           *)

Fields == {"timestamp", "level", "file", "line", "thread_name", "thread_id", "message"}

Lit(c)             == [kind |-> "lit", c |-> c]
Place(field, spec) == [kind |-> "place", field |-> field, spec |-> spec]

MessageAllowed_Twice(s, c, seen) == s[c] # ":"

\* {message} comes at most once, and without a spec.
MessageAllowed(s, c, seen) == ~seen /\ s[c] # ":"

\* The placeholder of a pattern that opens at i: its closing brace and its
\* segment, or Err for a close that does not exist or a name or a spec that
\* Template::parse refuses.
PlaceAt(s, i, seen) ==
  LET c    == FirstOf(s, i + 1, {":", "}"})
      name == SubSeq(s, i + 1, c - 1)
      e    == FirstOf(s, c, {"}"})
      body == SubSeq(s, c + 1, e - 1)
  IN IF \/ e > Len(s) \/ Len(name) # 1 \/ name[1] \notin Fields
        \/ name[1] = "message" /\ ~MessageAllowed(s, c, seen)
        \/ s[c] = ":" /\ (name[1] = "timestamp" \/ ~validate_spec_rt(body))
     THEN [close |-> Err, seg |-> Lit("")]
     ELSE [close |-> e, seg |-> Place(name[1], IF s[c] = ":" THEN parse_spec_body(body)
                                               ELSE DefaultSpec)]

\* Template::parse: the segments, one literal per symbol, or Err.
Parse(s) ==
  LET n == Len(s)
      Then(seg, rest) == IF rest.ok THEN [ok |-> TRUE, segments |-> <<seg>> \o rest.segments]
                         ELSE rest
      Bad == [ok |-> FALSE, segments |-> <<>>]
      segs[i \in 1 .. n + 1] == [seen \in BOOLEAN |->
        IF i > n THEN [ok |-> TRUE, segments |-> <<>>]
        ELSE IF At(s, i, {"{", "}"}) /\ At(s, i + 1, {s[i]})
          THEN Then(Lit(s[i]), segs[i + 2][seen])
        ELSE IF s[i] = "{" THEN
          LET p == PlaceAt(s, i, seen)
          IN IF p.close = Err THEN Bad
             ELSE Then(p.seg, segs[p.close + 1][seen \/ p.seg.field = "message"])
        ELSE IF s[i] = "}" THEN Bad
        ELSE Then(Lit(s[i]), segs[i + 1][seen])]
  IN segs[1][FALSE]

-----------------------------------------------------------------------------
(* Values.                                                                  *)

Copies(c, n) == [i \in 1 .. n |-> c]

\* format_with_spec: the text padded to the width.
format_with_spec(s, spec) ==
  LET fill    == IF spec.zero_fill THEN "0" ELSE spec.fill
      align   == IF spec.zero_fill /\ spec.align = None THEN "Right" ELSE spec.align
      padding == Max({0, spec.width - Len(s)})
      left    == CASE align = "Right" -> padding
                   [] align = "Center" -> padding \div 2
                   [] OTHER -> 0
  IN Copies(fill, left) \o s \o Copies(fill, padding - left)

\* The digits of a number in a base, most significant first (core::fmt).
DigitsIn(v, base) ==
  LET d[x \in 0 .. v] == IF x < base THEN <<Digit(x)>> ELSE d[x \div base] \o <<Digit(x % base)>>
  IN d[v]

WithPrecision_BeforePrefix(prefix, digits, spec) ==
  Copies("0", Max({0, spec.precision - Len(digits)})) \o prefix \o digits

\* Zero-pads the digits after the prefix or the sign to the precision.
WithPrecision(prefix, digits, spec) ==
  prefix \o Copies("0", Max({0, spec.precision - Len(digits)})) \o digits

\* The base of an unsigned integer's type character, and its `#` prefix.
\* Upper-case hexadecimal differs from lower-case in its letters only.
Radix(type_char) ==
  CASE type_char \in {"x", "X"} -> 16
    [] type_char = "o" -> 8
    [] type_char = "b" -> 2
    [] OTHER -> 10

Prefix(type_char) ==
  CASE type_char \in {"x", "X"} -> <<"0", "x">>
    [] type_char = "o" -> <<"0", "o">>
    [] type_char = "b" -> <<"0", "b">>
    [] OTHER -> <<>>

\* format_u64, format_u32, format_u16, format_u8
format_unsigned_impl(v, spec) ==
  format_with_spec(
    WithPrecision(IF spec.alternate THEN Prefix(spec.type_char) ELSE <<>>,
                  DigitsIn(v, Radix(spec.type_char)), spec), spec)

\* format_i64, format_i32, format_i16, format_i8: always decimal.
format_signed_impl(v, spec) ==
  format_with_spec(
    WithPrecision(IF v < 0 THEN <<"-">> ELSE <<>>,
                  DigitsIn(IF v < 0 THEN 0 - v ELSE v, 10), spec), spec)

format_bool(v, spec) ==
  format_with_spec(IF v THEN <<"t", "r", "u", "e">> ELSE <<"f", "a", "l", "s", "e">>, spec)

\* format_str: '?' quotes the text, otherwise the precision truncates it.
format_str(s, spec) ==
  format_with_spec(
    IF spec.type_char = "?" THEN <<"quote">> \o s \o <<"quote">>
    ELSE IF spec.precision = Unset THEN s
    ELSE SubSeq(s, 1, Min({spec.precision, Len(s)})), spec)

\* format_float_impl: core::fmt renders the number, with the precision if
\* there is one; its text is one symbol here.
format_float_impl(v, spec) == format_with_spec(<<"float">>, spec)
=============================================================================
