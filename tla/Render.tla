------------------------------- MODULE Render -------------------------------
(***************************************************************************)
(* The drain's way from the bytes of a record to a line: decode_and_format, *)
(* render_pattern, interleave and format_arg (drain.rs), over the wire      *)
(* format of Codec, the specs of Format and the clock of Timestamp.         *)
(*                                                                          *)
(* A line is a sequence of symbols.  The timestamp is one symbol; its       *)
(* fields are returned beside the line.                                     *)
(***************************************************************************)
EXTENDS Codec, Format, Timestamp

LevelName == << <<"E", "R", "R", "O", "R">>, <<"W", "A", "R", "N">>,
                <<"I", "N", "F", "O">>, <<"D", "E", "B", "U", "G">>,
                <<"T", "R", "A", "C", "E">> >>

MissingArg == "<missing arg>"
UnknownTag == "<unknown tag>"
LoneBrace  == "<lone brace>"

\* A call site: what the pointer in the record leads to.
Site(fmt, file, line) == [fmt |-> fmt, file |-> file, line |-> line]

\* The text of the bytes of a string or of a name, one character per byte.
Text(bytes) == [i \in DOMAIN bytes |-> DigitSymbols[(bytes[i] % 16) + 1]]

-----------------------------------------------------------------------------
\* FORMATTERS: the formatter of a tag applied to a decoded value.
FormatValue(arg, spec) ==
  CASE arg.tag \in SignedTags -> format_signed_impl(arg.v, spec)
    [] arg.tag \in {TAG.F64, TAG.F32} -> format_float_impl(arg.v, spec)
    [] arg.tag = TAG.BOOL -> format_bool(arg.v, spec)
    [] arg.tag = TAG.STR -> format_str(Text(arg.v), spec)
    [] OTHER -> format_unsigned_impl(arg.v, spec)

Pieces_NoEscapes(s) ==
  LET n == Len(s)
      from[i \in 1 .. n + 2] ==
        IF i > n THEN <<>>
        ELSE IF s[i] = "{" THEN
          LET j == FirstOf(s, i + 1, {"}"})
          IN <<Place("", parse_placeholder(SubSeq(s, i + 1, j - 1)).spec)>>
               \o from[Min({j + 1, n + 1})]
        ELSE IF s[i] = "}" THEN
          <<Lit(IF At(s, i + 1, {"}"}) THEN "}" ELSE LoneBrace)>> \o from[i + 2]
        ELSE <<Lit(s[i])>> \o from[i + 1]
  IN from[1]

\* How interleave cuts a format string: escapes, placeholders up to the next
\* closing brace, literal symbols.  A lone closing brace fails its
\* debug_assert.
Pieces(s) ==
  LET n == Len(s)
      from[i \in 1 .. n + 2] ==
        IF i > n THEN <<>>
        ELSE IF s[i] = "{" /\ At(s, i + 1, {"{"}) THEN <<Lit("{")>> \o from[i + 2]
        ELSE IF s[i] = "{" THEN
          LET j == FirstOf(s, i + 1, {"}"})
          IN <<Place("", parse_placeholder(SubSeq(s, i + 1, j - 1)).spec)>>
               \o from[Min({j + 1, n + 1})]
        ELSE IF s[i] = "}" THEN
          <<Lit(IF At(s, i + 1, {"}"}) THEN "}" ELSE LoneBrace)>> \o from[i + 2]
        ELSE <<Lit(s[i])>> \o from[i + 1]
  IN from[1]

\* The state after a loop over the elements of s.
Loop(Step(_, _), first, s) ==
  LET after[i \in 0 .. Len(s)] == IF i = 0 THEN first ELSE Step(after[i - 1], s[i])
  IN after[Len(s)]

\* interleave: the text of the message, with the cursor and the number of
\* arguments used so far.  After an unknown tag no argument is read any more.
interleave(fmt, tags, r, at) ==
  LET Step(st, p) ==
        LET k == st.used + 1
            d == DecodeArg(tags[k], r, st.at)
        IN IF st.panic THEN st
           ELSE IF p.kind = "lit" THEN [st EXCEPT !.out = Append(@, p.c)]
           ELSE IF k > Len(tags) THEN [st EXCEPT !.out = Append(@, MissingArg), !.used = k]
           ELSE IF ~st.parse_ok \/ ~d.known
             THEN [st EXCEPT !.out = Append(@, UnknownTag), !.used = k, !.parse_ok = FALSE]
           ELSE IF d.panic THEN [st EXCEPT !.panic = TRUE]
           ELSE [st EXCEPT !.out = @ \o FormatValue(d.arg, p.spec), !.used = k, !.at = d.at]
  IN Loop(Step, [out |-> <<>>, used |-> 0, at |-> at, parse_ok |-> TRUE, panic |-> FALSE],
          Pieces(fmt))

\* render_pattern: the segments of the pattern in order.  {message} moves the
\* cursor, so a second one would read past the arguments; a record without a
\* site and a source section has no file and no line.
render_pattern(segments, fmt, source, thread_id, thread_name, h, r) ==
  LET Fixed(seg) ==
        CASE seg.field = "timestamp"   -> <<"timestamp">>
          [] seg.field = "level"       -> format_str(LevelName[h.level], seg.spec)
          [] seg.field = "file"        -> FlattenSeq([i \in DOMAIN source |->
                                            format_str(source[i].file, seg.spec)])
          [] seg.field = "line"        -> FlattenSeq([i \in DOMAIN source |->
                                            format_unsigned_impl(source[i].line, seg.spec)])
          [] seg.field = "thread_name" -> format_str(thread_name, seg.spec)
          [] seg.field = "thread_id"   ->
               <<"ThreadId(">> \o format_unsigned_impl(thread_id, seg.spec) \o <<")">>
      Step(st, seg) ==
        IF st.panic THEN st
        ELSE IF seg.kind = "lit" THEN [st EXCEPT !.out = Append(@, seg.c)]
        ELSE IF seg.field # "message" THEN [st EXCEPT !.out = @ \o Fixed(seg)]
        ELSE LET m == interleave(fmt, h.tags, r, st.at)
             IN [out |-> st.out \o m.out, at |-> m.at, panic |-> m.panic]
  IN Loop(Step, [out |-> <<>>, at |-> h.at, panic |-> FALSE], segments)

\* decode_and_format after the header: the sections give the format string,
\* the source and the thread, with the ring's registration as the default for
\* the thread.  `sites` is what the pointers in a record lead to.
FormatDecoded(h, r, tz, calib, segments, ring_thread_id, ring_thread_name, sites) ==
  [line  |-> render_pattern(
               segments,
               IF h.site # <<>> THEN sites[h.site[1]].fmt ELSE <<>>,
               IF h.source # <<>> THEN <<[file |-> sites[h.source[1].file].file, line |-> h.source[1].line]>>
               ELSE IF h.site # <<>> THEN <<sites[h.site[1]]>> ELSE <<>>,
               IF h.thread # <<>> THEN h.thread[1].id ELSE ring_thread_id,
               IF h.thread # <<>> /\ h.thread[1].name # <<>> THEN Text(h.thread[1].name)
               ELSE ring_thread_name,
               h, r),
   stamp |-> format_iso8601(ticks_to_ns(h.ts, calib), tz)]

\* decode_and_format: the line, and the fields of its timestamp.
decode_and_format(r, tz, calib, segments, ring_thread_id, ring_thread_name, sites) ==
  FormatDecoded(DecodeHeader(r), r, tz, calib, segments, ring_thread_id, ring_thread_name, sites)
=============================================================================
