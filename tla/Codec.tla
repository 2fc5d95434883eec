------------------------------- MODULE Codec --------------------------------
(***************************************************************************)
(* The wire format of a record: the logging macros and dispatch up to the   *)
(* assembled bytes (macros.rs, encode.rs, record.rs), and the cursor with   *)
(* which the drain takes them apart again (drain.rs).                       *)
(*                                                                          *)
(* A byte is a number below ByteBase, so that a u16 reaches its limit with  *)
(* records of a size that can be enumerated; the layout is that of the      *)
(* code.  A record is a sequence of bytes and a cursor is the number of     *)
(* bytes before it.                                                         *)
(***************************************************************************)
EXTENDS Integers, Sequences, SequencesExt

CONSTANT ByteBase   \* the values of a byte: 256 in the code

ASSUME ByteAssumption ==
  /\ ByteBase \in Nat /\ ByteBase % 2 = 0
  /\ ByteBase > 11                    \* a tag is a byte
  /\ ByteBase * ByteBase > 25         \* a u16 holds the size of an empty record

-----------------------------------------------------------------------------
(* Numbers and bytes.                                                       *)

\* What the k-th byte counts for, up to a u64.
Weight[k \in 0 .. 8] == IF k = 0 THEN 1 ELSE ByteBase * Weight[k - 1]

Complement(b) == [i \in DOMAIN b |-> ByteBase - 1 - b[i]]

\* to_le_bytes of an n-byte integer; a negative one in two's complement.
ToLE(v, n) ==
  LET U(x) == [i \in 1 .. n |-> (x \div Weight[i - 1]) % ByteBase]
  IN IF v >= 0 THEN U(v) ELSE Complement(U(0 - v - 1))

\* from_le_bytes, unsigned and signed.
FromLE(b) ==
  LET sum[i \in 0 .. Len(b)] ==
        IF i = 0 THEN 0 ELSE sum[i - 1] + b[i] * Weight[i - 1]
  IN sum[Len(b)]

FromLESigned(b) ==
  IF b[Len(b)] < ByteBase \div 2 THEN FromLE(b) ELSE 0 - FromLE(Complement(b)) - 1

U16Max == ByteBase * ByteBase - 1

-----------------------------------------------------------------------------
(* Levels.                                                                  *)

Levels == 1 .. 5   \* Error, Warn, Info, Debug, Trace
Error  == 1
Trace  == 5

\* Level::from_u8(b).unwrap_or(Level::Error)
LevelOf(b) == IF b \in Levels THEN b ELSE Error

-----------------------------------------------------------------------------
(* Argument values: [tag, v], where v is a number, a Boolean or bytes.      *)

TAG ==
  [U64 |-> 0, I64 |-> 1, F64 |-> 2, U32 |-> 3, I32 |-> 4,  F32  |-> 5,
   U16 |-> 6, I16 |-> 7, U8  |-> 8, I8  |-> 9, BOOL |-> 10, STR |-> 11]

TAG_COUNT == 12

SignedTags == {TAG.I64, TAG.I32, TAG.I16, TAG.I8}

\* The drain's table of payload sizes, indexed by tag + 1.
FIXED_SIZES == <<8, 8, 8, 4, 4, 4, 2, 2, 1, 1, 1, 0>>

\* The size each impl_loggable_primitive! names, with bool's.
PrimitiveSize(tag) ==
  CASE tag \in {TAG.U64, TAG.I64, TAG.F64} -> 8
    [] tag \in {TAG.U32, TAG.I32, TAG.F32} -> 4
    [] tag \in {TAG.U16, TAG.I16}          -> 2
    [] OTHER                               -> 1

STR_LEN_PREFIX == 2

encoded_size(a) ==
  IF a.tag = TAG.STR THEN STR_LEN_PREFIX + Len(a.v) ELSE PrimitiveSize(a.tag)

\* The length of a string is cut to a u16.
encode(a) ==
  CASE a.tag = TAG.STR  -> ToLE(Len(a.v) % (U16Max + 1), STR_LEN_PREFIX) \o a.v
    [] a.tag = TAG.BOOL -> <<IF a.v THEN 1 ELSE 0>>
    [] OTHER            -> ToLE(a.v, PrimitiveSize(a.tag))

args_encoded_size(args) ==
  LET sum[i \in 0 .. Len(args)] == IF i = 0 THEN 0 ELSE sum[i - 1] + encoded_size(args[i])
  IN sum[Len(args)]

\* The payloads one after the other.
Payload(args) ==
  LET bytes[i \in 0 .. Len(args)] == IF i = 0 THEN <<>> ELSE bytes[i - 1] \o encode(args[i])
  IN bytes[Len(args)]

\* All tags, then all payloads.
write_args(args) ==
  [i \in DOMAIN args |-> args[i].tag] \o Payload(args)

-----------------------------------------------------------------------------
(* Records.                                                                 *)

VERSION          == 2
LOG_RECORD       == 1
HEADER_SIZE      == 16
BASE_RECORD_SIZE == HEADER_SIZE + 8 + 1
MAX_RECORD_SIZE  == U16Max

FLAG_SITE    == 1
FLAG_SOURCE  == 2
FLAG_THREAD  == 4
FLAG_PROCESS == 8
FLAG_COMPLEX == 16

Has(flags, flag) == (flags \div flag) % 2 = 1

\* The two packed words of the header; total_size is cut to a u16.
Header(level, ts, flags, total) ==
  ToLE(VERSION + LOG_RECORD * Weight[1] + (total % (U16Max + 1)) * Weight[2]
         + level * Weight[4] + flags * Weight[5], 8) \o ToLE(ts, 8)

\* record::assemble
assemble(level, ts, flags, site, n_args, total, args) ==
  Header(level, ts, flags, total)
    \o (IF Has(flags, FLAG_SITE) THEN ToLE(site, 8) ELSE <<>>)
    \o <<n_args>> \o write_args(args)

Oversize_Full(total) == total > MAX_RECORD_SIZE + 1

\* dispatch drops a record that the u16 total_size cannot frame.
Oversize(total) == total > MAX_RECORD_SIZE

\* __ticklog_log!: the record of one call, or <<>> if the level is above the
\* ceiling or the record too large.  The count is one byte, so the model is
\* meant for calls of fewer than ByteBase arguments.
ticklog_log(level, max_level, ts, site, args) ==
  LET n_args == Len(args) % ByteBase
      total  == BASE_RECORD_SIZE + n_args + args_encoded_size(args)
  IN IF level > max_level \/ Oversize(total) THEN <<>>
     ELSE assemble(level, ts, FLAG_SITE, site, n_args, total, args)

\* The sections of records from older writers, in the order the drain reads
\* them: source (pointer, length, line), thread (id, name), process, complex.
LegacySections(flags, file, line, thread, name) ==
  (IF Has(flags, FLAG_SOURCE)  THEN ToLE(file, 8) \o ToLE(0, 2) \o ToLE(line, 4) ELSE <<>>)
    \o (IF Has(flags, FLAG_THREAD) THEN ToLE(thread, 8) \o ToLE(Len(name), 2) \o name ELSE <<>>)
    \o (IF Has(flags, FLAG_PROCESS) THEN ToLE(1, 4) ELSE <<>>)
    \o (IF Has(flags, FLAG_COMPLEX) THEN ToLE(1, 8) ELSE <<>>)

-----------------------------------------------------------------------------
(* The cursor.                                                              *)

\* read_array: a short read yields zero and does not advance.
ReadNum(r, at, n) == IF at + n > Len(r) THEN 0 ELSE FromLE(SubSeq(r, at + 1, at + n))
AfterNum(r, at, n) == IF at + n > Len(r) THEN at ELSE at + n

\* skip and read_bytes: clamped to what remains.
AfterBytes(r, at, n) == Min({at + n, Len(r)})
ReadBytes(r, at, n)  == SubSeq(r, at + 1, AfterBytes(r, at, n))

\* Steps 1, 3 and 4 of decode_and_format: header, flagged sections in fixed
\* order, argument count and tags; `at` is where the payloads start.  A
\* section is a sequence of length one, or <<>> when its flag is clear.
DecodeHeader(r) ==
  LET flags  == ReadNum(r, 5, 2)
      On(flag, at, n)   == IF Has(flags, flag) THEN n ELSE at
      Section(flag, s)  == IF Has(flags, flag) THEN <<s>> ELSE <<>>
      site   == On(FLAG_SITE, HEADER_SIZE, AfterNum(r, HEADER_SIZE, 8))
      file   == AfterNum(r, AfterNum(r, site, 8), 2)
      source == On(FLAG_SOURCE, site, AfterNum(r, file, 4))
      id     == AfterNum(r, source, 8)
      name   == AfterNum(r, id, 2)
      thread == On(FLAG_THREAD, source, AfterBytes(r, name, ReadNum(r, id, 2)))
      proc   == On(FLAG_PROCESS, thread, AfterBytes(r, thread, 4))
      count  == On(FLAG_COMPLEX, proc, AfterBytes(r, proc, 8))
      tags   == AfterNum(r, count, 1)
  IN [level  |-> LevelOf(ReadNum(r, 4, 1)),
      ts     |-> ReadNum(r, 8, 8),
      site   |-> Section(FLAG_SITE, ReadNum(r, HEADER_SIZE, 8)),
      source |-> Section(FLAG_SOURCE, [file |-> ReadNum(r, site, 8), line |-> ReadNum(r, file, 4)]),
      thread |-> Section(FLAG_THREAD, [id   |-> ReadNum(r, source, 8),
                                       name |-> ReadBytes(r, name, ReadNum(r, id, 2))]),
      tags   |-> ReadBytes(r, tags, ReadNum(r, count, 1)),
      at     |-> AfterBytes(r, tags, ReadNum(r, count, 1))]

\* format_arg up to the call of the formatter, with the decoding half of the
\* fmt_* functions: the value and the cursor after it.  `known` is FALSE for
\* a tag outside the tables, `panic` TRUE where an expect or an index fails.
DecodeArg(tag, r, at) ==
  LET len   == ReadNum(r, at, STR_LEN_PREFIX)
      text  == AfterNum(r, at, STR_LEN_PREFIX)
      size  == FIXED_SIZES[tag + 1]
      data  == ReadBytes(r, at, size)
      Got(v, next) == [known |-> TRUE, panic |-> FALSE, arg |-> [tag |-> tag, v |-> v], at |-> next]
  IN IF tag = TAG.STR THEN Got(ReadBytes(r, text, len), AfterBytes(r, text, len))
     ELSE IF tag >= TAG_COUNT THEN
            [known |-> FALSE, panic |-> FALSE, arg |-> [tag |-> tag, v |-> 0], at |-> at]
     ELSE IF Len(data) # PrimitiveSize(tag) THEN
            [known |-> TRUE, panic |-> TRUE, arg |-> [tag |-> tag, v |-> 0], at |-> at]
     ELSE Got(CASE tag = TAG.BOOL -> data[1] # 0
                [] tag \in SignedTags -> FromLESigned(data)
                [] OTHER -> FromLE(data),
              at + size)

\* CapturedRecord's accessors: fixed offsets, zero when the bytes are short.
CapturedTotalSize(r) == ReadNum(r, 2, 2)
CapturedFlags(r)     == ReadNum(r, 5, 2)
CapturedTicks(r)     == ReadNum(r, 8, 8)
=============================================================================
