----------------------------- MODULE Timestamp ------------------------------
(***************************************************************************)
(* timestamp.rs: from ticks of the hardware counter to the date and time    *)
(* of day that a line shows.                                                *)
(*                                                                          *)
(* The units of time are constants, so that several centuries fit TLC's     *)
(* integers; the calendar is the real one.  The ratio of nanoseconds to     *)
(* ticks, a float in the code, is a pair of integers here.                  *)
(***************************************************************************)
EXTENDS Integers, Sequences

CONSTANTS
  NANOS_PER_SEC,   \* 10^9 in the code
  SecsPerMinute,   \* 60
  MinutesPerHour,  \* 60
  HoursPerDay,     \* 24
  CounterMod       \* the counter wraps here: 2^64

ASSUME TimeAssumption ==
  {NANOS_PER_SEC, SecsPerMinute, MinutesPerHour, HoursPerDay, CounterMod} \subseteq Nat \ {0}

SecsPerHour  == SecsPerMinute * MinutesPerHour
SECS_PER_DAY == SecsPerHour * HoursPerDay

\* Rust's `/` on signed integers truncates towards zero.
Quot(a, b) == IF a >= 0 THEN a \div b ELSE 0 - ((0 - a) \div b)

-----------------------------------------------------------------------------
(* Calibration.                                                             *)

FALLBACK_COUNTER_HZ == NANOS_PER_SEC

\* tsc_freq_from_cpuid_0x15: 0 stands for None.
tsc_freq_from_cpuid(denominator, numerator, crystal_hz) ==
  IF 0 \in {denominator, numerator, crystal_hz} THEN 0
  ELSE (crystal_hz * numerator) \div denominator

\* timing_calibrate_frequency: ticks and nanoseconds over the same sleep.
timing_calibrate_frequency(tick_delta, wall_delta_ns) ==
  IF wall_delta_ns < 1 THEN FALLBACK_COUNTER_HZ
  ELSE (tick_delta * NANOS_PER_SEC) \div wall_delta_ns

\* counter_frequency on x86_64: the enumerated ratio, else the measurement.
counter_frequency(cpuid, tick_delta, wall_delta_ns) ==
  LET enumerated == tsc_freq_from_cpuid(cpuid[1], cpuid[2], cpuid[3])
  IN IF enumerated # 0 THEN enumerated
     ELSE timing_calibrate_frequency(tick_delta, wall_delta_ns)

\* calibrate: nanoseconds per tick as the ratio num/den; a frequency of zero
\* is replaced before the division.
calibrate(freq, wall_base_ns, counter_base) ==
  [num |-> NANOS_PER_SEC, den |-> IF freq = 0 THEN FALLBACK_COUNTER_HZ ELSE freq,
   counter_base |-> counter_base, wall_base_ns |-> wall_base_ns]

\* ticks_to_ns: the distance from the base is taken modulo the counter.
ticks_to_ns(tick, calib) ==
  (((tick - calib.counter_base) % CounterMod) * calib.num) \div calib.den + calib.wall_base_ns

-----------------------------------------------------------------------------
(* Civil time.                                                              *)

YearOfEra_NoCenturies(doe) == (doe - doe \div 1460) \div 365

\* The year of the 400-year era to which a day of the era belongs.
YearOfEra(doe) == (doe - doe \div 1460 + doe \div 36524 - doe \div 146096) \div 365

\* civil_from_days: days since 1970-01-01 to a date of the Gregorian calendar.
civil_from_days(days) ==
  LET z   == days + 719468
      era == Quot(IF z >= 0 THEN z ELSE z - 146096, 146097)
      doe == z - era * 146097
      yoe == YearOfEra(doe)
      doy == doe - (365 * yoe + yoe \div 4 - yoe \div 100)
      mp  == (5 * doy + 2) \div 153
      m   == IF mp < 10 THEN mp + 3 ELSE mp - 9
  IN [year  |-> yoe + era * 400 + (IF m <= 2 THEN 1 ELSE 0), month |-> m,
      day   |-> doy - (153 * mp + 2) \div 5 + 1]

\* time_from_ns
time_from_ns(ns) ==
  LET secs == ns \div NANOS_PER_SEC
  IN [hour |-> secs \div SecsPerHour, min |-> (secs % SecsPerHour) \div SecsPerMinute,
      sec |-> secs % SecsPerMinute, nanos |-> ns % NANOS_PER_SEC]

\* format_iso8601: the fields it writes, the year in four digits; the zone
\* is "Z", or a sign with hours and minutes.  `\div` and `%` are div_euclid
\* and rem_euclid.
format_iso8601(ns, tz) ==
  LET local == ns + tz * NANOS_PER_SEC
      abs   == IF tz < 0 THEN 0 - tz ELSE tz
      perDay == NANOS_PER_SEC * SECS_PER_DAY
      date  == civil_from_days(local \div perDay)
  IN [date |-> [date EXCEPT !.year = @ % 10000],
      time |-> time_from_ns(local % perDay),
      zone |-> IF tz = 0 THEN <<"Z">>
               ELSE <<IF tz < 0 THEN "-" ELSE "+", abs \div SecsPerHour,
                      (abs % SecsPerHour) \div SecsPerMinute>>]
=============================================================================
