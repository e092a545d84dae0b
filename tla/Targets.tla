------------------------------ MODULE Targets ------------------------------
(***************************************************************************)
(* Which prefixes a target stands for and which keys belong to it: date    *)
(* templates (template.rs), S3 URIs (uri.rs), and the places that resolve  *)
(* a target, the watcher (watcher.rs) and the CLI commands (app.rs).       *)
(*                                                                         *)
(* A text is a sequence of tokens: a brace, a digit, or a word, which is   *)
(* the name of a placeholder or literal text.  A moment of the local       *)
(* calendar is a number of hours; chrono's conversions between it and a    *)
(* date are external, and a zone is a fixed offset from UTC.               *)
(***************************************************************************)
EXTENDS Integers, Sequences, FiniteSets, SequencesExt

CONSTANTS
  Texts,      \* targets given by users: a bucket and the text of its prefix
  Zones,      \* offsets in hours, UTC among them
  Lookbacks,  \* values of lookback_periods
  Instants,   \* hours, in UTC, at which the system is looked at
  Names       \* what follows the prefix in the keys of objects

VARIABLES
  clock,    \* the hour, in UTC
  text,     \* the prefix of the target, as it was given
  zone, lookback

targetVars == <<clock, text, zone, lookback>>

-----------------------------------------------------------------------------
(* The calendar of chrono *)

IsLeap(year) == (year % 4 = 0 /\ year % 100 # 0) \/ year % 400 = 0

DaysInMonth(year, month) ==
  CASE month \in {4, 6, 9, 11} -> 30
    [] month = 2 -> IF IsLeap(year) THEN 29 ELSE 28
    [] OTHER -> 31

Lengths(year) == <<31, IF IsLeap(year) THEN 29 ELSE 28, 31, 30, 31, 30, 31, 31, 30, 31, 30, 31>>

DaysBefore(year) ==
  LET before == year - 1 IN 365 * before + before \div 4 - before \div 100 + before \div 400

DayNumber(year, month, day) ==
  DaysBefore(year) + SumFunctionOnSet(Lengths(year), 1..(month - 1)) + day

\* The years and periods meant are of our era, and four digits write a year.
ASSUME TargetsAssumption ==
  /\ Names \subseteq Seq(STRING) /\ \A t \in Texts : t.prefix \in Seq(STRING)
  /\ Zones \subseteq Int /\ 0 \in Zones /\ Lookbacks \subseteq Nat
  /\ Instants \subseteq Nat /\ Instants # {} /\ IsFiniteSet(Instants)
  /\ \A i \in Instants, z \in Zones, l \in Lookbacks :
       24 * 366 * (l + 2) <= i + z /\ i + z < 24 * (DaysBefore(10000) + 1)

\* The date of a moment
YearOf(number) ==
  CHOOSE y \in (number \div 366)..(number \div 365 + 1) :
    DaysBefore(y) < number /\ number <= DaysBefore(y + 1)
MonthOf(number, year) ==
  CHOOSE m \in 1..12 : LET day == number - DayNumber(year, m, 0) IN 1 <= day /\ day <= Lengths(year)[m]
DateOf(number, year, month) ==
  [year |-> year, month |-> month, day |-> number - DayNumber(year, month, 0)]
DayAt(number, year) == DateOf(number, year, MonthOf(number, year))
DateAt(hours) == DayAt(hours \div 24, YearOf(hours \div 24))
HourOf(hours) == hours % 24

\* The moment of a date at the time of day of another moment
OnDay(year, month, day, moment) == 24 * DayNumber(year, month, day) + HourOf(moment)

-----------------------------------------------------------------------------
(* Templates *)

Granularities == <<"year", "month", "day", "hour">>
Fields ==
  [yyyy |-> [unit |-> 1, widths |-> <<4>>],   yy |-> [unit |-> 1, widths |-> <<2>>],
   MM   |-> [unit |-> 2, widths |-> <<2>>],   M  |-> [unit |-> 2, widths |-> <<2, 1>>],
   dd   |-> [unit |-> 3, widths |-> <<2>>],   d  |-> [unit |-> 3, widths |-> <<2, 1>>],
   HH   |-> [unit |-> 4, widths |-> <<2>>],   H  |-> [unit |-> 4, widths |-> <<2, 1>>]]

Literal(word) == [literal |-> word]
Field(name) == [field |-> name]
IsField(segment) == "field" \in DOMAIN segment

Invalid == <<Field("invalid")>>

Prepend(segment, rest) == IF rest = Invalid THEN Invalid ELSE <<segment>> \o rest

\* The segments of a prefix from its token i on, given those from the later ones on:
\* a doubled brace is a literal one, a placeholder ends at the next closing brace.
ParsedFrom(prefix, i, later) ==
  LET doubled == i < Len(prefix) /\ prefix[i + 1] = prefix[i]
      close   == {j \in (i + 1)..Len(prefix) : prefix[j] = "}"}
      named   == close # {} /\ Min(close) = i + 2 /\ prefix[i + 1] \in DOMAIN Fields
  IN  CASE prefix[i] \in {"{", "}"} /\ doubled -> Prepend(Literal(prefix[i]), later[i + 2])
        [] prefix[i] = "{" /\ ~doubled /\ named -> Prepend(Field(prefix[i + 1]), later[i + 3])
        [] prefix[i] \notin {"{", "}"} -> Prepend(Literal(prefix[i]), later[i + 1])
        [] OTHER -> Invalid

\* DateTemplate::parse: the segments of a prefix, or Invalid
Segments(prefix) ==
  LET from[i \in 1..(Len(prefix) + 1)] ==
        IF i > Len(prefix) THEN <<>> ELSE ParsedFrom(prefix, i, from)
  IN  from[1]

IsTemplate(segments) == segments # Invalid /\ \E k \in DOMAIN segments : IsField(segments[k])

\* The finest unit of the fields
Granularity(segments) ==
  Granularities[Max({Fields[segments[k].field].unit : k \in {j \in DOMAIN segments : IsField(segments[j])}})]

Digit == <<"0", "1", "2", "3", "4", "5", "6", "7", "8", "9">>
Digits == ToSet(Digit)

Numeral(value, width) ==
  [i \in 1..width |-> Digit[((value \div <<1, 10, 100, 1000>>[width + 1 - i]) % 10) + 1]]
Unpadded(value) == Numeral(value, IF value < 10 THEN 1 ELSE 2)

\* Field::render
RenderField(name, date, hour) ==
  CASE name = "yyyy" -> Numeral(date.year, 4)
    [] name = "yy" -> Numeral(date.year % 100, 2)
    [] name = "MM" -> Numeral(date.month, 2) [] name = "M" -> Unpadded(date.month)
    [] name = "dd" -> Numeral(date.day, 2)   [] name = "d" -> Unpadded(date.day)
    [] name = "HH" -> Numeral(hour, 2)       [] name = "H" -> Unpadded(hour)

Render(segments, moment) ==
  FlattenSeq([k \in DOMAIN segments |->
                IF IsField(segments[k])
                THEN RenderField(segments[k].field, DateAt(moment), HourOf(moment))
                ELSE <<segments[k].literal>>])

\* A date that does not exist leaves the moment where it was (unwrap_or).
Naive(year, month, day, moment) ==
  IF day <= Lengths(year)[month] THEN OnDay(year, month, day, moment) ELSE moment

ClampedDay_AsItWas(day, year, month) == day

\* Stepping back from the 31st into a shorter month stays inside that month.
ClampedDay(day, year, month) == Min({day, DaysInMonth(year, month)})

SameDay(day, year, month, moment) ==
  Naive(year, month, ClampedDay(day, year, month), moment)

SameDayBack(date, months, moment) ==
  SameDay(date.day, (12 * date.year + date.month - 1 - months) \div 12,
          ((12 * date.year + date.month - 1 - months) % 12) + 1, moment)

StepBack(granularity, moment, steps) ==
  CASE granularity = "hour"  -> moment - steps
    [] granularity = "day"   -> moment - 24 * steps
    [] granularity = "month" -> SameDayBack(DateAt(moment), steps, moment)
    [] granularity = "year"  -> SameDayBack(DateAt(moment), 12 * steps, moment)

\* The elements of a list, each at its first place only
EachOnce(list) ==
  FlattenSeq([i \in DOMAIN list |->
                IF \E j \in 1..(i - 1) : list[j] = list[i] THEN <<>> ELSE <<list[i]>>])

\* DateTemplate::resolve: newest first, each prefix once
Resolve(segments, instant, periods, offset) ==
  EachOnce([i \in 1..(periods + 1) |->
              Render(segments, StepBack(Granularity(segments), instant + offset, i - 1))])

\* The places of a key from which a field may be read, and where it then ends
FieldEnds(name, key, i) ==
  {i + width : width \in {w \in ToSet(Fields[name].widths) :
                            i + w <= Len(key) + 1 /\ \A j \in i..(i + w - 1) : key[j] \in Digits}}

MatchingFrom_FirstWidth(segment, key, later) ==
  IF IsField(segment)
  THEN {i \in 1..(Len(key) + 1) :
          /\ FieldEnds(segment.field, key, i) # {}
          /\ Max(FieldEnds(segment.field, key, i)) \in later}
  ELSE {i \in 1..Len(key) : key[i] = segment.literal /\ i + 1 \in later}

\* The places of a key from which a segment and all later ones match, given those
\* from which the later ones do: every width a field may have is tried.
MatchingFrom(segment, key, later) ==
  IF IsField(segment)
  THEN {i \in 1..(Len(key) + 1) : FieldEnds(segment.field, key, i) \cap later # {}}
  ELSE {i \in 1..Len(key) : key[i] = segment.literal /\ i + 1 \in later}

\* matches_segments: the key's end is free.
Matches(segments, key) ==
  LET from[k \in 1..(Len(segments) + 1)] ==
        IF k > Len(segments) THEN 1..(Len(key) + 1)
        ELSE MatchingFrom(segments[k], key, from[k + 1])
  IN  1 \in from[1]

-----------------------------------------------------------------------------
(* URIs and the users of templates *)

\* S3Uri::validate: of the texts here only the empty word and a control character
\* are refused in a bucket, and a control character in a key.
Control == "\n"
ValidUri(bucket, key) == bucket \notin {"", Control} /\ Control \notin ToSet(key)

\* PollingWatcher::resolve_targets; a prefix without placeholders is listed as it
\* was written.
Resolved(segments, prefix, instant, periods, offset) ==
  IF IsTemplate(segments) THEN Resolve(segments, instant, periods, offset) ELSE <<prefix>>

ResolveTargets(prefix, instant, periods, offset) ==
  Resolved(Segments(prefix), prefix, instant, periods, offset)

\* What a CLI command lists: stats and watch build a watcher without a time zone,
\* whatever --timezone says.
CommandTargets(command, prefix, instant, periods, offset) ==
  ResolveTargets(prefix, instant, periods,
                 IF command \in {"list", "history"} THEN offset ELSE 0)

\* key_within_target, then S3Uri::for_object
Downloadable(prefix, bucket, key) ==
  /\ IF IsTemplate(Segments(prefix)) THEN Matches(Segments(prefix), key)
                                     ELSE IsPrefix(prefix, key)
  /\ ValidUri(bucket, key)

-----------------------------------------------------------------------------
(* A target, and the clock *)

TargetInit ==
  /\ text \in {t.prefix : t \in {u \in Texts : ValidUri(u.bucket, u.prefix)}}
  /\ Segments(text) # Invalid
  /\ zone \in Zones /\ lookback \in Lookbacks
  /\ clock = Min(Instants)

\* The next instant at which it is polled
Pass ==
  /\ clock # Max(Instants)
  /\ clock' = Min({i \in Instants : i > clock})
  /\ UNCHANGED <<text, zone, lookback>>

-----------------------------------------------------------------------------
(* Properties *)

\* The periods of a granularity are numbered; this is the number of a moment, and
\* the first moment of a period.
Period(granularity, moment) ==
  CASE granularity = "hour"  -> moment
    [] granularity = "day"   -> moment \div 24
    [] granularity = "month" -> 12 * DateAt(moment).year + DateAt(moment).month - 1
    [] granularity = "year"  -> DateAt(moment).year

FirstMoment(granularity, period) ==
  CASE granularity = "hour"  -> period
    [] granularity = "day"   -> 24 * period
    [] granularity = "month" -> 24 * DayNumber(period \div 12, (period % 12) + 1, 1)
    [] granularity = "year"  -> 24 * DayNumber(period, 1, 1)

Resolves(prefixes, segments, unit) ==
  LET Wanted(i) == Render(segments, FirstMoment(unit, Period(unit, clock + zone) - i))
  IN  /\ ToSet(prefixes) = {Wanted(i) : i \in 0..lookback}
      /\ prefixes[1] = Wanted(0) /\ IsInjective(prefixes)

\* Whatever the date, a template is resolved to the current period of the zone and
\* the ones just before it, none left out, none after, the current one first.
ResolvesThePeriods ==
  IsTemplate(Segments(text)) =>
    Resolves(ResolveTargets(text, clock, lookback, zone), Segments(text), Granularity(Segments(text)))

\* An object listed at any time can be downloaded, also when its period is no
\* longer looked back to, as long as its key has no control character.
ListedIsDownloadable ==
  \A prefix \in ToSet(ResolveTargets(text, clock, lookback, zone)), suffix \in Names :
    Control \notin ToSet(suffix) => Downloadable(text, "bucket", prefix \o suffix)
=============================================================================
