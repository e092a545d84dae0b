------------------------------- MODULE MCCli -------------------------------
(* Small instances of Cli, and with it of Targets, for TLC. *)
EXTENDS Cli

P(name) == <<"{", name, "}">>
Slash == <<"/">>

\* Every field, compact and separated forms, fields next to digits, escaped braces,
\* a plain prefix, and texts that are refused
MCTexts ==
  {[bucket |-> "bucket", prefix |-> p] :
     p \in {P("yyyy") \o Slash \o P("MM") \o Slash \o P("dd") \o Slash,
            P("yy") \o P("MM"), P("M") \o P("dd"), P("d") \o <<"1">> \o P("H"),
            P("yyyy") \o Slash, P("M") \o Slash, P("dd") \o <<"T">> \o P("HH"),
            <<"{", "{", "a", "}", "}">> \o P("d") \o Slash,
            <<"a", "/">>, <<"{", "a">>, <<"a", "}">>, P("mm"), P("yyyy") \o <<"\n">>}}
    \cup {[bucket |-> "", prefix |-> <<"a">>]}

\* The ends of months and years, and what follows them, in a common and a leap year
MCInstants ==
  {24 * DayNumber(d[1], d[2], d[3]) + h :
     d \in {<<2023, 12, 31>>, <<2024, 1, 1>>, <<2024, 1, 31>>, <<2024, 2, 29>>, <<2024, 3, 1>>,
            <<2024, 3, 31>>, <<2024, 7, 31>>, <<2024, 10, 10>>, <<2025, 1, 30>>, <<2025, 3, 30>>},
     h \in {0, 23}}

MCZones == {-5, 0, 11}
MCNames == {<<>>, <<"f">>, <<"1">>, <<"2", "3">>, <<"\n">>}

\* What is written at midnight belongs to the period before.
MCLate(i) == IF i % 24 = 0 THEN 1 ELSE 0
MCWindows == {30, 1000}
=============================================================================
