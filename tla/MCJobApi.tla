------------------------------ MODULE MCJobApi ------------------------------
(* An instance of JobApi for TLC: ints of four bits, an hour of two        *)
(* minutes, and objects that differ in their order and in one member.      *)
EXTENDS ApiProperties, TLC

\* The numerals, named n5 for 5 and m5 for -5.
MCNumber == [m8 |-> -8, m7 |-> -7, m6 |-> -6, m5 |-> -5, m4 |-> -4, m3 |-> -3, m2 |-> -2, m1 |-> -1,
              n0 |-> 0, n1 |-> 1, n2 |-> 2, n3 |-> 3, n4 |-> 4, n5 |-> 5,
              n6 |-> 6, n7 |-> 7, n8 |-> 8, n9 |-> 9, n10 |-> 10]
MCLocal   == [m \in 0 .. MaxNow + Horizon |-> <<m % 2, m \div 2, 1, 1, 0>>]

Str(k, v) == [key |-> k, str |-> TRUE, val |-> v]
Int_(k, w) == [key |-> k, str |-> FALSE, val |-> <<w>>]

Schedules ==
  {<<"one_time", <<"n0">>>>, <<"one_time", <<"n1">>>>, <<"interval", <<"n0">>>>,
   <<"interval", <<"n9">>>>, <<"weekly", <<"n1">>>>,
   <<"cron", <<"*", "*", "*", "*">>>>, <<"cron", <<"n1", "*", "*", "*", "*", "x">>>>,
   <<"cron", <<"n0", "n1", "*", "*", "m1">>>>, <<"cron", <<"*", "n9", "*", "*", "*">>>>,
   <<"cron", <<"*", "*", "x", "*", "*">>>>}

Job(name, s, target) ==
  <<Str("name", name), Str("schedule_type", <<s[1]>>),
    Str("schedule_expr", s[2]), Str("execution_target", target)>>

\* One schedule of each kind, good and bad, and names to be escaped.
Jobs == {Job(<<"a">>, s, <<"x">>) : s \in Schedules}
          \cup {Job(<<>>, <<"interval", <<"n1">>>>, <<"x">>),
                Job(<<"a">>, <<"interval", <<"n1">>>>, <<>>),
                Job(<<"quote", "newline", "backslash">>, <<"interval", <<"n1">>>>, <<"x">>)}

\* Members in other orders, with integers, and strings that pose as keys.
Orders ==
  {<<Int_("max_retries", "n1"), o[4], o[3], Int_("retry_delay_seconds", "n3"), o[2], o[1]>> :
     o \in {Job(<<"a">>, <<"interval", <<"n2">>>>, <<"x">>),
            Job(<<"a">>, <<"interval", <<"n0">>>>, <<"name">>),
            Job(<<"a">>, <<"interval", <<"n0">>>>, <<"x", "quote", "schedule_type">>),
            Job(<<"max_retries">>, <<"interval", <<"n0">>>>, <<"backslash", ":">>)}}
Wrong == {<<Int_("schedule_expr", "n2"), Str("name", <<"a">>)>>,
          <<Str("name", <<"a">>), Int_("max_retries", "n2"), Str("name", <<"b">>),
            Str("max_retries", <<"x">>)>>,
          <<Str("max_retries", <<"n2">>), Int_("retry_delay_seconds", "n10")>>, <<>>}

MCObjects == Jobs \cup Orders \cup Wrong

=============================================================================
