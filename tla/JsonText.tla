------------------------------ MODULE JsonText ------------------------------
(***************************************************************************)
(* api/JsonUtil.hpp: the text of JSON objects.  kv, kv_int and obj write   *)
(* it; SimpleParser finds values in it, without regard to its structure.   *)
(***************************************************************************)
EXTENDS Words

\* The characters escape treats, and the letter it writes for each of them.
EscapeOf == [quote |-> "quote", backslash |-> "backslash",
             newline |-> "n", return |-> "r", tab |-> "t"]

Escape(s) ==
  FlattenSeq([i \in DOMAIN s |->
    IF s[i] \in DOMAIN EscapeOf THEN <<"backslash", EscapeOf[s[i]]>> ELSE <<s[i]>>])

Quoted(s)      == <<"quote">> \o s \o <<"quote">>
Kv(key, val)   == Quoted(<<key>>) \o <<":">> \o Quoted(Escape(val))
KvInt(key, n)  == Quoted(<<key>>) \o <<":", Numeral(n)>>

Obj(fields) ==
  <<"{">> \o FlattenSeq([i \in DOMAIN fields |->
               IF i = 1 THEN fields[i] ELSE <<",">> \o fields[i]]) \o <<"}">>

-----------------------------------------------------------------------------
(* SimpleParser.  Positions count from 1; 0 is npos.                       *)

First(S) == IF S = {} THEN 0 ELSE Min(S)

KeyAt(body, key) ==
  First({i \in 1 .. Len(body) - 2 : SubSeq(body, i, i + 2) = Quoted(<<key>>)})

\* Mutant: the colon is looked for from the beginning of the body.
ValueAtFirstColon(body, key) ==
  LET colon == First({i \in DOMAIN body : body[i] = ":"})
  IN  IF KeyAt(body, key) = 0 \/ colon = 0 THEN 0 ELSE colon + 1

\* What follows the first colon after the first occurrence of the quoted key.
ValueAt(body, key) ==
  LET pos   == KeyAt(body, key)
      colon == First({i \in pos + 3 .. Len(body) : body[i] = ":"})
  IN  IF pos = 0 \/ colon = 0 THEN 0 ELSE colon + 1

\* Where the string that begins at start ends: the first quote that is not
\* skipped together with a backslash before it.
CloseOf(body, start) ==
  LET quote2[i \in 1 .. Len(body) + 2] ==
        IF i > Len(body) THEN 0
        ELSE IF body[i] = "backslash" THEN quote2[i + 2]
        ELSE IF body[i] = "quote" THEN i
        ELSE quote2[i + 1]
  IN  quote2[start]

\* Mutant: what is escaped stays escaped.
UnescapedKept(c) == <<"backslash", c>>

\* A backslash before any other symbol is kept.
Unescaped(c) ==
  IF \E e \in DOMAIN EscapeOf : EscapeOf[e] = c
  THEN <<CHOOSE e \in DOMAIN EscapeOf : EscapeOf[e] = c>>
  ELSE <<"backslash", c>>

Unescape(raw) ==
  LET out[i \in 1 .. Len(raw) + 1] ==
        IF i > Len(raw) THEN <<>>
        ELSE IF raw[i] = "backslash" /\ i < Len(raw)
             THEN Unescaped(raw[i + 1]) \o out[i + 2]
             ELSE <<raw[i]>> \o out[i + 1]
  IN  out[1]

\* The default of every get_str call is the empty string.
GetStr(body, key) ==
  LET at     == ValueAt(body, key)
      quote1 == First({i \in at .. Len(body) : body[i] = "quote"})
      quote2 == CloseOf(body, quote1 + 1)
  IN  IF at = 0 \/ quote1 = 0 \/ quote2 = 0 THEN <<>>
      ELSE Unescape(SubSeq(body, quote1 + 1, quote2 - 1))

GetInt(body, key, def) ==
  LET val == SubSeq(body, ValueAt(body, key), Len(body))
  IN  IF ValueAt(body, key) # 0 /\ StoiReads(val) THEN Value(val) ELSE def

=============================================================================
