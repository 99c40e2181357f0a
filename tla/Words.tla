-------------------------------- MODULE Words -------------------------------
(***************************************************************************)
(* Text, as the parsers of the program take it apart: a sequence of        *)
(* symbols.  A symbol is a punctuation character, a control character or a *)
(* word; the blanks between symbols, which every parser skips, are left    *)
(* out.  A word that begins with an integer is a numeral: std::stoi and    *)
(* std::stoll read the integer and ignore the rest of the text.            *)
(***************************************************************************)
EXTENDS Integers, SequencesExt

CONSTANTS
  Number,  \* the integer that each numeral begins with
  IntMax   \* the largest int

Int32 == -(IntMax + 1) .. IntMax

(***************************************************************************)
(* A numeral's integer fits the 64 bits of stoll, and std::to_string has a *)
(* numeral for every int.  A longer numeral is a word like any other, and  *)
(* no numeral begins with a character that is not part of a word.          *)
(***************************************************************************)
Punctuation == {"quote", "backslash", "newline", "return", "tab", "{", "}", ":", ","}

ASSUME WordsAssumption ==
  /\ IntMax \in Nat
  /\ Number \in [DOMAIN Number -> Int]
  /\ DOMAIN Number \subseteq STRING \ Punctuation
  /\ \A n \in Int32 : \E w \in DOMAIN Number : Number[w] = n

\* std::to_string
Numeral(n) == CHOOSE w \in DOMAIN Number : Number[w] = n

\* std::stoll and std::stoi do not throw on this text, and return Value(text).
StollReads(text) == text # <<>> /\ text[1] \in DOMAIN Number
StoiReads(text)  == StollReads(text) /\ Number[text[1]] \in Int32
Value(text)      == Number[text[1]]

\* static_cast<int> of a wider integer
ToInt(n) == ((n + IntMax + 1) % (2 * (IntMax + 1))) - (IntMax + 1)

=============================================================================
