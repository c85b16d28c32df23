------------------------------- MODULE Lexer -------------------------------
(***************************************************************************)
(* lib/Display, lib/Lex and the parser's LexAllTokens: bytes become        *)
(* display characters, a reader walks them with its line and column, the   *)
(* lexer cuts them into tokens that carry their extent in 16-bit fields,   *)
(* and the parser repairs or drops the invalid ones.                       *)
(*                                                                         *)
(* A character is a class: "0", "1", "7" and "8" for the digits 0, 1, 2-7  *)
(* and 8-9, "a" the hexadecimal letters but b, "n" the other letters that  *)
(* are string escapes, "z" the rest, "Z" a capital, "(" punctuation that   *)
(* is a token by itself, "$" a stop character that starts no token, "bad"  *)
(* one that may not be displayed, "tag" a language at the start of code.   *)
(***************************************************************************)
EXTENDS Naturals, Integers, Sequences, SequencesExt, FiniteSets, FiniteSetsExt

CONSTANTS
    Texts,      \* the files that are read, as sequences of characters
    Reserved,   \* words that are keywords, types, directives or pragmas
    Width,      \* one more than the largest value of a 16-bit field
    TabSpaces,  \* num_spaces_in_tab, with tab stops
    WayPoint    \* kWayPointIndex

FieldsFit == \A t \in Texts : TabSpaces * Len(t) < Width

Digit == {"0", "1", "7", "8"}
Hex == Digit \cup {"a", "b"}
Letter == {"a", "b", "n", "x", "z", "Z", "tag"}
Alnum == Letter \cup Digit
kStopChars == {"sp", "cr", "tab", "nl", ".", "(", "!", "#", "semi", "=", "$", "bslash", "quote",
               "tick", "@", "_"}

(***************************************************************************)
(* The display.  Carriage returns are dropped, tabs become spaces up to    *)
(* the next stop, and a character that may not be displayed ends the data  *)
(* with an error that outlives the reading.                                *)
(***************************************************************************)
Put(acc, ch, column) ==
    [acc EXCEPT !.data = Append(@, ch),
                !.way = IF Len(acc.data) % WayPoint = 0
                        THEN Append(@, [index |-> Len(acc.data), line |-> acc.line, column |-> column,
                                        tab |-> column # acc.column])
                        ELSE @]

(* The spaces of a tab are put with the column behind them. *)
PutTab(acc) ==
    LET column == ((acc.column + TabSpaces) \div TabSpaces) * TabSpaces
    IN [FoldLeft(LAMBDA a, i : Put(a, "sp", column), acc, [i \in 1 .. column - acc.column |-> i])
            EXCEPT !.column = column]

Display(text) ==
    LET bad == {i \in DOMAIN text : text[i] = "bad"}
        shown == IF bad = {} THEN text ELSE SubSeq(text, 1, Min(bad) - 1)
    IN FoldLeft(LAMBDA acc, ch :
                  CASE ch = "cr" -> acc
                    [] ch = "nl" -> [Put(acc, ch, acc.column) EXCEPT !.line = @ + 1, !.column = 1]
                    [] ch = "tab" -> PutTab(acc)
                    [] OTHER -> [Put(acc, ch, acc.column) EXCEPT !.column = @ + 1],
                [data |-> <<>>, way |-> <<>>, line |-> 1, column |-> 1, failed |-> bad # {}], shown)

NoPosition == [index |-> 0, line |-> 0, column |-> 0]

(* A position: the index of the next character, its line and its column. *)
TryReadChar(data, pos) ==
    IF data[pos.index + 1] = "nl"
    THEN [index |-> pos.index + 1, line |-> pos.line + 1, column |-> 1]
    ELSE [index |-> pos.index + 1, line |-> pos.line, column |-> pos.column + 1]

UnreadCharSameLine(data, pos) ==
    [index |-> pos.index - 1, line |-> pos.line, column |-> pos.column - 1]

(* Back over a line's end the column is counted again from that line. *)
UnreadChar(data, pos) ==
    LET i == pos.index - 1
        before == {k \in 1 .. i : data[k] = "nl"}
    IN IF data[pos.index] = "nl"
       THEN [index |-> i, line |-> pos.line - 1,
             column |-> 1 + i - (IF before = {} THEN 0 ELSE Max(before))]
       ELSE [index |-> i, line |-> pos.line, column |-> pos.column - 1]

ReadTo(data, pos, index) ==
    FoldLeft(LAMBDA p, k : TryReadChar(data, p), pos, [k \in 1 .. index - pos.index |-> k])

(* From the last waypoint on, the lines and columns are counted again. *)
TryGetPosition(display, index) ==
    LET w == display.way[(index \div WayPoint) + 1]
    IN IF index < Len(display.data)
       THEN ReadTo(display.data, [index |-> w.index, line |-> w.line, column |-> w.column], index)
       ELSE NoPosition

WithinLine(pos, n) == -n < pos.column

TryDisplacePosition(display, pos, n) ==
    LET to == pos.index + n
        last == TryGetPosition(display, to - 1)
    IN CASE n = 0 -> pos
         [] n > 0 /\ to < Len(display.data) -> TryGetPosition(display, to)
         [] n > 0 /\ to = Len(display.data) -> [last EXCEPT !.index = to, !.column = @ + 1]
         [] n < 0 /\ to = 0 -> [index |-> 0, line |-> 1, column |-> 1]
         [] n < 0 /\ to > 0 /\ WithinLine(pos, n) ->
              [pos EXCEPT !.index = to, !.column = @ + n]
         [] n < 0 /\ to > 0 /\ ~WithinLine(pos, n) -> TryGetPosition(display, to)
         [] OTHER -> NoPosition

(* accumulate_if: read while accepted, and unread the character that is    *)
(* not.                                                                    *)
StopAt(data, from, accepted) ==
    LET stops == {i \in from .. Len(data) : data[i] \notin accepted}
    IN IF stops = {} THEN Len(data) ELSE Min(stops) - 1

(* The next n characters, if there are as many, are read and put back.      *)
Unread(data, pos, n) ==
    LET ahead == Min({pos.index + n, Len(data)})
    IN FoldLeft(LAMBDA p, k : UnreadChar(data, p), ReadTo(data, pos, ahead),
                [k \in 1 .. ahead - pos.index |-> k])

(***************************************************************************)
(* String literals: the characters and the escapes up to the closing       *)
(* quote.  After the first error nothing is kept, but the quote is still   *)
(* looked for.                                                             *)
(***************************************************************************)
Escapes == {"a", "n", "0", "quote"}
Escaped == [a |-> "alert", n |-> "line", quote |-> "quote"]

StringEscape(acc, ch) ==
    [acc EXCEPT !.end = @ + 1, !.esc = FALSE,
                !.data = IF ch \in Escapes THEN Append(@, IF ch = "0" THEN "nul" ELSE Escaped[ch])
                         ELSE @,
                !.bad = IF @ = "no" /\ ch \notin Escapes THEN "escape" ELSE @,
                !.at = IF acc.bad = "no" /\ ch \notin Escapes THEN acc.end + 1 ELSE @]

StringChar(acc, ch) ==
    CASE acc.done -> acc
      [] ~acc.done /\ ch = "nl" ->
           [acc EXCEPT !.end = @ + 1, !.bad = IF @ = "no" THEN "newline" ELSE @,
                       !.at = IF acc.bad = "no" THEN acc.end + 1 ELSE @]
      [] ~acc.done /\ ch = "bslash" ->
           [acc EXCEPT !.end = @ + 1, !.esc = ~@,
                       !.data = IF acc.esc THEN Append(@, "bslash") ELSE @]
      [] ~acc.done /\ acc.esc /\ ch \notin {"nl", "bslash"} ->
           StringEscape(acc, ch)
      [] ~acc.done /\ ~acc.esc /\ ch = "quote" -> [acc EXCEPT !.end = @ + 1, !.done = TRUE]
      [] OTHER -> [acc EXCEPT !.end = @ + 1, !.data = Append(@, ch)]

StringLiteral(data, i) ==
    LET s == FoldLeft(LAMBDA acc, ch : StringChar(acc, ch),
                      [end |-> i, at |-> i, data |-> <<>>, esc |-> FALSE, bad |-> "no",
                       done |-> FALSE],
                      SubSeq(data, i + 1, Len(data)))
    IN CASE s.bad = "newline" -> [lexeme |-> "kInvalidNewLineInString", end |-> s.end, err |-> s.at + 1, data |-> <<>>]
         [] s.bad = "escape" -> [lexeme |-> "kInvalidEscapeInString", end |-> s.end, err |-> s.at + 1, data |-> <<>>]
         [] s.bad = "no" /\ ~s.done ->
              [lexeme |-> "kInvalidUnterminatedString", end |-> s.end, err |-> s.end + 1, data |-> <<>>]
         [] OTHER -> [lexeme |-> "kLiteralString", end |-> s.end, err |-> 0, data |-> s.data]

(* Code between three backquotes.  A backquote that does not end the code  *)
(* is dropped with the one that follows it, if any; what comes after them  *)
(* is kept.                                                                *)
CodeChar(acc, ch) ==
    IF acc.ticks = 3 THEN acc
    ELSE IF ch = "tick" THEN [acc EXCEPT !.end = @ + 1, !.ticks = @ + 1]
    ELSE [acc EXCEPT !.end = @ + 1, !.ticks = 0, !.data = Append(@, ch)]

CodeLiteral(data, i) ==
    LET fence == StopAt(data, i, {"tick"})
        c == FoldLeft(LAMBDA acc, ch : CodeChar(acc, ch),
                      [end |-> i + 2, ticks |-> 0, data |-> <<>>],
                      SubSeq(data, i + 3, Len(data)))
        broken == Min({fence + 1, Len(data)})
    IN CASE fence < i + 2 ->
              [lexeme |-> "kInvalidUnterminatedCode", end |-> broken, err |-> broken + 1, data |-> <<>>]
         [] fence >= i + 2 /\ c.ticks # 3 ->
              [lexeme |-> "kInvalidUnterminatedCode", end |-> c.end, err |-> c.end + 1, data |-> <<>>]
         [] fence >= i + 2 /\ c.ticks = 3 /\ c.data # <<>> /\ c.data[1] = "tag" ->
              [lexeme |-> "kLiteralCxxCode", end |-> c.end, err |-> 0, data |-> Tail(c.data)]
         [] OTHER -> [lexeme |-> "kLiteralCode", end |-> c.end, err |-> 0, data |-> c.data]

(***************************************************************************)
(* Numbers: the digits and letters that follow, then the form is decided   *)
(* from the first two.                                                     *)
(***************************************************************************)
BadNumber(lexeme, end, err) == [lexeme |-> lexeme, end |-> end, err |-> err, data |-> <<>>]
Number(end) == [lexeme |-> "kLiteralNumber", end |-> end, err |-> 0, data |-> <<>>]

FirstNot(data, from, end, S) ==
    LET others == {k \in from .. end : data[k] \notin S} IN IF others = {} THEN 0 ELSE Min(others)

PrefixedNumber(data, i, end) ==
    LET n == end - i + 1
        second == data[i + 1]
        hex == FirstNot(data, i + 2, end, Hex)
        bin == FirstNot(data, i + 2, end, {"0", "1"})
        oct == IF second = "0" THEN i + 1 ELSE FirstNot(data, i + 1, end, {"0", "1", "7"})
    IN CASE n = 2 -> IF second \in {"1", "7"} THEN Number(end)
                     ELSE BadNumber("kInvalidOctalNumber", end, i + 1)
         [] n > 2 /\ second = "x" -> IF hex = 0 THEN Number(end)
                                     ELSE BadNumber("kInvalidHexadecimalNumber", end, hex)
         [] n > 2 /\ second = "b" -> IF bin = 0 THEN Number(end)
                                     ELSE BadNumber("kInvalidBinaryNumber", end, bin)
         [] OTHER -> IF oct = 0 THEN Number(end) ELSE BadNumber("kInvalidOctalNumber", end, oct)

(* A decimal number may have a fraction; a period without one is unread,    *)
(* and what follows it as well.                                            *)
DecimalNumber(data, i, end) ==
    LET fraction == IF end + 2 <= Len(data) /\ data[end + 1] = "." /\ data[end + 2] \in Digit
                    THEN StopAt(data, end + 2, Digit) ELSE 0
        attached == StopAt(data, fraction + 1, Alnum)
    IN CASE fraction = 0 -> Number(end)
         [] fraction # 0 /\ attached > fraction -> BadNumber("kInvalidNumber", attached, fraction + 1)
         [] OTHER -> Number(fraction)

Unfinished(data, i, end) ==
    /\ data[i] \in Digit \ {"0"} /\ \A k \in i .. end : data[k] \in Digit
    /\ end < Len(data) /\ data[end + 1] = "."

NumberLiteral(data, i) ==
    LET end == StopAt(data, i, Hex \cup {"x"})
        attached == StopAt(data, end + 1, Alnum)
        letter == FirstNot(data, i, end, Digit)
    IN CASE attached > end -> BadNumber("kInvalidNumber", attached, end + 1)
         [] attached = end /\ data[i] = "0" ->
              IF end = i THEN Number(end) ELSE PrefixedNumber(data, i, end)
         [] attached = end /\ data[i] # "0" /\ letter = 0 -> DecimalNumber(data, i, end)
         [] OTHER -> BadNumber("kInvalidNumber", end, letter)

(***************************************************************************)
(* TryGetNextToken from character i on: the lexeme, the last character,    *)
(* and the one an error is about.                                          *)
(***************************************************************************)
Token(lexeme, data, i, end) ==
    [lexeme |-> lexeme, end |-> end, err |-> 0, data |-> SubSeq(data, i, end)]

Word(data, i) ==
    LET end == StopAt(data, i + 1, Alnum \cup {"_"})
        word == SubSeq(data, i, end)
        plain == CASE data[i] = "_" -> "kIdentifierUnnamedVariable"
                   [] data[i] = "Z" -> "kIdentifierVariable"
                   [] data[i] = "#" -> "kInvalidDirective"
                   [] OTHER -> "kIdentifierAtom"
    IN [Token(IF word \in Reserved THEN "kKeyword" ELSE plain, data, i, end) EXCEPT !.err = i + 1]

Pragma(data, i) ==
    LET end == StopAt(data, i + 1, Alnum)
    IN [Token(IF SubSeq(data, i, end) \in Reserved THEN "kPragma" ELSE "kInvalidPragma", data, i, end)
            EXCEPT !.err = i + 1]

TryGetNextToken(data, i) ==
    LET ch == data[i]
    IN CASE ch \in {"sp", "nl"} -> Token("kWhitespace", data, i, StopAt(data, i, {"sp", "nl"}))
         [] ch \in {"(", ".", "="} -> Token("kPunc", data, i, i)
         [] ch = "!" -> Token("kPunc", data, i, IF i < Len(data) /\ data[i + 1] = "=" THEN i + 1 ELSE i)
         [] ch = "tick" -> CodeLiteral(data, i)
         [] ch = "quote" -> StringLiteral(data, i)
         [] ch = "@" -> Pragma(data, i)
         [] ch \in Letter \cup {"_", "#"} -> Word(data, i)
         [] ch \in Digit -> NumberLiteral(data, i)
         [] ch = "semi" -> Token("kComment", data, i, StopAt(data, i, (Alnum \cup kStopChars) \ {"nl"}))
         [] OTHER -> [Token("kInvalidUnknown", data, i, i) EXCEPT !.err = i]

(***************************************************************************)
(* A token's fields hold displacements from its position; NextPosition     *)
(* adds them up again.                                                     *)
(***************************************************************************)
Field(n) == n % Width

Invalid == {"kInvalidNewLineInString", "kInvalidEscapeInString", "kInvalidUnterminatedString",
            "kInvalidUnterminatedCode", "kInvalidNumber", "kInvalidOctalNumber",
            "kInvalidHexadecimalNumber", "kInvalidBinaryNumber", "kInvalidDirective",
            "kInvalidPragma", "kInvalidUnknown", "kInvalidStreamOrDisplay"}
Extended == Invalid \cup {"kWhitespace", "kLiteralCode", "kLiteralCxxCode"}

Peeked == {"kWhitespace", "kKeyword", "kPragma", "kComment", "kLiteralNumber", "kInvalidNumber",
           "kInvalidOctalNumber", "kInvalidHexadecimalNumber", "kInvalidBinaryNumber",
           "kInvalidDirective", "kInvalidPragma", "kIdentifierAtom", "kIdentifierVariable",
           "kIdentifierUnnamedVariable"}

(* How many characters behind the token are read before it is known. *)
ReadAhead(data, i, tok) ==
    IF Unfinished(data, i, tok.end) THEN 2
    ELSE IF tok.lexeme \in Peeked \/ data[tok.end] = "!" THEN 1 ELSE 0

Placed(tok, from, after) ==
    [lexeme |-> tok.lexeme, position |-> from, data |-> tok.data, err |-> tok.err,
     disp |-> IF tok.lexeme \in Extended
              THEN [index |-> Field(after.index - from.index), line |-> Field(after.line - from.line),
                    column |-> Field(after.column)]
              ELSE [index |-> Field(after.index - from.index), line |-> 0, column |-> 0]]

NextPosition(tok) ==
    [index |-> tok.position.index + tok.disp.index, line |-> tok.position.line + tok.disp.line,
     column |-> IF tok.lexeme \in Extended THEN tok.disp.column
                ELSE tok.position.column + tok.disp.index]

(***************************************************************************)
(* The pool of strings: a string is found anywhere a NUL follows it, and   *)
(* appended otherwise.  A name's id is its place in the pool.              *)
(***************************************************************************)
Pool0 == <<"nul", "_", "nul", "z", "x", "nul">>

Occurrences(pool, s) ==
    {p \in 2 .. Len(pool) - Len(s) : SubSeq(pool, p, p + Len(s) - 1) = s /\ pool[p + Len(s)] = "nul"}

InternStringAnywhere(pool, s) ==
    LET found == {p \in 2 .. Len(pool) - Len(s) : SubSeq(pool, p, p + Len(s) - 1) = s}
    IN IF found # {} THEN [pool |-> pool, id |-> Min(found)]
       ELSE [pool |-> (pool \o s) \o <<"nul">>, id |-> Len(pool) + 1]

InternString(pool, s) ==
    LET found == Occurrences(pool, s)
    IN IF found # {} THEN [pool |-> pool, id |-> Min(found)]
       ELSE [pool |-> (pool \o s) \o <<"nul">>, id |-> Len(pool) + 1]

TryReadString(pool, id, len) == SubSeq(pool, id, id + len - 1)

Interned == {"kIdentifierAtom", "kIdentifierVariable", "kIdentifierUnnamedVariable", "kLiteralString"}

(***************************************************************************)
(* LexAllTokens: invalid tokens are reported and repaired, or the rest of  *)
(* the line is ignored.                                                    *)
(***************************************************************************)
VARIABLES display, reader, lexed, pool, ids, tokens, ignore_line, prev_pos, errors, done
vars == <<display, reader, lexed, pool, ids, tokens, ignore_line, prev_pos, errors, done>>

data == display.data

Repaired == [kInvalidNumber |-> "kLiteralNumber", kInvalidOctalNumber |-> "kLiteralNumber",
             kInvalidHexadecimalNumber |-> "kLiteralNumber", kInvalidBinaryNumber |-> "kLiteralNumber",
             kInvalidNewLineInString |-> "kLiteralString", kInvalidEscapeInString |-> "kLiteralString",
             kInvalidStreamOrDisplay |-> "kEndOfFile"]
SkipsLine == {"kInvalidDirective", "kInvalidUnterminatedString", "kInvalidUnterminatedCode"}

Init ==
    /\ display \in {Display(text) : text \in Texts}
    /\ reader = [index |-> 0, line |-> 1, column |-> 1]
    /\ pool = Pool0 /\ ids = {}
    /\ lexed = <<>> /\ tokens = <<>>
    /\ ignore_line = FALSE /\ prev_pos = NoPosition /\ errors = 0 /\ done = FALSE

Report(lexeme) ==
    LET skip == ignore_line \/ lexeme \in SkipsLine
        kept == CASE lexeme \in DOMAIN Repaired -> Repaired[lexeme] [] OTHER -> lexeme
    IN /\ errors' = errors + 1
       /\ ignore_line' = skip
       /\ tokens' = IF skip THEN tokens ELSE Append(tokens, kept)
       /\ UNCHANGED prev_pos

Drop(lexeme) ==
    /\ tokens' = IF lexeme = "kInvalidUnknown" THEN Append(tokens, lexeme) ELSE tokens
    /\ UNCHANGED <<errors, ignore_line, prev_pos>>

Ignore(tok) ==
    LET next_line == prev_pos.line # 0 /\ NextPosition(tok).line # prev_pos.line
    IN /\ ignore_line' = ~next_line
       /\ tokens' = IF next_line THEN Append(tokens, tok.lexeme) ELSE tokens
       /\ UNCHANGED <<errors, prev_pos>>

Keep(tok) ==
    /\ tokens' = Append(tokens, tok.lexeme)
    /\ prev_pos' = tok.position
    /\ UNCHANGED <<errors, ignore_line>>

Filter(tok) ==
    \/ /\ tok.lexeme \in Invalid
       /\ tok.lexeme \in {"kInvalidPragma", "kInvalidUnknown"} => ignore_line
       /\ Report(tok.lexeme)
    \/ tok.lexeme \in {"kInvalidPragma", "kInvalidUnknown"} /\ ~ignore_line /\ Drop(tok.lexeme)
    \/ tok.lexeme \notin Invalid /\ ignore_line /\ Ignore(tok)
    \/ tok.lexeme \notin Invalid /\ ~ignore_line /\ Keep(tok)

Lex ==
    /\ ~done /\ reader.index < Len(data)
    /\ LET tok == TryGetNextToken(data, reader.index + 1)
           end == ReadTo(data, reader, tok.end)
           after == Unread(data, end, ReadAhead(data, reader.index + 1, tok))
           placed == Placed(tok, reader, after)
           s == InternString(pool, tok.data)
       IN /\ reader' = after
          /\ lexed' = Append(lexed, placed)
          /\ IF tok.lexeme \in Interned
             THEN pool' = s.pool /\ ids' = ids \cup {[lexeme |-> tok.lexeme, name |-> tok.data, id |-> s.id]}
             ELSE UNCHANGED <<pool, ids>>
          /\ Filter(placed)
    /\ UNCHANGED <<display, done>>

(* The end of the data, or of what could be displayed. *)
EndTokens(all) == IF all = <<>> \/ Last(all) # "kEndOfFile" THEN Append(all, "kEndOfFile") ELSE all

LexEnd ==
    /\ ~done /\ reader.index = Len(data)
    /\ done' = TRUE
    /\ LET failed == display.failed
           end == IF failed /\ ignore_line THEN <<>> ELSE <<"kEndOfFile">>
       IN /\ tokens' = EndTokens(tokens \o end)
          /\ errors' = IF failed THEN errors + 1 ELSE errors
    /\ ignore_line' = FALSE
    /\ UNCHANGED <<display, reader, lexed, pool, ids, prev_pos>>

Next == Lex \/ LexEnd
Spec == Init /\ [][Next]_vars

(***************************************************************************)
(* What docs/Grammar.md says of literals.                                  *)
(***************************************************************************)
All(s, from, S) == \A i \in from .. Len(s) : s[i] \in S

NumberForm(s) ==
    \/ s = <<"0">>
    \/ s[1] \in {"1", "7", "8"} /\ All(s, 2, Digit)
    \/ Len(s) > 1 /\ s[1] = "0" /\ s[2] \in {"1", "7"} /\ All(s, 3, {"0", "1", "7"})
    \/ Len(s) > 2 /\ s[1] = "0" /\ s[2] = "x" /\ All(s, 3, Hex)
    \/ Len(s) > 2 /\ s[1] = "0" /\ s[2] = "b" /\ All(s, 3, {"0", "1"})
    \/ \E p \in 2 .. Len(s) - 1 : /\ s[1] \in {"1", "7", "8"} /\ s[p] = "."
                                   /\ \A i \in DOMAIN s \ {p} : s[i] \in Digit

(* How many backslashes stand right before character k of s. *)
Backslashes(s, k) ==
    Cardinality({j \in 1 .. k - 1 : \A m \in j .. k - 1 : s[m] = "bslash"})
Escaping(s) == {k \in DOMAIN s : s[k] = "bslash" /\ Backslashes(s, k) % 2 = 0}
StringForm(s) ==
    /\ Len(s) > 1 /\ s[1] = "quote" /\ s[Len(s)] = "quote"
    /\ \A k \in 2 .. Len(s) : s[k] = "quote" => (k = Len(s) <=> Backslashes(s, k) % 2 = 0)
    /\ \A k \in DOMAIN s : s[k] # "nl"
    /\ \A k \in Escaping(s) : s[k + 1] \in Escapes \cup {"bslash"}

Spelling(tok) == SubSeq(data, tok.position.index + 1, NextPosition(tok).index)

(* A number or string literal is accepted exactly when its spelling has a  *)
(* form docs/Grammar.md gives, it extends as far as it can, and a string's *)
(* escapes are replaced one by one: the loops of TryGetNextToken, which    *)
(* unread up to two characters, against the forms.                         *)
LiteralsExact ==
    \A i \in DOMAIN lexed :
       LET tok == lexed[i]
           s == Spelling(tok)
           after == NextPosition(tok).index + 1
       IN /\ s[1] \in Digit =>
                /\ (tok.lexeme = "kLiteralNumber") <=> NumberForm(s)
                /\ after <= Len(data) => data[after] \notin Alnum
          /\ s[1] = "quote" =>
                /\ (tok.lexeme = "kLiteralString") <=> StringForm(s)
                /\ StringForm(s) => Len(tok.data) = Len(s) - 2 - Cardinality(Escaping(s))

TruePosition(text, index) ==
    LET lines == {k \in 1 .. index : text[k] = "nl"}
    IN [index |-> index, line |-> 1 + Cardinality(lines),
        column |-> 1 + index - (IF lines = {} THEN 0 ELSE Max(lines))]

(* The tokens cover the text without gap or overlap: NextPosition, put     *)
(* together from 16-bit fields, is where the next token is, at the line    *)
(* and column the reader kept through reads and unreads, and an error is   *)
(* placed inside its token.                                                *)
TokensTile ==
    /\ reader = TruePosition(data, reader.index)
    /\ \A i \in DOMAIN lexed :
          /\ NextPosition(lexed[i]) = (IF i = Len(lexed) THEN reader ELSE lexed[i + 1].position)
          /\ lexed[i].lexeme \in Invalid =>
                lexed[i].err \in lexed[i].position.index + 1 .. NextPosition(lexed[i]).index + 1

(* Two names have the same id exactly when they are the same, though the   *)
(* pool shares suffixes and strings may hold NULs, and every string can be *)
(* read back from its id and length.                                       *)
InternExact ==
    /\ \A x \in ids : TryReadString(pool, x.id, Len(x.name)) = x.name
    /\ \A x, y \in {z \in ids : z.lexeme # "kLiteralString"} : x.id = y.id <=> x.name = y.name

(* The parser always gets one end-of-file token, at the end, also when the *)
(* display fails on a line that is being ignored.                          *)
StreamEnds == done => SelectSeq(tokens, LAMBDA t : t = "kEndOfFile") = <<"kEndOfFile">>
                      /\ Last(tokens) = "kEndOfFile"

(* Displacing a position gives the position it names, except right behind  *)
(* a final line's end and from a waypoint that fell inside a tab.          *)
PositionsExact ==
    done =>
       LET n == Len(data)
       IN \A from \in 0 .. n, to \in 0 .. n :
             LET pos == TruePosition(data, from)
             IN \/ TryDisplacePosition(display, pos, to - from) = TruePosition(data, to)
                \/ to = n /\ data[n] = "nl"
                \/ \E w \in Range(display.way) : w.tab

=============================================================================
