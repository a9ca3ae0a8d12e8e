------------------------------ MODULE SqlScan -------------------------------
(***************************************************************************)
(* sqlTokens of internal/etl/executor.go, the scanner that finds the words *)
(* of an extract statement outside its literals, quoted names and          *)
(* comments.  A byte is its class: "a" for what makes a word, the marks    *)
(* the scanner looks for, "n" for the end of a line and " " for the rest.  *)
(* A token is the places of its first and last byte.                       *)
(***************************************************************************)
EXTENDS Naturals, Sequences

CONSTANT MaxLength

Byte == {"a", "'", "\"", "-", "/", "*", "n", " "}

Text == UNION {[1..k -> Byte] : k \in 0..MaxLength}

VARIABLES
    sql,
    i,        \* the place of the byte the loop looks at
    mode,     \* which of the in... flags is set; "text" if none
    begin,    \* the place where the word in b begins; 0 if b is empty
    tokens

scanVars == <<sql, i, mode, begin, tokens>>

Scan(text) == /\ sql = text /\ i = 1 /\ mode = "text" /\ begin = 0 /\ tokens = << >>

ScanInit == \E text \in Text : Scan(text)

ByteAt(text, k) == IF k <= Len(text) THEN text[k] ELSE "end"

\* The closure flush.
Flush ==
    /\ tokens' = IF begin = 0 THEN tokens ELSE Append(tokens, <<begin, i - 1>>)
    /\ begin' = 0

\* What opens a comment, a literal or a quoted name, and what closes it.
Opens(m) ==
    CASE m = "line"   -> ByteAt(sql, i) = "-" /\ ByteAt(sql, i + 1) = "-"
      [] m = "block"  -> ByteAt(sql, i) = "/" /\ ByteAt(sql, i + 1) = "*"
      [] m = "single" -> ByteAt(sql, i) = "'"
      [] m = "double" -> ByteAt(sql, i) = "\""

Doubled == ByteAt(sql, i) = ByteAt(sql, i + 1)

Closes(m) ==
    CASE m = "line"   -> ByteAt(sql, i) = "n"
      [] m = "block"  -> ByteAt(sql, i) = "*" /\ ByteAt(sql, i + 1) = "/"
      [] m = "single" -> ByteAt(sql, i) = "'" /\ ~Doubled
      [] m = "double" -> ByteAt(sql, i) = "\"" /\ ~Doubled

\* Plausible bug: the second byte of a comment's opening is read again.
OpenReadsTwice(m) ==
    /\ i <= Len(sql) /\ mode = "text" /\ Opens(m)
    /\ Flush /\ mode' = m /\ i' = i + 1
    /\ UNCHANGED sql

\* The marks of comments have two bytes.
Open(m) ==
    /\ i <= Len(sql) /\ mode = "text" /\ Opens(m)
    /\ Flush /\ mode' = m
    /\ i' = i + IF m \in {"line", "block"} THEN 2 ELSE 1
    /\ UNCHANGED sql

\* A byte inside a comment, literal or quoted name; a doubled quote is skipped.
Inside ==
    /\ i <= Len(sql) /\ mode # "text"
    /\ mode' = IF Closes(mode) THEN "text" ELSE mode
    /\ i' = i + IF (mode = "block" /\ Closes("block"))
                   \/ (mode \in {"single", "double"} /\ Opens(mode) /\ Doubled)
                THEN 2 ELSE 1
    /\ UNCHANGED <<sql, begin, tokens>>

\* A byte of a word, or one that ends it.
Word ==
    /\ i <= Len(sql) /\ mode = "text"
    /\ ~\E m \in {"line", "block", "single", "double"} : Opens(m)
    /\ IF sql[i] = "a" THEN begin' = (IF begin = 0 THEN i ELSE begin) /\ UNCHANGED tokens
                       ELSE Flush
    /\ i' = i + 1
    /\ UNCHANGED <<sql, mode>>

\* The flush after the loop.
Finish ==
    /\ i > Len(sql) /\ mode # "done"
    /\ tokens' = IF begin = 0 THEN tokens ELSE Append(tokens, <<begin, Len(sql)>>)
    /\ begin' = 0 /\ mode' = "done"
    /\ UNCHANGED <<sql, i>>

ScanNext == (\E m \in {"line", "block", "single", "double"} : Open(m)) \/ Inside \/ Word \/ Finish

ScanSpec == ScanInit /\ [][ScanNext]_scanVars

-----------------------------------------------------------------------------

\* The first place of S from k on, or past the end.
First(text, k, S) ==
    CHOOSE j \in k..Len(text) + 1 : (j <= Len(text) => j \in S) /\ \A h \in k..j - 1 : h \notin S

\* The place after what begins at k: a comment and a quotation end at their first
\* closing mark (two quotations side by side read like a doubled quote), a word is
\* as long as can be.
After(text, k) ==
    LET place == 1..Len(text) IN
    IF text[k] = "-" /\ ByteAt(text, k + 1) = "-"
    THEN First(text, k, {j \in place : text[j] = "n"}) + 1
    ELSE IF text[k] = "/" /\ ByteAt(text, k + 1) = "*"
    THEN First(text, k + 2, {j \in place : text[j] = "*" /\ ByteAt(text, j + 1) = "/"}) + 2
    ELSE IF text[k] \in {"'", "\""}
    THEN First(text, k + 1, {j \in place : text[j] = text[k]}) + 1
    ELSE IF text[k] = "a" THEN First(text, k, {j \in place : text[j] # "a"})
    ELSE k + 1

\* The words from each place on.
Words(text) ==
    LET words[k \in Nat \ {0}] ==
          IF k > Len(text) THEN << >>
          ELSE (IF text[k] = "a" THEN <<<<k, After(text, k) - 1>>>> ELSE << >>)
                 \o words[After(text, k)]
    IN words

\* The scanner finds exactly the words outside literals, quoted names and
\* comments, for every text: also with marks that overlap or are never closed.
\* Literals and comments are those the scanner knows; PostgreSQL has more (E''
\* strings with escapes, dollar quotes, comments within comments).
FindsTheWords == mode = "done" => tokens = Words(sql)[1]

=============================================================================
