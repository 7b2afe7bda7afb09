--------------------------- MODULE QueryRenderer ---------------------------
(***************************************************************************)
(* render_named_query: one pass over an SQL text that replaces each named  *)
(* marker by the placeholder of the driver ("?" here for "?" and "%s") and *)
(* lists the values in the order of the markers.  Next to it, what the     *)
(* text means: a statement is a sequence of tokens, of which some are      *)
(* markers; nothing in a literal, a cast or a comment is one.              *)
(***************************************************************************)
EXTENDS Naturals, SequencesExt

CONSTANTS
  Letters, Digits,  \* of names
  Tokens,     \* [text : its characters, name : the name of the marker they begin with, or <<>>]
  MaxTokens,
  Names       \* the parameters a caller may pass

VARIABLES
  statement, params,  \* what it is given: tokens, and the names with a value
  text,               \* the characters of the statement
  i, mode, out, ordered,
  outcome

rendererVars == <<statement, params, text, i, mode, out, ordered, outcome>>

\* A quoted text is in the mode of its quote.
Quotes == {"'", "\""}
Modes == {"normal", "line_comment", "block_comment"} \cup Quotes

RendererTypeOK ==
  /\ i \in 1..Len(text) + 2 /\ mode \in Modes /\ params \subseteq Names
  /\ Len(out) <= Len(text) /\ Range(ordered) \subseteq params
  /\ outcome \in {"running", "rendered", "missing", "unused"}

Texts == [k \in DOMAIN statement |-> statement[k].text]

\* It ends in a character, such as a blank, that is no part of what is behind it.
Closed(s) == s[Len(s)] \notin Letters \cup Digits \cup Quotes \cup {":", "-", "/"}

RendererInit ==
  /\ statement \in UNION {[1..n -> Tokens] : n \in 0..MaxTokens}
  /\ \A k \in 1..Len(statement) - 1 : Closed(statement[k].text)
  /\ params \in SUBSET Names
  /\ text = FlattenSeq(Texts)
  /\ i = 1 /\ mode = "normal" /\ out = <<>> /\ ordered = <<>>
  /\ outcome = "running"

-----------------------------------------------------------------------------

ch == text[i]
next == IF i < Len(text) THEN text[i + 1] ELSE ""

In(m) == outcome = "running" /\ mode = m /\ i <= Len(text)

\* Copies n characters, and skips as many as skip says.
CopyAndSkip(n, skip, m) ==
  /\ out' = out \o SubSeq(text, i, i + n - 1)
  /\ i' = i + n + skip
  /\ mode' = m
  /\ UNCHANGED <<statement, text, params, ordered, outcome>>

Copy(n, m) == CopyAndSkip(n, 0, m)

\* Mutant: does not look for the second colon of a cast behind it.
StartsMarkerAhead == ch = ":" /\ next # ":" /\ next \in Letters

StartsMarker ==
  ch = ":" /\ next # ":" /\ (IF i = 1 THEN TRUE ELSE text[i - 1] # ":") /\ next \in Letters

EndOfName ==
  CHOOSE j \in i + 1..Len(text) :
    /\ \A k \in i + 1..j : text[k] \in Letters \cup Digits
    /\ IF j = Len(text) THEN TRUE ELSE text[j + 1] \notin Letters \cup Digits

Marker ==
  LET name == SubSeq(text, i + 1, EndOfName) IN
  /\ In("normal") /\ StartsMarker
  /\ IF name \in params
       THEN /\ out' = Append(out, "?") /\ ordered' = Append(ordered, name)
            /\ i' = EndOfName + 1
            /\ UNCHANGED outcome
       ELSE outcome' = "missing" /\ UNCHANGED <<out, ordered, i>>
  /\ UNCHANGED <<statement, text, params, mode>>

Opens == ch \in Quotes \/ <<ch, next>> \in {<<"-", "-">>, <<"/", "*">>}

Open ==
  /\ In("normal")
  /\ \/ ch \in Quotes /\ Copy(1, ch)
     \/ ch = "-" /\ next = "-" /\ Copy(2, "line_comment")
     \/ ch = "/" /\ next = "*" /\ Copy(2, "block_comment")

Plain == In("normal") /\ ~Opens /\ ~StartsMarker /\ Copy(1, "normal")

\* A doubled quote stands for one and does not end the text.
Quoted ==
  /\ mode \in Quotes /\ In(mode)
  /\ IF ch = mode /\ next = mode
       THEN Copy(2, mode)
       ELSE Copy(1, IF ch = mode THEN "normal" ELSE mode)

LineComment ==
  In("line_comment") /\ Copy(1, IF ch = "\n" THEN "normal" ELSE "line_comment")

\* The index moves by one before the end is looked for and by two after it is
\* found: three, for the two characters that are copied.
BlockComment ==
  /\ In("block_comment")
  /\ IF ch = "*" /\ next = "/"
       THEN CopyAndSkip(2, 1, "normal")
       ELSE Copy(1, "block_comment")

Finish ==
  /\ outcome = "running" /\ i > Len(text)
  /\ outcome' = IF params \subseteq Range(ordered) THEN "rendered" ELSE "unused"
  /\ UNCHANGED <<statement, text, params, i, mode, out, ordered>>

RendererNext ==
  Marker \/ Open \/ Plain \/ Quoted \/ LineComment \/ BlockComment \/ Finish

-----------------------------------------------------------------------------

Marked == [k \in DOMAIN statement |->
             IF statement[k].name = <<>> THEN <<>> ELSE <<statement[k].name>>]

Markers == FlattenSeq(Marked)

Rendered(token) ==
  IF token.name = <<>> THEN token.text
  ELSE <<"?">> \o SubSeq(token.text, Len(token.name) + 2, Len(token.text))

Meanings == [k \in DOMAIN statement |-> Rendered(statement[k])]

Meant == FlattenSeq(Meanings)

HasBlockComment ==
  \E k \in DOMAIN statement :
    LET s == statement[k].text IN Len(s) > 1 /\ s[1] = "/" /\ s[2] = "*"

\* The tokens of SQL: a marker, a literal (in which a quote is doubled), a comment,
\* or nothing, and behind it, from position b on, text that holds none of these.

PlainFrom(s, b) ==
  /\ \A k \in b..Len(s) : s[k] \notin Quotes
  /\ \A k \in b..Len(s) - 1 :
       /\ ~(s[k] = "-" /\ s[k + 1] = "-") /\ ~(s[k] = "/" /\ s[k + 1] = "*")
       /\ s[k] = ":" /\ s[k + 1] \in Letters => k > b /\ s[k - 1] = ":"

IsMarker(s, name, b) ==
  /\ name # <<>> /\ b = Len(name) + 2
  /\ s[1] = ":" /\ name[1] \in Letters
  /\ \A k \in 1..Len(name) : s[k + 1] = name[k] /\ name[k] \in Letters \cup Digits
  /\ b <= Len(s) => s[b] \notin Letters \cup Digits

\* pairs: where the doubled quotes begin.
IsLiteral(s, b, quote, pairs) ==
  /\ 3 <= b /\ s[1] = quote /\ s[b - 1] = quote
  /\ \A k \in 2..b - 2 : (s[k] = quote) <=> (k \in pairs \/ k - 1 \in pairs)
  /\ \A k \in pairs : k + 1 \in 2..b - 2 /\ k + 1 \notin pairs

IsLineComment(s, b) ==
  /\ 4 <= b /\ s[1] = "-" /\ s[2] = "-" /\ s[b - 1] = "\n"
  /\ \A k \in 3..b - 2 : s[k] # "\n"

IsBlockComment(s, b) ==
  /\ 5 <= b /\ s[1] = "/" /\ s[2] = "*" /\ s[b - 2] = "*" /\ s[b - 1] = "/"
  /\ \A k \in 3..b - 3 : ~(s[k] = "*" /\ s[k + 1] = "/")

IsToken(s, name, b) ==
  /\ PlainFrom(s, b)
  /\ \/ IsMarker(s, name, b)
     \/ /\ name = <<>>
        /\ \/ b = 1 \/ IsLineComment(s, b) \/ IsBlockComment(s, b)
           \/ \E quote \in Quotes, pairs \in SUBSET (2..b - 2) : IsLiteral(s, b, quote, pairs)

TokensAreSql ==
  /\ ":" \notin Letters /\ "" \notin Letters
  /\ \A t \in Tokens :
       /\ t.text # <<>>
       /\ t.text \in Seq(Range(t.text)) /\ t.name \in Seq(Range(t.name))
       /\ \E b \in 1..Len(t.text) + 1 : IsToken(t.text, t.name, b)

-----------------------------------------------------------------------------

\* The values are those of the markers, in their order, none missing and none
\* left over, whatever stands in the literals, casts and comments between them;
\* and without block comments the rest of the text is as it was.
RendersMarkers ==
  /\ outcome = "missing" => ~(Range(Markers) \subseteq params)
  /\ outcome = "unused" => Range(Markers) \subseteq params /\ Range(Markers) # params
  /\ outcome = "rendered" =>
       /\ Range(Markers) = params /\ ordered = Markers
       /\ ~HasBlockComment => out = Meant

\* database_backend.py:123: "Render :name markers without touching literals,
\* casts, or comments."
OnlyMarkersChange == outcome = "rendered" => out = Meant

=============================================================================
