------------------------------- MODULE SetFlags -------------------------------
(***************************************************************************)
(* How values reach Helm: escapeValue (internal/values/cli.go) protects    *)
(* the characters that Helm gives a meaning to, and Helm reads the --set   *)
(* argument.  A text is a sequence of characters.                          *)
(***************************************************************************)
EXTENDS Integers, Sequences

\* What takes the place of c when char is escaped.
Quoted(c, char) == IF c = char THEN <<"\\", c>> ELSE <<c>>

\* strings.ReplaceAll(text, char, `\` + char)
Escape(text, char) ==
    LET result[n \in 0..Len(text)] ==
          IF n = 0 THEN << >> ELSE result[n - 1] \o Quoted(text[n], char)
    IN  result[Len(text)]

\* Mutant of escapeValue: backslashes are escaped last.
escapeValueLast(value) ==
    Escape(Escape(Escape(Escape(Escape(value, ","), "="), "["), "]"), "\\")

escapeValue(value) ==
    Escape(Escape(Escape(Escape(Escape(value, "\\"), ","), "="), "["), "]")

-----------------------------------------------------------------------------
(* Helm's reading of an argument: a backslash takes the next character as  *)
(* it is, an unescaped separator ends the value, and a value that begins   *)
(* with an unescaped brace is a list, as in --set name={a,b}.  The         *)
(* separators are those that escapeValue is written for.  Within a value   *)
(* Helm itself looks for the comma only, so it reads an argument that has  *)
(* none of the four unescaped as this reader does.                         *)
Separators == {",", "=", "[", "]"}

\* Helm has read value, as one text and no more than that.
Reading(value) ==
    [value |-> value, escaped |-> FALSE, ended |-> FALSE, list |-> FALSE]

HelmStep(state, c) ==
    IF state.escaped
    THEN [state EXCEPT !.value = Append(@, c), !.escaped = FALSE]
    ELSE IF c = "\\" THEN [state EXCEPT !.escaped = TRUE]
    ELSE IF c \in Separators THEN [state EXCEPT !.ended = TRUE]
    ELSE IF c = "{" /\ state.value = << >> THEN [state EXCEPT !.list = TRUE]
    ELSE [state EXCEPT !.value = Append(@, c)]

HelmReads(text) ==
    LET state[n \in 0..Len(text)] ==
          IF n = 0 THEN Reading(<< >>) ELSE HelmStep(state[n - 1], text[n])
    IN  state[Len(text)]
=============================================================================
