--------------------------- MODULE SourcePositions ---------------------------
(***************************************************************************)
(* From an error in the text that was parsed back to its line and column in *)
(* the script: DefaultPreprocessor cuts the comments out and maps the ends  *)
(* of the lines, the global scope keeps the address of the last character   *)
(* that was compiled, and the suite looks up the difference in the map.     *)
(*                                                                         *)
(* Offsets count from 0, as in the code.  The text is given by the offsets  *)
(* its characters have in the script.  It lies somewhere in memory, above   *)
(* or below the text of an earlier compilation, which is freed by then.     *)
(* String literals are letters like any other: a "//" inside one is cut.    *)
(***************************************************************************)
EXTENDS Integers, Sequences, FiniteSets

CONSTANTS
    Slash, NewLine, Letter,     \* characters
    Scripts,                    \* sequences of characters
    Bases,                      \* addresses a text may be placed at
    MaxCompiles                 \* bound on compilations by one suite

ASSUME SourcesAssumption ==
    /\ Cardinality({Slash, NewLine, Letter}) = 3
    /\ \A s \in Scripts : s \in Seq({Slash, NewLine, Letter})
    /\ Bases \subseteq Nat \ {0} /\ MaxCompiles \in Nat

VARIABLES
    phase,      \* idle, reading, parsing
    compiles,   \* how many compilations were begun
    script,     \* what is compiled
    behind,     \* the character behind the end of the script
    c,          \* offset of the next character
    subStart,   \* offset from which the script is not in the text yet
    lineStart,
    skipped,    \* totalSkipChar
    text,       \* offsets, in the script, of the characters kept
    lines,      \* _linesMap: ends of the lines in the text
    begin,      \* _beginCompileChar
    reached,    \* _errorCompiledChar, 0 for null
    errors,     \* what this compilation reported: offsets in the text
    before      \* "reached" when the parser began

reading == <<c, subStart, lineStart, skipped>>
parsing == <<begin, reached, errors, before>>
vars == <<phase, compiles, script, behind, reading, text, lines, parsing>>

Size == Len(script)
Char(i) == IF i < Size THEN script[i + 1] ELSE behind
Offsets(first, end) == [i \in 1 .. end - first |-> first + i - 1]

\* The comment that begins at c ends before this offset.
CommentEnd ==
    LET newLines == {i \in c + 2 .. Size - 1 : Char(i) = NewLine}
    IN  IF newLines = {} THEN Size
        ELSE CHOOSE i \in newLines : \A j \in newLines : i =< j
AtComment == Char(c) = Slash /\ c + 1 < Size /\ Char(c + 1) = Slash

-----------------------------------------------------------------------------
\* compileProgram: the suite, its preprocessor and its scope are used again.
Compile ==
    /\ phase = "idle" /\ compiles < MaxCompiles
    /\ phase' = "reading"
    /\ compiles' = compiles + 1
    /\ script' \in Scripts
    /\ behind' \in {NewLine, Letter}
    /\ c' = 0 /\ subStart' = 0 /\ lineStart' = 0 /\ skipped' = 0
    /\ text' = <<>> /\ lines' = <<>>
    /\ errors' = <<>>
    /\ UNCHANGED <<begin, reached, before>>

(* A wrong variant: the line's own comment does not count yet. *)
EndLineBeforeComment(i, cut) ==
    /\ lines' = Append(lines, i + 1 - skipped)
    /\ lineStart' = i + 1

\* The line feed at offset i, with "cut" characters left out so far.
EndLine(i, cut) ==
    /\ lines' = Append(lines, i + 1 - cut)
    /\ lineStart' = i + 1

\* The character behind a comment is looked at before the end is checked for.
ReadComment ==
    /\ phase = "reading" /\ c < Size /\ AtComment
    /\ LET end == CommentEnd IN
       /\ text' = text \o Offsets(subStart, c)
       /\ skipped' = skipped + (end - c)
       /\ subStart' = IF Char(end) = NewLine THEN end ELSE subStart
       /\ IF end = Size
          THEN c' = end /\ UNCHANGED <<lines, lineStart>>
          ELSE c' = end + 1 /\ EndLine(end, skipped + (end - c))
    /\ UNCHANGED <<phase, compiles, script, behind, parsing>>

ReadChar ==
    /\ phase = "reading" /\ c < Size /\ ~AtComment
    /\ c' = c + 1
    /\ IF Char(c) = NewLine THEN EndLine(c, skipped)
       ELSE UNCHANGED <<lines, lineStart>>
    /\ UNCHANGED <<phase, compiles, script, behind, subStart, skipped, text,
                   parsing>>

\* The last line may have no line feed.  The text is handed to parse.
FinishText ==
    /\ phase = "reading" /\ c = Size
    /\ phase' = "parsing"
    /\ lines' = IF Size > lineStart THEN Append(lines, Size - skipped) ELSE lines
    /\ text' = text \o Offsets(subStart, c)
    /\ begin' \in Bases
    /\ before' = reached
    /\ UNCHANGED <<compiles, script, behind, reading, reached, errors>>

-----------------------------------------------------------------------------
Max2(a, b) == IF a > b THEN a ELSE b

\* setErrorCompilerChar: only ever further on, as the addresses go.
SetErrorChar(k) == Max2(reached, begin + k)

\* The parsers report offsets of the text or its end, in any order.
ReportChar ==
    /\ phase = "parsing" /\ Len(errors) < 2
    /\ \E k \in 0 .. Len(text) :
           /\ reached' = SetErrorChar(k)
           /\ errors' = Append(errors, [at |-> k, forced |-> FALSE])
    /\ UNCHANGED <<phase, compiles, script, behind, reading, text, lines, begin,
                   before>>

\* setErrorCompilerCharIndex: a unit could not be linked.
ReportUnit ==
    /\ phase = "parsing" /\ Len(errors) < 2
    /\ \E k \in 0 .. Len(text) :
           /\ reached' = begin + k
           /\ errors' = Append(errors, [at |-> k, forced |-> TRUE])
    /\ UNCHANGED <<phase, compiles, script, behind, reading, text, lines, begin,
                   before>>

\* parse returns; the text is freed, its address and the map stay.
FinishParse ==
    /\ phase = "parsing" /\ errors # <<>>
    /\ phase' = "idle"
    /\ UNCHANGED <<compiles, script, behind, reading, text, lines, parsing>>

\* getOriginalPosition: the first line that ends behind the index.
OriginalPosition(index) ==
    LET after == {i \in DOMAIN lines : lines[i] > index}
        line == CHOOSE i \in after : \A j \in after : i =< j
    IN  IF index < 0 \/ lines = <<>> THEN [line |-> -1, column |-> -1]
        ELSE IF after = {} THEN [line |-> Len(lines), column |-> 0]
        ELSE [line |-> line - 1,
              column |-> index - (IF line = 1 THEN 0 ELSE lines[line - 1])]

\* getLastCompliedPosition
LastCompiledPosition == OriginalPosition(reached - begin)

Init ==
    /\ phase = "idle" /\ compiles = 0
    /\ script = <<>> /\ behind = NewLine
    /\ c = 0 /\ subStart = 0 /\ lineStart = 0 /\ skipped = 0
    /\ text = <<>> /\ lines = <<>>
    /\ begin = 0 /\ reached = 0 /\ errors = <<>> /\ before = 0

Next ==
    \/ Compile \/ ReadComment \/ ReadChar \/ FinishText
    \/ ReportChar \/ ReportUnit \/ FinishParse

Spec == Init /\ [][Next]_vars

-----------------------------------------------------------------------------
(* The script itself: its comments, its lines and columns. *)
NewLines(i) == {j \in 0 .. i - 1 : Char(j) = NewLine}
LineBegin(i) ==
    IF NewLines(i) = {} THEN 0
    ELSE 1 + CHOOSE j \in NewLines(i) : \A k \in NewLines(i) : k =< j
InComment(i) ==
    /\ Char(i) # NewLine
    /\ \E j \in LineBegin(i) .. i :
           j + 1 < Size /\ Char(j) = Slash /\ Char(j + 1) = Slash
(* The offsets of what is not in a comment, in their order. *)
IsCode(offsets) ==
    /\ {offsets[i] : i \in DOMAIN offsets} = {i \in 0 .. Size - 1 : ~InComment(i)}
    /\ \A i, j \in DOMAIN offsets : i < j => offsets[i] < offsets[j]
\* A line feed counts as the place where the comment before it begins.
InScript(i) ==
    [line |-> Cardinality(NewLines(i)),
     column |-> Cardinality({j \in LineBegin(i) .. i - 1 : ~InComment(j)})]

CodeSize == Cardinality({i \in 0 .. Size - 1 : ~InComment(i)})

\* Behind the last line, where the script has one.
EndOfScript ==
    LET last == IF LineBegin(Size) < Size THEN 1 ELSE 0
    IN  IF Size = 0 THEN [line |-> -1, column |-> -1]
        ELSE [line |-> Cardinality(NewLines(Size)) + last, column |-> 0]

\* A comment on the last line, without line feed behind it or behind the script.
OpenComment == Size > 0 /\ InComment(Size - 1) /\ behind # NewLine

\* The furthest offset reported since a unit was last reported, that included.
\* Where none was, what an earlier compilation reported counts, if its text lay
\* so high that the address is still the highest.
Furthest ==
    LET forced == {i \in DOMAIN errors : errors[i].forced}
        since == {i \in DOMAIN errors : \A j \in forced : j =< i}
        earlier == IF forced = {} THEN {before - begin} ELSE {}
        ends == {errors[i].at : i \in since} \cup earlier
    IN  CHOOSE k \in ends : \A j \in ends : j =< k

\* The text is the code of the script, behind which an open comment leaves a
\* part of the script once more.
MapsBack ==
    /\ CodeSize =< Len(text) /\ IsCode(SubSeq(text, 1, CodeSize))
    /\ ~OpenComment => Len(text) = CodeSize
    /\ \A i \in 1 .. CodeSize : OriginalPosition(i - 1) = InScript(text[i])
ShowsFurthest ==
    LastCompiledPosition = IF Furthest < CodeSize THEN InScript(text[Furthest + 1])
                           ELSE EndOfScript

\* The furthest error is shown at the line and column of the script where the
\* parser was, and what was parsed is the script without its comments: over cut
\* comments, empty lines, a last line without line feed and a suite used before.
\* Two things go astray, and take nothing else along: what a comment that ends
\* the script without a line feed leaves behind the code is shown at the end of
\* the script, and an earlier text that reached a higher address hides the
\* errors that were not reported of a unit.
ErrorsAreShownWhereTheyAre ==
    phase = "idle" /\ compiles > 0 => MapsBack /\ ShowsFurthest
=============================================================================
