---------------------------- MODULE ScriptParser -----------------------------
(* How a memory script becomes commands (common/CommonServer.cpp):           *)
(* ScriptToLine leaves out the comments and cuts the text at each ';',       *)
(* GetMemoryScriptCMD cuts a command into up to three words.  Texts are      *)
(* sequences of characters; positions count from 1.                          *)
EXTENDS Naturals, Sequences, SequencesExt, FiniteSets

CONSTANTS MaxPieces,  \* bound: pieces of a script
          MaxLine     \* bound: characters of a command

ASSUME ParserAssumption == MaxPieces \in Nat /\ MaxLine \in Nat

Positions(text) == [i \in DOMAIN text |-> i]
CharAt(text, i) == IF i \in DOMAIN text THEN text[i] ELSE "none"
Is(text, i, first, second) == CharAt(text, i) = first /\ CharAt(text, i + 1) = second

-----------------------------------------------------------------------------
(* ScriptToLine's variables: iBit, iStarFlag, iLineStartBit, bIsNewLine and *)
(* the lines.                                                               *)
Scan == [bit |-> 1, star |-> 0, start |-> 1, newline |-> TRUE, lines |-> <<>>]

(* The character after the end of a line comment, or the next one. *)
LineComment(text, i) ==
    LET ends == {j \in (i + 2)..Len(text) : text[j] = "\n"}
    IN  IF ends = {} THEN i + 1
        ELSE 1 + CHOOSE j \in ends : \A k \in ends : j <= k

(* Bug seeded for the runs: comments do not nest. *)
Outermost(star) == 0
Closed(star) == star - 1

InComment(s, text, i) ==
    CASE Is(text, i, "/", "*") -> [s EXCEPT !.star = @ + 1, !.bit = i + 2, !.newline = TRUE]
      [] Is(text, i, "*", "/") -> [s EXCEPT !.star = Closed(@), !.bit = i + 2, !.newline = TRUE]
      [] OTHER -> [s EXCEPT !.bit = i + 1, !.newline = TRUE]

(* A ';' that nothing stands before is taken for the first character of the *)
(* next command.                                                            *)
InCommand(s, text, i) ==
    LET start == IF s.newline THEN i ELSE s.start
    IN  IF text[i] = ";" /\ i > start
        THEN [s EXCEPT !.bit = i + 1, !.start = start, !.newline = TRUE,
                       !.lines = Append(@, SubSeq(text, start, i - 1))]
        ELSE [s EXCEPT !.bit = i + 1, !.start = start, !.newline = FALSE]

ScanStep(s, text, i) ==
    CASE i < s.bit -> s
      [] i >= s.bit /\ text[i] \in {"\r", "\n"} -> [s EXCEPT !.bit = i + 1]
      [] OTHER ->
           CASE s.star # 0 -> InComment(s, text, i)
             [] s.star = 0 /\ Is(text, i, "/", "*") ->
                    [s EXCEPT !.star = 1, !.bit = i + 2, !.newline = TRUE]
             [] s.star = 0 /\ Is(text, i, "/", "/") ->
                    [s EXCEPT !.bit = LineComment(text, i), !.newline = TRUE]
             [] OTHER -> InCommand(s, text, i)

ScriptToLine(text) ==
    FoldLeft(LAMBDA s, i : ScanStep(s, text, i), Scan, Positions(text)).lines

-----------------------------------------------------------------------------
(* GetMemoryScriptCMD.  The third word is the rest of the line.             *)
Split == [start |-> 0, words |-> <<>>]

WordEnds(w, line, i) ==
    \/ line[i] = " " \/ i = Len(line) \/ Len(w.words) = 2

SplitStep(w, line, i) ==
    CASE Len(w.words) = 3 -> w
      [] Len(w.words) < 3 /\ w.start = 0 /\ line[i] # " " ->
           IF i = Len(line) THEN [w EXCEPT !.words = Append(@, <<line[i]>>)]
           ELSE [w EXCEPT !.start = i]
      [] Len(w.words) < 3 /\ w.start # 0 /\ WordEnds(w, line, i) ->
           LET last == IF i = Len(line) \/ Len(w.words) = 2 THEN Len(line) ELSE i - 1
           IN  [start |-> 0, words |-> Append(w.words, SubSeq(line, w.start, last))]
      [] OTHER -> w

GetMemoryScriptCMD(line) ==
    FoldLeft(LAMBDA w, i : SplitStep(w, line, i), Split, Positions(line)).words

-----------------------------------------------------------------------------
(* Scripts as they are written: pieces, each with the command it stands for, *)
(* and what may be left over at the end.                                     *)
Command(text) == [text |-> Append(text, ";"), command |-> <<text>>]
Remark(text)  == [text |-> text, command |-> <<>>]
Pieces ==
    {Command(<<"a">>), Command(<<"a", "\n", "b">>), Command(<<"*", "/", "a">>),
     Remark(<<"\n">>),
     Remark(<<"/", "*", "*", "/">>), Remark(<<"/", "*", "a", ";", "*", "/">>),
     Remark(<<"/", "*", "/", "*", "*", "/", "a", ";", "*", "/">>),
     Remark(<<"/", "*", "/", "/", "\n", "a", ";", "*", "/">>),
     Remark(<<"/", "/", "a", ";", "\n">>), Remark(<<"/", "/", "/", "*", "\n">>)}
Leftovers == {<<>>, <<"a">>, <<";">>, <<"/", "*", "a", ";">>}
Scripts == UNION {[1..n -> Pieces] : n \in 0..MaxPieces}

Written(pieces, field(_)) == FlattenSeq([i \in DOMAIN pieces |-> field(pieces[i])])

(* The words of a line: runs of other characters than " ".                  *)
Starts(line) == {i \in DOMAIN line : line[i] # " " /\ CharAt(line, i - 1) \in {" ", "none"}}
Nth(set, k)  == CHOOSE i \in set : Cardinality({j \in set : j < i}) = k - 1
EndOf(line, i) ==
    CHOOSE j \in i..Len(line) : /\ CharAt(line, j + 1) \in {" ", "none"}
                                /\ \A k \in i..j : line[k] # " "
(* A single " " at the end of a line goes with the word before it. *)
Trailing(line, j) == IF j + 1 = Len(line) THEN Len(line) ELSE j
WordsOf(line) ==
    LET starts == Starts(line)
        n == Cardinality(starts)
    IN  [k \in 1..(IF n > 3 THEN 3 ELSE n) |->
            LET i == Nth(starts, k)
            IN  SubSeq(line, i, IF k = 3 THEN Len(line) ELSE Trailing(line, EndOf(line, i)))]

(* The text that is parsed: a script, and a line as a command may be. *)
VARIABLE parsed

NoText == [pieces |-> <<>>, rest |-> <<>>, line |-> <<>>]
Texts  == [pieces : Scripts, rest : Leftovers, line : {<<>>}]
          \cup [pieces : {<<>>}, rest : {<<>>},
                line : UNION {[1..n -> {"a", "b", " "}] : n \in 0..MaxLine}]

ParserInit == parsed \in Texts
Parsed     == parsed # NoText /\ parsed' = NoText

(* Whatever stands between them, comments (nested ones too) and the ends of *)
(* lines never change the commands of a script, nor lose or add one; what   *)
(* is not ended by a ';' is none.  And a command's words are the runs of    *)
(* other characters than " " in it, the third one the rest.  Only for       *)
(* scripts without an empty command, a comment inside a command or a line   *)
(* comment that no line end follows: those the code takes otherwise.        *)
ScriptIsItsCommands ==
    /\ ScriptToLine(Written(parsed.pieces, LAMBDA p : p.text) \o parsed.rest)
         = Written(parsed.pieces, LAMBDA p : p.command)
    /\ GetMemoryScriptCMD(parsed.line) = WordsOf(parsed.line)
=============================================================================
