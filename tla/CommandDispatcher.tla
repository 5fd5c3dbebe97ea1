-------------------------- MODULE CommandDispatcher --------------------------
(***************************************************************************)
(* How a line of standard input becomes an echo command: the string        *)
(* operations of CommandDispatcher.cpp on sequences of characters.  The    *)
(* line has lost its delimiter.  Positions count from 0, as in the code,   *)
(* and sizes are computed modulo SizeModulus.                              *)
(***************************************************************************)
EXTENDS Integers, Sequences, SequencesExt, FiniteSetsExt

CONSTANT SizeModulus     \* 2^64: std::size_t

ASSUME DispatcherConstants == SizeModulus \in Nat \ {0}

Whitespace == {" ", "\t"}
EchoCmdPrefix == <<">", "e", "c", "h", "o">>

npos == SizeModulus - 1

NotBlank(sv) == { i \in DOMAIN sv : sv[i] \notin Whitespace }
findFirstNotOf(sv) == IF NotBlank(sv) = {} THEN npos ELSE Min(NotBlank(sv)) - 1
findLastNotOf(sv) == IF NotBlank(sv) = {} THEN npos ELSE Max(NotBlank(sv)) - 1

removePrefix(sv, n) == SubSeq(sv, n + 1, Len(sv))
removeSuffix(sv, n) == SubSeq(sv, 1, Len(sv) - n)

trimLeft(sv) == removePrefix(sv, Min({findFirstNotOf(sv), Len(sv)}))

\* Mutant of trimRight: the position of the last character is taken for a count.
TrimRightOneMore(sv) ==
    removeSuffix(sv, Min({(Len(sv) - findLastNotOf(sv)) % SizeModulus, Len(sv)}))

\* For a blank string npos makes the subtraction wrap around, to Len(sv).
trimRight(sv) ==
    removeSuffix(sv, Min({(Len(sv) - findLastNotOf(sv) - 1) % SizeModulus, Len(sv)}))

\* misc::trimWhitespace.
trimWhitespace(sv, right, left) ==
    LET rest == IF left THEN trimLeft(sv) ELSE sv
    IN  IF right THEN trimRight(rest) ELSE rest

\* misc::startsWith.
startsWith(s, prefix) == IsPrefix(prefix, s)

\* CommandDispatcher::dispatchCommand: its condition, and the text it passes to
\* the echo handler.
isEchoCommand(commandString) ==
    startsWith(trimWhitespace(commandString, TRUE, TRUE), EchoCmdPrefix)

echoText(commandString) ==
    trimWhitespace(removePrefix(trimWhitespace(commandString, TRUE, TRUE),
                                Len(EchoCmdPrefix)), FALSE, TRUE)

-----------------------------------------------------------------------------
(* Reference definition: a command is blanks, the prefix, blanks, the text *)
(* and blanks, where the text has no blank at either end.                  *)

Blank(s) == NotBlank(s) = {}
Bare(s) == s = <<>> \/ (s[1] \notin Whitespace /\ s[Len(s)] \notin Whitespace)

IsEchoOf(line, text) ==
    \E a \in 0 .. Len(line) : \E b \in a + Len(EchoCmdPrefix) .. Len(line) :
        /\ Blank(SubSeq(line, 1, a))
        /\ SubSeq(line, a + 1, a + Len(EchoCmdPrefix)) = EchoCmdPrefix
        /\ Blank(SubSeq(line, a + Len(EchoCmdPrefix) + 1, b))
        /\ b + Len(text) <= Len(line)
        /\ text = SubSeq(line, b + 1, b + Len(text))
        /\ Blank(SubSeq(line, b + Len(text) + 1, Len(line)))
        /\ Bare(text)

EchoTexts(line) ==
    { text \in { SubSeq(line, i, j) : i \in 1 .. Len(line) + 1, j \in 0 .. Len(line) } :
        IsEchoOf(line, text) }

=============================================================================
