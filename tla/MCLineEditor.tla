---------------------------- MODULE MCLineEditor ----------------------------
(* The command line with short lines: a line of two words is too long for  *)
(* the array, and the history holds two or three lines.                    *)
EXTENDS LineEditor, TLC

a == 97
b == 98

OneLetter == {a}

\* Four commands, of which the first three are offered; nobody types a `b'.
FourKeywords == << <<a, a>>, <<a, a, a>>, <<b>>, <<a>> >>

\* The command `a' has two subcommands.
ASubwords == (<<a>> :> << <<a>>, <<a, a>> >>)

=============================================================================
