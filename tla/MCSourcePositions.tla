--------------------------- MODULE MCSourcePositions ---------------------------
(***************************************************************************)
(* Scripts of one or two lines of every kind, some of three with comments    *)
(* before and behind each other.                                            *)
(***************************************************************************)
EXTENDS SourcePositions

Line == {<<>>, <<Letter>>, <<Slash, Slash>>, <<Letter, Slash, Slash, Slash>>,
         <<Slash, Letter, Slash>>}
Below(line) == <<NewLine>> \o line
MCScripts ==
    Line \cup {l \o Below(k) : l, k \in Line}
    \cup {l \o Below(<<Letter, Slash, Slash>>) \o Below(k) :
             l \in {<<>>, <<Slash, Slash, Letter>>}, k \in {<<>>, <<Letter>>}}
=============================================================================
