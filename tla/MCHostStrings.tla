---------------------------- MODULE MCHostStrings ----------------------------
(***************************************************************************)
(* All sources of up to three lines, in pools small enough to run out.     *)
(***************************************************************************)
EXTENDS HostStrings, TLC

Names    == "@f:" :> "@f" @@ "@g:" :> "@g" @@ "@main:" :> "@main"
AllTexts == DOMAIN Names \cup {Names[l] : l \in DOMAIN Names} \cup {"", "ADD", "??", "note"}

\* Long chains in one bin, with the empty string at its end.
BinOf == [t \in AllTexts |-> IF t \in {"", "@f", "@main", "ADD", "note"} THEN 0 ELSE 1]

Lines == DOMAIN Names \cup {"ADD", "??", ""}

ShortSources == UNION {[1 .. n -> Lines] : n \in 0 .. 3}

TestPrograms == {<<"ADD">>}
=============================================================================
