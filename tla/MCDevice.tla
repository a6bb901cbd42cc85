------------------------------- MODULE MCDevice -------------------------------
(* Device on small sets: documents with few aliases ("gs" and "GS" are one name
   to PowerShell), and rc files of a few lines. *)
EXTENDS Device

MCName == {"gs", "GS", "ll"}
MCFold == [n \in MCName \cup {""} |-> IF n = "GS" THEN "gs" ELSE n]
MCRank == [n \in MCName \cup {""} |->
             CASE n = "" -> 0 [] n = "GS" -> 1 [] n = "gs" -> 2 [] n = "ll" -> 3]

Good(n, c) == [name |-> n, command |-> c, sound |-> TRUE, known |-> TRUE, here |-> TRUE]
Bad(n) == [Good(n, "c1") EXCEPT !.sound = FALSE]
Elsewhere(n) == [Good(n, "c2") EXCEPT !.here = FALSE]
Unknown(n) == [Good(n, "c2") EXCEPT !.known = FALSE]
Doc(entries) == [readable |-> TRUE, entries |-> entries]

TwoAliases == Doc(<<Good("gs", "c1"), Good("ll", "c1")>>)
OneAlias == Doc(<<Good("ll", "c2"), Elsewhere("gs")>>)
OneUnknown == Doc(<<Unknown("gs"), Good("ll", "c1")>>)
OneNameless == Doc(<<Bad(""), Good("gs", "c2")>>)
Unreadable == [readable |-> FALSE, entries |-> <<>>]

Flaws == {
  Doc(<<Good("gs", "c1"), Bad("ll"), Good("GS", "c2")>>),
  Doc(<<Good("gs", "c1"), Good("gs", "c2"), Good("ll", "c1")>>),
  Doc(<<Bad("GS"), Good("gs", "c1"), Good("ll", "c1")>>),
  Doc(<<Good("gs", "c1"), Good("GS", "c1"), Good("ll", "c1"), Good("ll", "c2")>>) }

MCHeld == [file   |-> {Doc(<<>>), TwoAliases, OneAlias},
           git    |-> {TwoAliases, OneAlias, OneUnknown},
           server |-> Flaws \cup {Unreadable, OneNameless, TwoAliases}]

MCLegacy == {[gs |-> "c2", ll |-> "c1"], [GS |-> "c1"]}

MCRcFile == {
  <<>>,
  <<"text">>,
  <<"alias", "nl">>,
  <<"alias", "nl", "nl">>,
  <<"text", "crlf", "alias", "crlf">>,
  <<"text", "crlf", "alias">>,
  <<"text", "nl", "end", "nl">>,
  <<"text", "begin", "nl">>,
  <<"begin", "nl", "text", "nl", "end", "nl", "alias", "nl">> }
=============================================================================
