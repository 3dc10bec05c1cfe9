--------------------------- MODULE MCOutputParser ---------------------------
(***************************************************************************)
(* Every short text, every object of a small grammar between short pieces  *)
(* of prose, and pairs of objects.                                         *)
(***************************************************************************)
EXTENDS OutputParser

Short(marks, n) == UNION {[1 .. k -> marks] : k \in 0 .. n}

Quoted(body) == <<"quote">> \o body \o <<"quote">>

Bodies ==
  { <<>>, <<"x">>, <<"close">>, <<"open">>, <<"backslash", "quote">>, <<"backslash", "backslash">>,
    <<"close", "backslash", "quote", "open">>, <<"fence">>, <<"close", "fence">>,
    <<"fence", "open", "close", "fence">> }

Member(value) == <<"open">> \o Quoted(<<>>) \o <<"colon">> \o value \o <<"close">>

Flat == {<<"open", "close">>} \cup {Member(Quoted(body)) : body \in Bodies}

Objects == Flat \cup {Member(o) : o \in Flat}

Prose == Short({"open", "close", "quote", "backslash", "blank", "fence", "x"}, 2)

\* Two answers, with or without fences around each of them.
Pairs ==
  {before \o o \o between \o p \o after :
     before \in Short({"fence", "x"}, 1),
     o \in {<<"open", "close">>, Member(Quoted(<<"x">>)), Member(Quoted(<<"fence">>))},
     between \in Short({"fence", "blank", "open"}, 2),
     p \in {<<"open", "close">>, Member(Quoted(<<"close">>)), Member(<<"open", "close">>)},
     after \in Short({"fence", "blank", "close"}, 2)}

MCContents ==
  {None} \cup Short(Marks, 4) \cup Pairs
    \cup {before \o o \o after : before \in Prose, o \in Objects, after \in Prose}
=============================================================================
