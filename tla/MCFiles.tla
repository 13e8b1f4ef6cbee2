------------------------------- MODULE MCFiles -------------------------------
(* Files up to a few symbols: every config file, every server list, every   *)
(* message.                                                                 *)
EXTENDS Files

CONSTANTS MaxConfig, MaxList, MaxMessage, b

UpTo(S, n) == UNION {[1 .. k -> S] : k \in 0 .. n}

ConfigSymbols ==
  {Newline, Word("#"), Word("debug"), Word("port"), Word("v"),
   Token("v", TRUE, FALSE), Token("w", FALSE, TRUE), Token("", TRUE, TRUE)}

ListSymbols ==
  {Newline, [ip |-> "a", port |-> 0], [ip |-> "a", port |-> 48888], [ip |-> "b", port |-> 7],
   [ip |-> BadIP, port |-> 0]}

With(program, configs, seconds) ==
  [role : {program}, config : configs, second : seconds]

MCSymbols == ConfigSymbols \cup ListSymbols

Short == {<<>>, <<Word("debug"), Word("v")>>, <<Word("debug"), Token("v", TRUE, FALSE), Newline>>}

MCInputs ==
  With("client", UpTo(ConfigSymbols, MaxConfig), {<<>>})
    \cup With("server", UpTo(ConfigSymbols, MaxConfig - 1), {<<>>})
    \cup With("client", Short, UpTo(ListSymbols, MaxList))
    \cup With("server", Short, UpTo(Bytes, MaxMessage))
=============================================================================
