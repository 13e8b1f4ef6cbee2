----------------------------- MODULE ConfigFile -----------------------------
(***************************************************************************)
(* What mtn-client and mtn-server make of the lines of their config file   *)
(* and of the server list: init_config, parse_config_file, set_config_value *)
(* and parse_client_server_list.                                           *)
(*                                                                         *)
(* A line of a config file is a sequence of tokens.  A token is its text   *)
(* without the quotes at its ends, and whether it had one at its beginning  *)
(* (open) and at its end (close); a lone quote is both.  A value is the    *)
(* sequence of pieces that strcat joins with one space.                    *)
(***************************************************************************)
EXTENDS Integers, Sequences, SequencesExt

Token(text, open, close) == [text |-> text, open |-> open, close |-> close]

Word(text) == Token(text, FALSE, FALSE)

SERVER_DEFAULT_PORT == 48888

(* config_array of init_server_config, common_config_array of init_config.  *)

CommonConfig == [debug |-> <<Word("0")>>]

ServerConfig ==
  [name |-> <<Word("MTN"), Word("server")>>, descr |-> <<>>, port |-> <<Word("48888")>>]

InitConfig(role) ==
  IF role = "server"
    THEN [name \in DOMAIN CommonConfig \cup DOMAIN ServerConfig |->
            IF name \in DOMAIN CommonConfig THEN CommonConfig[name] ELSE ServerConfig[name]]
    ELSE CommonConfig

-----------------------------------------------------------------------------
(* parse_config_file.  stage: the local flags get_property and get_value;  *)
(* "string" is get_value with is_string_value, "set" neither of the two,   *)
(* "comment" the way out of the inner loop.  line: line_ptr, what is left  *)
(* of the line.                                                            *)

NoProperty == Word("")

Parser(config) ==
  [stage |-> "property", property |-> NoProperty, value |-> <<>>, config |-> config,
   line |-> <<>>]

IsName(token, name) == token.text = name /\ ~ token.open /\ ~ token.close

\* set_config_value: an unknown name is only reported.
SetConfigValue(config, property, value) ==
  IF \E name \in DOMAIN config : IsName(property, name)
    THEN [config EXCEPT ![property.text] = value]
    ELSE config

Assign(p) == [p EXCEPT !.stage = "set", !.config = SetConfigValue(@, p.property, p.value)]

\* The first piece of a string ends the value as a word does.
PieceWord(p, t) ==
  Assign([p EXCEPT !.value = Append(@, IF p.stage = "string" \/ t.open THEN Word(t.text) ELSE t)])

\* A quote at the beginning opens a string, or is dropped inside of one.
Piece(p, t) ==
  LET string == p.stage = "string" \/ t.open
      q == [p EXCEPT !.value = Append(@, IF string THEN Word(t.text) ELSE t)]
  IN  IF string /\ ~ t.close THEN [q EXCEPT !.stage = "string"] ELSE Assign(q)

\* The outer loop takes a line.  A value that was missing at the end of the last
\* line is missed now.
StartLine(p, line) ==
  [p EXCEPT !.line = line, !.stage = IF @ = "value" THEN "property" ELSE @]

InLine(p) == p.line # <<>> /\ p.stage # "comment"

\* The inner loop takes a token.  Behind a value, the rest of the line sets the
\* same value again.
TakeToken(p) ==
  LET t == Head(p.line)
      q == [p EXCEPT !.line = Tail(@)]
  IN  CASE p.stage = "property" /\ t = Word("#") -> [q EXCEPT !.stage = "comment"]
        [] p.stage = "property" /\ t # Word("#") -> [q EXCEPT !.stage = "value", !.property = t]
        [] p.stage \in {"value", "string"} -> Piece(q, t)
        [] p.stage = "set" -> Assign(q)

EndLine(p) ==
  IF p.stage \in {"set", "comment"} THEN Parser(p.config) ELSE p

-----------------------------------------------------------------------------
(* parse_client_server_list.  An address is its IP address and the number  *)
(* behind the colon, 0 if there is none; BadIP is what inet_pton refuses.   *)

BadIP == "bad"

\* A server without a port, stored with the port that was given.
ParseServerNoDefault(servers, line) ==
  IF line = <<>> \/ line[1].ip = BadIP
    THEN servers
    ELSE LET address == <<line[1].ip, line[1].port % 65536>>
         IN  IF address \in Range(servers) THEN servers ELSE Append(servers, address)

ParseServer(servers, line) ==
  IF line = <<>> \/ line[1].ip = BadIP
    THEN servers
    ELSE LET port == IF line[1].port = 0 THEN SERVER_DEFAULT_PORT ELSE line[1].port
             address == <<line[1].ip, port % 65536>>
         IN  IF address \in Range(servers) THEN servers ELSE Append(servers, address)
=============================================================================
