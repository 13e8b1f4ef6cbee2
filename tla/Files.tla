-------------------------------- MODULE Files --------------------------------
(***************************************************************************)
(* What the two programs read from their files, from the start of main:    *)
(* the client its config file and its server list, through one static      *)
(* buffer; the server its config file and then a data message, which it    *)
(* sends to a client.                                                      *)
(***************************************************************************)
EXTENDS DataBlocks, FileLines, ConfigRules

CONSTANT
  Inputs   \* roles, with a config file and the file that is read after it

ASSUME InputAssumption ==
  \A input \in Inputs :
    /\ input.role \in {"client", "server"}
    /\ input.config \in Seq(Symbols)
    /\ input.second \in IF input.role = "client" THEN Seq(Symbols) ELSE Seq(Bytes)

VARIABLES
  main,      \* where main is
  role,      \* which of the two programs
  config,    \* the config file
  second,    \* the server list or the message
  parser,    \* the locals of parse_config_file, and the config
  words,     \* history: the words of the config file, as far as its lines were got
  servers    \* client_server_map

input_vars == <<role, config, second>>
vars == <<main, input_vars, parser, words, servers, line_vars, block_vars>>

-----------------------------------------------------------------------------
\* load_client_config, load_server_config: the file is not there or not readable.
LoadConfigFails ==
  /\ main = "start"
  /\ main' = "configured"
  /\ UNCHANGED <<parser, words, servers, line_vars, block_vars>>

LoadConfig ==
  /\ main = "start"
  /\ main' = "config"
  /\ OpenFile(config)
  /\ UNCHANGED <<parser, words, servers, block_vars>>

\* The outer loop of parse_config_file.
ParseConfigLine ==
  /\ main = "config"
  /\ TakeLine
  /\ main' = "line"
  /\ parser' = StartLine(parser, returned.line)
  /\ words' = words \o Words(returned.line)
  /\ UNCHANGED <<servers, block_vars>>

\* The inner loop.
ParseToken ==
  /\ main = "line"
  /\ InLine(parser)
  /\ parser' = TakeToken(parser)
  /\ UNCHANGED <<main, words, servers, line_vars, block_vars>>

ParseLineEnds ==
  /\ main = "line"
  /\ ~ InLine(parser)
  /\ main' = "config"
  /\ parser' = EndLine(parser)
  /\ UNCHANGED <<words, servers, line_vars, block_vars>>

ParseConfigEnds ==
  /\ main = "config"
  /\ EndFile
  /\ main' = "configured"
  /\ UNCHANGED <<parser, words, servers, block_vars>>

LoadServerListFails ==
  /\ main = "configured"
  /\ role = "client"
  /\ main' = "done"
  /\ UNCHANGED <<parser, words, servers, line_vars, block_vars>>

LoadServerList ==
  /\ main = "configured"
  /\ role = "client"
  /\ main' = "list"
  /\ OpenFile(second)
  /\ UNCHANGED <<parser, words, servers, block_vars>>

\* One turn of the loop of parse_client_server_list.
ParseServerList ==
  /\ main = "list"
  /\ TakeLine
  /\ servers' = ParseServer(servers, returned.line)
  /\ UNCHANGED <<main, parser, words, block_vars>>

ParseServersEnd ==
  /\ main = "list"
  /\ EndFile
  /\ main' = "listed"
  /\ UNCHANGED <<parser, words, servers, block_vars>>

\* data_message_control starts the loader.
StartLoader ==
  /\ main = "configured"
  /\ role = "server"
  /\ main' = "done"
  /\ stage' = "load"
  /\ UNCHANGED <<parser, words, servers, line_vars, content, offset, cut_short, message, next,
                 wire, inbox>>

-----------------------------------------------------------------------------
Init ==
  /\ main = "start"
  /\ \E input \in Inputs :
       role = input.role /\ config = input.config /\ second = input.second
  /\ parser = Parser(InitConfig(role))
  /\ words = <<>> /\ servers = <<>>
  /\ LinesInit
  /\ stage = "main"
  /\ BlocksInit(IF role = "server" THEN second ELSE <<>>)

ConfigMain ==
  \/ LoadConfigFails \/ LoadConfig
  \/ ParseConfigLine \/ ParseToken \/ ParseLineEnds \/ ParseConfigEnds

ClientMain ==
  LoadServerListFails \/ LoadServerList \/ ParseServerList \/ ParseServersEnd

Reading == main # "line" /\ GetFileLine /\ UNCHANGED <<main, parser, words, servers, block_vars>>

Sending == BlocksNext /\ UNCHANGED <<main, parser, words, servers, line_vars>>

Next ==
  /\ ConfigMain \/ ClientMain \/ StartLoader \/ Reading \/ Sending
  /\ UNCHANGED input_vars

Spec == Init /\ [][Next]_vars

-----------------------------------------------------------------------------
(* Properties.                                                             *)

\* Type invariant.
TypeOK ==
  /\ main \in {"start", "config", "line", "configured", "list", "listed", "done"}
  /\ reading \in {"closed", "call", "return", "fatal"}
  /\ Len(reader.buffer) \in 0 .. LINE_MAX_SIZE
  /\ lines \in Seq(Seq(Symbols) \ {<<>>})
  /\ parser.stage \in {"property", "value", "string", "set", "comment"}
  /\ BlocksTypeOK

\* The config is what the file says, wherever its pieces end, and whatever stood in
\* the line before: as far as its lines were got, and to the end of the program.
ConfigAsWritten ==
  main # "line" =>
    \E starts \in SUBSET (1 .. Len(words)) :
      AreLines(words, starts) /\ AsWritten(words, starts, InitConfig(role), parser.config)

\* The server line i of the list names.
Names(i, server) ==
  LET address == lines[i][1]
      port == IF address.port = 0 THEN SERVER_DEFAULT_PORT ELSE address.port
  IN  address.ip # BadIP /\ server = <<address.ip, port % 65536>>

\* The map has each server of the list once, under the port the client would
\* use for it, in the order of the list; what is no address is left out.
ServersOnce ==
  main \in {"list", "listed"} =>
    /\ \A k, l \in 1 .. Len(servers) : servers[k] = servers[l] => k = l
    /\ \A i \in 1 .. Len(lines) :
         lines[i][1].ip # BadIP => \E k \in 1 .. Len(servers) : Names(i, servers[k])
    /\ \A k \in 1 .. Len(servers) : \E i \in 1 .. Len(lines) :
         /\ Names(i, servers[k])
         /\ \A j \in 1 .. i - 1, l \in k .. Len(servers) : ~ Names(j, servers[l])
=============================================================================
