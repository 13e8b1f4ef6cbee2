----------------------------- MODULE ConfigRules -----------------------------
(***************************************************************************)
(* What a config file says, to compare with what parse_config_file makes   *)
(* of it, by the rule the example files follow: a line sets a name to the  *)
(* word behind it, or to the text from one quote to the next, however many *)
(* lines that takes; the last setting of a name holds, other names and all *)
(* that begins with # are ignored.  A string that is not closed takes the  *)
(* rest of the file with it.                                               *)
(*                                                                         *)
(* The file is the sequence of its words: tokens, each with whether it is  *)
(* the first of its line.                                                  *)
(***************************************************************************)
EXTENDS ConfigFile

Words(line) == [k \in 1 .. Len(line) |-> [token |-> line[k], first |-> k = 1]]

\* The line that begins at h has a word behind the first.
HasValue(words, h) ==
  /\ words[h].token # Word("#")
  /\ h < Len(words) /\ ~ words[h + 1].first

\* A string that is opened behind h is not closed before g.
Covers(words, h, g) ==
  /\ h < g
  /\ HasValue(words, h) /\ words[h + 1].token.open
  /\ \A i \in h + 1 .. g - 1 : ~ words[i].token.close

\* Where a line begins that is not within the string of another such line.
AreLines(words, starts) ==
  starts = {g \in 1 .. Len(words) :
              words[g].first /\ ~ \E h \in starts : Covers(words, h, g)}

\* The value of the line at h ends at e.
EndsAt(words, h, e) ==
  /\ HasValue(words, h)
  /\ IF words[h + 1].token.open
       THEN Covers(words, h, e) /\ words[e].token.close
       ELSE e = h + 1

Value(words, h, e) ==
  [k \in 1 .. e - h |-> IF words[h + 1].token.open THEN Word(words[h + k].token.text)
                        ELSE words[h + k].token]

SettingsOf(words, starts, name) ==
  {s \in starts \X (1 .. Len(words)) :
     EndsAt(words, s[1], s[2]) /\ IsName(words[s[1]].token, name)}

\* What the words say of a name.
Says(words, starts, default, name, value) ==
  LET settings == SettingsOf(words, starts, name)
  IN  IF settings = {} THEN value = default
      ELSE \E s \in settings :
             /\ \A r \in settings : r[1] <= s[1]
             /\ value = Value(words, s[1], s[2])

\* The config is what the words say, where it said defaults before.
AsWritten(words, starts, defaults, config) ==
  /\ DOMAIN config = DOMAIN defaults
  /\ \A name \in DOMAIN defaults : Says(words, starts, defaults[name], name, config[name])
=============================================================================
