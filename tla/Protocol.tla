------------------------------ MODULE Protocol ------------------------------
(***************************************************************************)
(* The commands ntbl and join, as the three clients write them and the two *)
(* servers read them.  A command is a sequence of words; words that are    *)
(* empty vanish when a server splits the line.  A form is what was read or *)
(* typed: a new table has the name of its owner.                           *)
(*                                                                         *)
(* The inputs of the Qt client (newtbl.cpp, jointbl.cpp) and of the web    *)
(* client (IdInput.svelte) let no blank in, so what is typed there is a    *)
(* word.  Those of 3333.js and m3333.js take any text.  A text is the      *)
(* sequence of its pieces between blanks: a piece at the end of a text     *)
(* that has a blank before it, or after it, may be empty, and joining      *)
(* texts by blanks is their concatenation.                                 *)
(***************************************************************************)
EXTENDS Integers, SequencesExt

Refused == [op |-> "refused"]

\* The word that is none: a password left out, a table not named.
Empty == ""

Form(op, table, name, tpass, pass) ==
  [op |-> op, table |-> table, name |-> name, tpass |-> tpass, pass |-> pass]

Digits == <<"0", "1", "2", "3">>

\* 1 for a table password plus 2 for one of the player; none is the password
\* left out.
PwFlags(f, none) == (IF f.tpass = none THEN 0 ELSE 1) + (IF f.pass = none THEN 0 ELSE 2)

-----------------------------------------------------------------------------
(* The clients.                                                            *)

Start(f) == IF f.op = "join" THEN <<"join", f.table, f.name>> ELSE <<"ntbl", f.table>>

QtWords(f) == Start(f) \o <<Digits[PwFlags(f, Empty) + 1], f.tpass, f.pass>>

\* wscon.ts announces two passwords whatever there is.
WebWords(f) == Start(f) \o <<"3", f.tpass, f.pass>>

\* The text of an input left alone.
Nothing == <<Empty>>

\* A text without the blanks around it.
Trim(t) ==
  LET kept == {k \in DOMAIN t : t[k] # Empty}
  IN  IF kept = {} THEN Nothing ELSE SubSeq(t, Min(kept), Max(kept))

Trimmed(f) == Form(f.op, f.table, Trim(f.name), Trim(f.tpass), Trim(f.pass))

\* The texts of a form joined by blanks.
Joined(f, table) ==
  <<f.op>> \o table \o f.name \o <<Digits[PwFlags(f, Nothing) + 1]>> \o f.tpass \o f.pass

\* table_nj of 3333.js trims, and for a new table the text of the table is empty.
JsWords(f) == Joined(Trimmed(f), IF f.op = "join" THEN f.table ELSE Nothing)

\* m3333.js sends what was typed.
M3Words(f) == Joined(f, IF f.op = "join" THEN f.table ELSE <<>>)

-----------------------------------------------------------------------------
(* The servers.                                                            *)

\* The loop over the words of a line: the ones that are empty vanish.
SSplit(words) ==
  LET split[n \in 0..Len(words)] ==
        IF n = 0 THEN <<>>
        ELSE IF words[n] = Empty THEN split[n - 1]
        ELSE Append(split[n - 1], words[n])
  IN  split[Len(words)]

\* StrToInt and safe_int of a word, for the values the flags may have.
StrToInt(w, defval) == IF Contains(Digits, w) THEN (CHOOSE k \in 1..4 : Digits[k] = w) - 1 ELSE defval

\* Mutant: the passwords are taken in the other order.
GetCommandPasswordsSwapped(cmd, i, op, table, name) ==
  LET flags == StrToInt(cmd[i], -1)
      tp == flags % 2
      up == flags \div 2
  IN  IF flags = -1 \/ Len(cmd) # i + tp + up THEN Refused
      ELSE Form(op, table, name, IF tp = 1 THEN cmd[i + up + 1] ELSE Empty,
                IF up = 1 THEN cmd[i + 1] ELSE Empty)

\* The flags are word i; as many passwords follow as they announce.
GetCommandPasswords(cmd, i, op, table, name) ==
  LET flags == StrToInt(cmd[i], -1)
      tp == flags % 2
      up == flags \div 2
  IN  IF flags = -1 \/ Len(cmd) # i + tp + up THEN Refused
      ELSE Form(op, table, name, IF tp = 1 THEN cmd[i + 1] ELSE Empty,
                IF up = 1 THEN cmd[i + tp + 1] ELSE Empty)

\* What Server::NewTable and Server::Join make of a command.
Read(cmd) ==
  IF cmd[1] = "ntbl"
    THEN IF Len(cmd) \notin 3..5 THEN Refused
         ELSE GetCommandPasswords(cmd, 3, "ntbl", cmd[2], cmd[2])
    ELSE IF Len(cmd) \notin 4..6 THEN Refused
         ELSE GetCommandPasswords(cmd, 4, "join", cmd[2], cmd[3])

\* Mutant: words behind the passwords are passed over.
NameTPassUPassAtLeast(args, op, table) ==
  LET flags == StrToInt(args[2], 0)
      tp == flags % 2
      up == flags \div 2
  IN  IF Len(args) < 2 + tp + up THEN Refused
      ELSE Form(op, table, args[1], IF tp = 1 THEN args[3] ELSE Empty,
                IF up = 1 THEN args[3 + tp] ELSE Empty)

\* NameTPassUPass: flags that are no number count as 0.
NameTPassUPass(args, op, table) ==
  LET flags == StrToInt(args[2], 0)
      tp == flags % 2
      up == flags \div 2
  IN  IF Len(args) # 2 + tp + up THEN Refused
      ELSE Form(op, table, args[1], IF tp = 1 THEN args[3] ELSE Empty,
                IF up = 1 THEN args[3 + tp] ELSE Empty)

\* What new_table and table_join of 3333-server.py make of a command.
PyRead(cmd) ==
  IF cmd[1] = "ntbl"
    THEN IF Len(cmd) < 3 THEN Refused ELSE NameTPassUPass(Tail(cmd), "ntbl", cmd[2])
    ELSE IF Len(cmd) < 4 THEN Refused ELSE NameTPassUPass(SubSeq(cmd, 3, Len(cmd)), "join", cmd[2])
=============================================================================
