-------------------------------- MODULE MCCli ---------------------------------
(* Cli with the command tables of OBDII.c. *)
EXTENDS Cli

(* Each command of the tables as the only one listed, and a longer list. *)
EachCommand == {{c} : c \in OBDIICommands}
MixedList == {c \in OBDIICommands : c.mode = 9 \/ c.mode = 3 \/ c.pid = 13}
AllCommands == OBDIICommands
ListsOfCommands == EachCommand \cup {MixedList}
===============================================================================
