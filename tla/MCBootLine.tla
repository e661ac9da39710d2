----------------------------- MODULE MCBootLine -----------------------------
(* A command of two characters and a buffer of four, and streams in which  *)
(* a line can outgrow the buffer and still end in the command.             *)
EXTENDS BootLine
MCCommand == <<"B", "T">>
=============================================================================
