----------------------------- MODULE MCFtpServer ----------------------------
(***************************************************************************)
(* Dialogues for FtpServer: one client sends two names, or a longer name   *)
(* and a password; the other a command that the server does not know.      *)
(***************************************************************************)
EXTENDS FtpServer

CONSTANTS talker, other,   \* clients
          x, y             \* letters

Unknown == <<"NOOP", "CR", "LF">>
Long    == {<<"USER", x, "CR", "LF", "USER", y, "CR", "LF">>,
            <<"USER", x, y, "CR", "LF", "PASS", y, "CR", "LF">>}

MCScripts == {[c \in Clients |-> IF c = talker THEN s ELSE Unknown] : s \in Long}
=============================================================================
