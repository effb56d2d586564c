---------------------------- MODULE MCFtpControl ----------------------------
(***************************************************************************)
(* Instances of FtpControl for TLC.                                        *)
(***************************************************************************)
EXTENDS FtpControlProperties

Login == {[name |-> name, arg |-> "ok"] : name \in {"USER", "PASS"}}
Settings == {[name |-> "MODE", arg |-> "B"], [name |-> "MODE", arg |-> "S"],
             [name |-> "TYPE", arg |-> "I"], [name |-> "TYPE", arg |-> "bad"]}
Downloading == {Command("LIST"), [name |-> "RETR", arg |-> "ok"]}
Uploading == {[name |-> name, arg |-> "ok"] : name \in {"STOR", "STOU"}}
Endpoints == {Command("PASV"), [name |-> "PORT", arg |-> "ok"]}

\* What a user types who leaves ABOR to the client.
PlainLines == Login \union Settings \union Downloading \union Uploading
              \union Endpoints
              \union {Command("QUIT"), Command("NOOP"), Command("CWD")}
PlainCommands == PlainLines \union {Command("ABOR")}

\* A user of a session where everything may go wrong.  STOU stands for every
\* upload, the end of the input for a QUIT; the socket of a PORT stays active.
TroubledLines == Login \union Downloading
                 \union {[name |-> "STOU", arg |-> "ok"],
                         [name |-> "PORT", arg |-> "ok"],
                         [name |-> "MODE", arg |-> "B"]}
TroubledCommands == TroubledLines
                    \union {Command(name) : name \in {"PASV", "ABOR", "QUIT"}}
AllTroubles == {"socket", "knock", "knockfails", "giveup", "uploadfails",
                "unreadable", "localfile", "stray"}

\* A user who does little else.
AborLines == Login \union {Command("ABOR"), [name |-> "MODE", arg |-> "B"]}
AborCommands == AborLines \union {Command(name) : name \in {"PASV", "QUIT"}}
=============================================================================
