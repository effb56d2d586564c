--------------------------- MODULE MCSessionAlone ---------------------------
(***************************************************************************)
(* An instance of SessionAlone for TLC: every verb with every argument its *)
(* handler tells apart.                                                    *)
(***************************************************************************)
EXTENDS SessionAlone

Line(name, args) == {[name |-> name, arg |-> arg] : arg \in args}
AllCommands ==
    UNION {Line(name, {"none"}) : name \in Verbs}
    \union UNION {Line(name, {"ok"}) :
                    name \in Verbs \ {"empty", "invalid", "LIST", "ABOR"}}
    \union Line("PORT", {"bad", "zero"}) \union Line("STOR", {"bad"})
    \union Line("STOU", {"bad"})
    \union Line("TYPE", {"A", "I"}) \union Line("MODE", {"S", "B", "C"})
AllTroubles == {"socket", "knock", "knockfails", "giveup", "unreadable"}
=============================================================================
