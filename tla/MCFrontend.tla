----------------------------- MODULE MCFrontend -----------------------------
(* A small instance of Frontend for TLC.                                    *)
EXTENDS Frontend

Line(form, parens) == [form |-> form, parens |-> parens]

\* "", "; (", ":q", ".my.x", ".my.x: (", "(f", "x) ; (", "))" and a shebang.
Blank == Line("blank", 0)
Remark == Line("note", 0)
QuitWord == Line("quit", 0)
Dot == Line("dot", 0)
DotOpen == Line("dot", 1)
Open == Line("code", 1)
Shut == Line("code", -1)
ShutTwice == Line("code", -2)
Shebang == Line("shebang", 0)

MCLines == {Blank, Remark, QuitWord, Dot, DotOpen, Open, Shut, ShutTwice,
            Shebang}
MCScripts == {<<Shebang, Blank, Dot>>, <<Shebang>>, <<Remark, Open, Shut>>}
=============================================================================
