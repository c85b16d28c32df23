---------------------------- MODULE ModulePrograms ----------------------------
(***************************************************************************)
(* Two modules that may import each other.  Each begins with the messages  *)
(* it needs; then come up to three statements of a menu in the root, and   *)
(* up to one in the library.                                               *)
(***************************************************************************)
EXTENDS Naturals, Sequences

Par(ty) == [as |-> "A", ty |-> ty, bind |-> "none", merge |-> "none", given |-> ty # "none"]
NoClause == [s |-> "clause", name |-> "p", head |-> <<>>, body |-> <<>>, stop |-> "absent"]
DeclSt(kind, name, ty, bad, cl) ==
    [s |-> "decl", kind |-> kind, name |-> name, params |-> <<Par(ty)>>,
     attrs |-> {}, bad |-> bad, clause |-> cl]
ClauseSt(name, head, body, stop) ==
    [s |-> "clause", name |-> name, head |-> head, body |-> body, stop |-> stop]
Pred(sign, name, v) == [a |-> "pred", sign |-> sign, name |-> name, args |-> <<v>>]

Messages == <<DeclSt("message", "m", "u32", FALSE, NoClause),
              DeclSt("message", "n", "u64", FALSE, NoClause)>>

MCArity == [m |-> 1, n |-> 1, p |-> 1, q |-> 1, z |-> 0]

FromM == ClauseSt("p", <<"X">>, <<Pred("pos", "m", "X")>>, "no")
RootMenu ==
    {DeclSt("local", "p", "none", FALSE, NoClause),
     DeclSt("local", "p", "u32", FALSE, NoClause),
     DeclSt("local", "p", "u64", FALSE, NoClause),
     DeclSt("local", "q", "none", FALSE, ClauseSt("q", <<"X">>, <<Pred("pos", "p", "X")>>, "no")),
     DeclSt("functor", "q", "u32", TRUE, NoClause),
     FromM,
     ClauseSt("p", <<"X">>, <<Pred("pos", "n", "Y"), Pred("neg", "q", "X"),
                              [a |-> "cmp", l |-> "X", r |-> "Y"]>>, "no"),
     ClauseSt("q", <<"X">>, <<Pred("pos", "p", "X")>>, "no"),
     ClauseSt("m", <<"X">>, <<Pred("pos", "p", "X")>>, "no"),
     ClauseSt("p", <<"X">>, <<[a |-> "assign", var |-> "X", ty |-> "u32"]>>, "no"),
     ClauseSt("z", <<>>, <<Pred("force", "m", "X"), Pred("pos", "p", "Y")>>, "no"),
     ClauseSt("p", <<"X">>, <<>>, "head"),
     ClauseSt("p", <<"X">>, <<Pred("pos", "p", "X")>>, "body"),
     ClauseSt("z", <<>>, <<>>, "body")}
LibMenu ==
    {<<>>, <<DeclSt("export", "p", "none", FALSE, NoClause)>>,
     <<DeclSt("local", "q", "u32", FALSE, NoClause)>>,
     <<DeclSt("export", "p", "none", FALSE, FromM)>>,
     <<DeclSt("local", "q", "none", FALSE, ClauseSt("q", <<"X">>, <<[a |-> "assign", var |-> "X", ty |-> "none"],
                                                               Pred("pos", "n", "X")>>, "no"))>>}

ImportOf(m) == <<[s |-> "import", mod |-> m]>>
RootBodies == UNION {[1..n -> RootMenu] : n \in 1..3}

MCPrograms ==
    {[root |-> Messages \o b, lib |-> <<>>] : b \in RootBodies}
    \cup {[root |-> ImportOf("lib") \o b, lib |-> ImportOf("root") \o Messages \o l] :
             b \in RootBodies, l \in LibMenu}
    \cup {[root |-> Messages \o ImportOf("lib"), lib |-> <<>>]}
=============================================================================
