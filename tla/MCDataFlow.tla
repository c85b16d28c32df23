------------------------------ MODULE MCDataFlow ------------------------------
(* The programs and the values of their columns. *)
EXTENDS QueryPrograms

MCOrder == <<"a", "b", "c", "u1", "u2">>
MCValues == {"a", "b", "c"}
MCFunctorRows == "succ" :> {<<"a", "b">>, <<"b", "c">>} @@ "even" :> {<<"b">>}
=============================================================================
