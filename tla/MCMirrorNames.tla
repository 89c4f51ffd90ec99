---------------------------- MODULE MCMirrorNames -----------------------------
(***************************************************************************)
(* MirrorNames for the model checker: arguments of all forms, and callers  *)
(* whose names have the characters that a URI treats specially.            *)
(***************************************************************************)
EXTENDS MirrorNames

\* Twelve names, and six texts that are none.  Of a name four characters are kept:
\* some are too long, in quotes or not, and one comes to be cut to another one.
SomeArgs ==
  {<<"a">>, <<"A">>, <<"a", ".", "A">>, <<"A", ".", "a">>, <<Dq, "a", Dq>>, <<Dq, ".", Dq>>,
   <<Dq, Dq, Dq, Dq>>, <<"A", ".", Dq, "a", Dq>>, <<"a", ".", Dq, "A", ".", "a", Dq>>,
   <<Dq, "a", Dq, ".", Dq, "A", Dq>>,
   <<"a", "a", "a", "a">>, <<"a", "a", "a", "a", "a">>} \cup
  {<<>>, <<"a", ".">>, <<Dq, Dq>>, <<Dq, Dq, Dq>>, <<Dq, "a", Dq, "a", Dq>>, <<"a", ".", "a", ".", "a">>}
SchemaNames == {<<"a">>, <<"A">>}
First == <<"a">>
ShortNames == {<<"a">>, <<"A", "a">>}

Labels == {<<"a">>, <<"%", "2", "F">>, <<"?", "u", "=", "a">>, <<"/", "&">>}
SocketLists == {<<"/", "a">>, <<" ", "/", " ", "&", " ", ",", "a">>}
AllCallers == [database : Labels, user : Labels, sockets : SocketLists]
PlainCallers == [database : {<<"a">>}, user : {<<"a">>}, sockets : {<<"/", "a">>}]
=============================================================================
