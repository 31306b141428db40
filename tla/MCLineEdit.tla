----------------------------- MODULE MCLineEdit ------------------------------
(* A buffer of four bytes, a history of three lines, a terminal of two     *)
(* columns: a line takes one to three rows.                                *)
EXTENDS LineEdit

MCFiles == {<<>>, << <<"a">>, <<"a">>, <<" ">>, <<"a">>, <<"b">> >>, << <<"a", "b", "a">> >>}
MCCooked == {<<>>, <<"b">>}
=============================================================================
