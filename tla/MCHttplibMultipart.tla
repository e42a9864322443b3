-------------------------- MODULE MCHttplibMultipart --------------------------
(***************************************************************************)
(* A boundary of two characters, and contents with the beginnings of a     *)
(* delimiter in them.                                                      *)
(***************************************************************************)
EXTENDS HttplibMultipart

MCBoundary == <<"B", "C">>
MCContents ==
  {<<>>, <<"x">>, <<"CR", "LF">>, <<"-", "-", "B", "C">>, <<"CR", "LF", "-", "x">>,
   <<"CR", "LF", "-", "-", "x">>, <<"CR", "LF", "-", "-", "x", "x">>, <<"x", "CR", "CR", "LF">>}
MCEpilogues == {<<>>, CRLF}
==============================================================================
