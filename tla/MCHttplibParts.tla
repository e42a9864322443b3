--------------------------- MODULE MCHttplibParts ---------------------------
(***************************************************************************)
(* Four parts of httplib.h on small inputs: bodies of forms with the       *)
(* beginnings of a delimiter in them, and every text over the alphabet of  *)
(* a topic, up to a length.                                                *)
(***************************************************************************)
EXTENDS HttplibParts

CR == "CR"
LF == "LF"

MCBoundary == <<"B", "C">>
MCContents ==
  {<<>>, <<"x">>, <<CR, LF>>, <<"-", "-", "B", "C">>, <<CR, LF, "-", "x">>,
   <<CR, LF, "-", "-", "x">>, <<CR, LF, "-", "-", "x", "x">>, <<"x", CR, CR, LF>>}
MCEpilogues == {<<>>, <<CR, LF>>}

MCAlphabet ==
  \* % + blank 2 & u, zero and # and one beyond 7 bits
  [url    |-> {37, 43, 32, 50, 38, 117, 0, 35, 195},
   path   |-> {47, 46, 120},                    \* / . x
   base64 |-> {0, 77, 255},
   range  |-> {65, 66},
   chunk  |-> {13, 10, 48},                     \* CR LF 0
   host   |-> {42, 46, 102, 111}]               \* * . f o
MCMaxLength == [url |-> 4, path |-> 7, base64 |-> 6, range |-> 5, chunk |-> 4, host |-> 4]
MCMaxOther  == [url |-> 1, path |-> 0, base64 |-> 0, range |-> 0, chunk |-> 2, host |-> 3]
=============================================================================
