--------------------------- MODULE MCKrakenBattle ---------------------------
(* Small instances of KrakenBattle for TLC. *)
EXTENDS KrakenBattle

\* Payloads of none to four pieces, the markup of the header among them.
SomePayloads ==
  {<<>>, <<"x">>, <<"<", ">">>, <<"<", "Done", ">">>,
   <<"x", "y", "z", "<">>, <<"x", ">", "y", "<", "z">>,
   <<"x", "y", "<", ">", "y", "z", "x">>}
=============================================================================
