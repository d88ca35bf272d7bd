------------------------- MODULE MCNotifierListener -------------------------
(* Small instances of NotifierListener for TLC. *)
EXTENDS NotifierListener

\* Notify(), a vector of messages, an empty message and an empty vector.
AllMessages == {<<kNotifyMessage>>, <<"a", "b">>, <<"">>, <<>>}
PlainMessages == {<<kNotifyMessage>>, <<"a", "b">>}
=============================================================================
