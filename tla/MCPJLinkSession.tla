---------------------------- MODULE MCPJLinkSession -----------------------------
(* An instance of PJLinkSession for TLC, as the call for the lamp of a status chain: frames
   of a few bytes; hours of one digit, with a leading zero and of two digits; no further
   lamp, one, and a space with nothing after it. *)
EXTENDS StatusChain

MCHours == <<"0">> :> 0 @@ <<"0", "3">> :> 3 @@ <<"2", "1">> :> 21
MCLamps == {<<>>, <<" ">>, <<" ", "1", " ", "0">>}
=================================================================================
