--------------------------- MODULE MCConversions ----------------------------
(* The conversions between text and objects for TLC: one character for     *)
(* each way the class Uri treats one, and octets of two bits.  A behaviour *)
(* converts a URI or an address; an assignment overwrites the whole        *)
(* object, so that one is enough.                                          *)
EXTENDS UriFormat, Addresses

MCLower == [c \in {"A", "a"} |-> "a"]
MCDigitOf == [d \in {"0", "9"} |-> IF d = "0" THEN 0 ELSE 9]
MCAlphabet == [
  scheme   |-> {"A", "a"},      user     |-> {"a"},
  password |-> {"a", ":"},      domain   |-> {"a", ":"},
  port     |-> {"0", "9"},      path     |-> {"a", "/", ":"},
  fragment |-> {"a", "?", "@"}, key      |-> {"a"},
  value    |-> {"a", "="}]
MCStanzas == [key : {<<>>, <<"a">>}, value : {<<>>, <<"a">>, <<"=">>}]
MCValues == {<<>>, <<"a">>, <<"9">>, <<"9", "0">>}

MCInit == Init /\ AddressInit

ConvertUri == numbers = <<>> /\ Next /\ UNCHANGED <<numbers, address>>

ConvertAddress ==
  /\ Picked(parts) = 0 /\ origin = "none" /\ numbers = <<>>
  /\ \E t \in NumberTexts : Assign(t)
  /\ UNCHANGED vars

MCNext == ConvertUri \/ ConvertAddress

MCSpec == MCInit /\ [][MCNext]_<<vars, numbers, address>>
=============================================================================
