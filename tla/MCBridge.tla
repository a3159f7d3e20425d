------------------------------ MODULE MCBridge ------------------------------
(* Small instances of Bridge.                                              *)
EXTENDS Bridge

CONSTANTS ticker, settle, p1, p2, fahrenheit

TickerOnly == {ticker}
TickerAndSettle == {ticker, settle}
State == <<"state">>
TwoPayloads == {p1, p2}
OneUnit == {fahrenheit}
=============================================================================
