SPECIFICATION Spec
CONSTANTS
  ticker = ticker
  settle = settle
  p1 = p1
  p2 = p2
  fahrenheit = fahrenheit
  None = None
  Ticker = ticker
  Settle = settle
  OnConnect = OnConnect
  Publishers <- TickerAndSettle
  Topics <- State
  Payloads <- TwoPayloads
  Units <- OneUnit
CHECK_DEADLOCK FALSE
INVARIANT LastIsRetained
