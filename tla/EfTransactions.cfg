\* Three requests that compete, as many retries as there are others, two
\* failures.
SPECIFICATION FairSpec
CONSTANTS
  r1 = r1
  r2 = r2
  r3 = r3
  Requests = {r1, r2, r3}
  Products = {"lamp", "pen", "desk"}
  Items <- Ordered
  StockOf <- InStock
  AtStart = {"lamp", "pen"}
  MaxRetryCount = 2
  MaxFaults = 2
INVARIANTS TypeOK StockAccounted AnswerTellsOrder
PROPERTY RequestsEnd
\* Every request may have been answered.
CHECK_DEADLOCK FALSE
