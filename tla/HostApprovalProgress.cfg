SPECIFICATION ClientSpec
CONSTANTS
  Work = {w1, w2}
  Capacity = 2
  TTL = 1
  MaxOffers = 2
PROPERTY Answered
