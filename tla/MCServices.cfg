SPECIFICATION FairSpec
CONSTANTS
  Guests = {"g1", "g2"}
  Asks <- OneEach
  MaxConns = 2
  MaxFaults = 1
INVARIANTS AtMostOnce OwnContents ConnsTracked
PROPERTY Answered
