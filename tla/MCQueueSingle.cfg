CONSTANTS
  Senders = {s1}
  Receivers = {r1}
  Size = 5
  Lengths = {1, 2}
  Waits = {"forever"}
  SingleSender = TRUE
  SingleReceiver = TRUE
  MaxSends = 4
SPECIFICATION ServedSpec
INVARIANT TypeOK
INVARIANT SleeperIsWoken
PROPERTY ImplementsFifo
PROPERTY SendersUnblock
PROPERTY Drains
