CONSTANTS
  Senders = {s1, s2}
  Receivers = {r1}
  Size = 2
  Lengths = {1}
  Waits = {"forever"}
  SingleSender = FALSE
  SingleReceiver = TRUE
  MaxSends = 3
SPECIFICATION ServedSpec
PROPERTY SendersUnblock
