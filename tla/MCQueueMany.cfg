CONSTANTS
  Senders = {s1, s2}
  Receivers = {r1, r2}
  Size = 8
  Lengths = {0, 2}
  Waits = {"nowait", "timed"}
  SingleSender = FALSE
  SingleReceiver = FALSE
  MaxSends = 3
SPECIFICATION Spec
SYMMETRY Symmetry
PROPERTY ImplementsFifo
