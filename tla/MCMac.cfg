CONSTANTS
    Receivers = {r1}
    Senders = {s1}
    PNUM = 4
    IM = {3, 7}
    MaxRounds = 4
SPECIFICATION MCSpec
INVARIANT AllButLast
  
CHECK_DEADLOCK FALSE
