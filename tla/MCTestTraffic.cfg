CONSTANTS
    Senders = {w1, w2}
    Receivers = {r1, r2}
    Width = 8
    MaxSeq = 2
    MaxDups = 1
    MaxStarts = 2
SPECIFICATION FairSpec
INVARIANTS TypeOK SeqOnce RepliesKnown CountsAgree LossReported StopQuiesces
PROPERTY StopEnds
