\* Four threads, one only reads, two only write, the one with a deadline does both.
SPECIFICATION FairSpec
CONSTANTS
  Thread = {1, 2, 3, 4}
  Reader = {1, 2}
  Writer = {2, 3, 4}
  Timed = {2}
INVARIANTS
  TypeOK
  Exclusion
  GatesNeedReservation
  NoLostWake
PROPERTY
  DrainEnds
