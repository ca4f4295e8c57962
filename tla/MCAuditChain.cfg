\* Two writers on two replicas, a key change and damage to one row, with fairness.
CONSTANTS
    Processes = {p1, p2}
    Writers = {w1, w2}
    Legacy = {"ai"}
    Direct = {"effect"}
    MaxKey = 1
    MaxDamage = 1
    MaxRestarts = 1
    Nobody = nobody
SPECIFICATION FairSpec
CHECK_DEADLOCK FALSE
INVARIANTS
    TypeOK
    VerdictIsRight
    GroupsAreWhole
PROPERTIES
    AppendOnly
    WritersFinish
    BreaksAreSent
