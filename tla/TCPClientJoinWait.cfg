SPECIFICATION FairSpec
PROPERTY
    JoinTimesOut
