SPECIFICATION FairSpec
PROPERTY
    EofCloses
