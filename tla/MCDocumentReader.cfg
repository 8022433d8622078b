SPECIFICATION FairSpec
CONSTANT Files <- MCAllFiles
INVARIANTS
    NewestVersionRead
    ResultSound
    RestoredSoundly
PROPERTY ReadingEnds
CHECK_DEADLOCK FALSE
