CONSTANTS
    Thread = {t1, t2, t3}
    MaxHolds = 2
SPECIFICATION FairSpec
INVARIANTS TypeOK WriterIsAlone NoCircle UpdaterNeverQueues
PROPERTIES ImplementsContract WriterServed WriterNotOvertaken
