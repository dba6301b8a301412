SPECIFICATION FairSpec
CONSTANTS
    p1 = p1  p2 = p2  r1 = r1  g1 = g1  g2 = g2  g3 = g3
    old = old  new = new  n1 = n1  s1 = s1  s2 = s2
    Absent = Absent  Directory = Directory  None = None
    LegacySet = LegacySet  Unpublished = Unpublished  NoNotes = NoNotes
    Payloads <- MCPayloads
    Publishers <- MCPublishers
    Readers <- MCReaders
    Gens <- MCGens
    Notes <- OneNote
    RouteStates <- MCRouteStates
    MaxGenerations = 3
    MaxFaults = 2
INVARIANTS
    TypeOK
    RecoveryNeverStuck
    MissingPathIsRecoverable
    PinnedSetIsStable
    NoticeFollowsPointer
PROPERTIES
    RouteStateSurvives
    AtomicStore
    JournalIsResolved
