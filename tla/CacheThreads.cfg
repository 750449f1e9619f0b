SPECIFICATION FairSpec
CONSTANTS
    Threads = {t1, t2, t3}
    Tables = {orders, users}
    Nobody = Nobody
    MaxVersion = 2
INVARIANTS
    TypeOK
    OneReflection
    NobodyWaitsInVain
    StaleOnlyByRace
PROPERTY
    LookupsReturn
