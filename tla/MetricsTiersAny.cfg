SPECIFICATION Spec
CONSTANTS
    Servers = {v1, v2}
    SampleIds = {1, 2}
    Workers = {w1, w2}
    Instants <- MCInstants
    RawRetention = 10
    FiveMinuteRetention = 60
    AggregatedRetention = 120
    MaxAge = 110
SYMMETRY Symmetry
INVARIANTS
    CountedOnce
PROPERTIES
    LostOnlyByOverwriting
