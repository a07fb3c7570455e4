SPECIFICATION Spec
CONSTANTS
    Servers = {v1}
    SampleIds = {1, 2}
    Workers = {w1}
    Instants <- MCInstants
    RawRetention = 10
    FiveMinuteRetention = 60
    AggregatedRetention = 120
    MaxAge = 20
INVARIANTS
    Conservation
