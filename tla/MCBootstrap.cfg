SPECIFICATION Spec
CONSTANTS
    Extensions <- MCExtensions
    MaxBoots = 4
INVARIANTS
    TypeOK
    UninterruptedIsComplete
    ProxyNeverSeesBootstrap
PROPERTIES
    CompleteIsFinal
    DamageIsFinal
    GoodVolumeServes
