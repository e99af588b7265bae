CONSTANTS
    File <- MCFile
    MaxVersion = 3
    Content <- MCContent
    Paged = {"submissions"}
    Torn <- MCTorn
    MaxFailures = 2
SPECIFICATION FairSpec
INVARIANTS
    DamageIsVisible CurrentReleaseIsWhole
    ServesCompleteBundle CurrentBundleIsWhole
PROPERTIES ReleaseConverges KeepsBundle EventuallyCurrent
