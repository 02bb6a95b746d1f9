SPECIFICATION FairSpec
INVARIANTS
    TypeOK
    WorkersCanPublish
    NetworkMeansComplete
PROPERTY NoHalfNode
