SPECIFICATION FairSpec
CONSTANTS
    imA = imA
    imB = imB
    Images = {imA, imB}
    Noise = Noise
    Clean = Clean
    Junk = Junk
    ImgLen <- MCImgLen
    PartSize = 4
    Blk = 2
    Buf = 2
    MaxSize = 6
INVARIANTS
    TypeOK
    AlwaysBootable
    ReadyToServe
    AnswerTruthful
PROPERTIES
    ProgrammedOnce
    ImplementsAtomicUpdate
    UpdateTakesEffect
    RequestEnds
