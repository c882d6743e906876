SPECIFICATION FairSpec
CONSTANTS
    Streams = {s1}
    NoStream = NoStream
    Buffer = 1
    Numbers = 3
PROPERTY
    AbandonedStreamEnds
