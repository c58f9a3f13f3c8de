SPECIFICATION FairSpec
CONSTANT MaxTimeouts = 1
PROPERTY ActivatedComesUp
