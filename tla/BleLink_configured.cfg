SPECIFICATION FairSpec
CONSTANT MaxTimeouts = 1
INVARIANT ActivatedIsConfigured
