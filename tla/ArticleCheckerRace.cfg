\* Two workers record three items of one hash.
SPECIFICATION FairSpec
CONSTANTS
    Runs <- MCRedundantRuns
    Hash <- MCHash
    Encoded <- MCEncoded
INVARIANT AllInBucket
