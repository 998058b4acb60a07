\* One or two workers on an archive that takes every branch, and one worker on
\* pages with all kinds of links.
SPECIFICATION FairSpec
CONSTANTS
    Runs <- MCRuns
    Hash <- MCHash
    Encoded <- MCEncoded
INVARIANTS
    TypeOK
    MessagesExact
    RedundancyExact
PROPERTIES
    Termination
