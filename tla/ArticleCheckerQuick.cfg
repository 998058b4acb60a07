\* One worker on a page with two absolute links, with --quick.
SPECIFICATION Spec
CONSTANTS
    Runs <- MCQuickRuns
    Hash <- MCHash
    Encoded <- MCEncoded
INVARIANT QuickReportsOnce
