----------------------------- MODULE MCZimCheck -----------------------------
(***************************************************************************)
(* Instances of ZimCheck for TLC.                                          *)
(***************************************************************************)
EXTENDS ZimCheck

\* -A, -C, -U, and most of what does not need the workers.
MCTestChoices ==
    {TestTypes, {"CHECKSUM"}, {"URL_INTERNAL"},
     {"METADATA", "FAVICON", "MAIN_PAGE", "CHECKSUM", "REDIRECT"}}

\* Combinations of --json, --quick and --progress, the first and the last not
\* together.
MCOutputs ==
    {o \in [json : BOOLEAN, quick : BOOLEAN, progress : BOOLEAN] :
        o.json # o.progress}

MCAllTests == {TestTypes}

\* -J -B
MCJsonAndProgress == {[json |-> TRUE, quick |-> FALSE, progress |-> TRUE]}

=============================================================================
