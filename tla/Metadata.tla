------------------------------ MODULE Metadata ------------------------------
(***************************************************************************)
(* zim::Metadata of src/metadata.cpp with its constraints: what zimwriterfs*)
(* demands of the metadata it writes and zimcheck of what it reads.        *)
(*                                                                         *)
(* Metadata are a function from names to values. Of a value its number of  *)
(* characters (`length`) and of bytes (`size`), its mime type and whether  *)
(* it matches the regular expression of its name (`matches`) are kept.     *)
(***************************************************************************)
EXTENDS Integers

TextPlain == {"text/plain", "text/plain;charset=utf-8"}
Png == {"image/png"}

Row(name, isMandatory, minLength, maxLength, hasRegex, mimeTypes) ==
    [name |-> name, isMandatory |-> isMandatory, minLength |-> minLength,
     maxLength |-> maxLength, hasRegex |-> hasRegex, mimeTypes |-> mimeTypes]

ReservedMetadataInfo ==
    {Row("Name", TRUE, 1, 0, FALSE, TextPlain),
     Row("Title", TRUE, 1, 30, FALSE, TextPlain),
     Row("Language", TRUE, 3, 0, TRUE, TextPlain),
     Row("Creator", TRUE, 1, 0, FALSE, TextPlain),
     Row("Publisher", TRUE, 1, 0, FALSE, TextPlain),
     Row("Date", TRUE, 10, 10, TRUE, TextPlain),
     Row("Description", TRUE, 1, 80, FALSE, TextPlain),
     Row("LongDescription", FALSE, 0, 4000, FALSE, TextPlain),
     Row("Counter", FALSE, 0, 0, TRUE, TextPlain),
     Row("Illustration_48x48@1", TRUE, 0, 0, TRUE, Png)}
    \cup {Row(name, FALSE, 0, 0, FALSE, TextPlain) :
            name \in {"License", "Tags", "Relation", "Flavour", "Source", "Scraper"}}

Error(name, what) == [name |-> name, what |-> what]

CheckMandatoryMetadata(data) ==
    {Error(row.name, "missing") :
        row \in {r \in ReservedMetadataInfo : r.isMandatory /\ r.name \notin DOMAIN data}}

\* Metadata that is not reserved is ignored; 0 is no limit.
Violations(row, value) ==
    (IF value.length < row.minLength THEN {"too short"} ELSE {})
    \cup (IF row.maxLength # 0 /\ value.length > row.maxLength THEN {"too long"} ELSE {})
    \cup (IF row.hasRegex /\ ~value.matches THEN {"regex"} ELSE {})
    \cup (IF value.mimeType \notin row.mimeTypes THEN {"MIME type"} ELSE {})

CheckSimpleConstraints(data) ==
    UNION {{Error(row.name, what) : what \in Violations(row, data[row.name])} :
            row \in {r \in ReservedMetadataInfo : r.name \in DOMAIN data}}

CheckComplexConstraints(data) ==
    IF \/ "LongDescription" \notin DOMAIN data
       \/ data["LongDescription"].size = 0
       \/ data["LongDescription"].size >= data["Description"].size
      THEN {} ELSE {Error("LongDescription", "shorter than Description")}

\* The complex constraint relies on what the others ensure: there is a Description.
Check(data) ==
    LET errors == CheckMandatoryMetadata(data) \cup CheckSimpleConstraints(data)
    IN  IF errors # {} THEN errors ELSE CheckComplexConstraints(data)
=============================================================================
