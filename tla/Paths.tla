-------------------------------- MODULE Paths --------------------------------
(***************************************************************************)
(* Paths of src/tools.cpp as sequences of the components between their     *)
(* slashes: "a/b" is <<"a", "b">>, "a/" is <<"a", "">> and the empty path  *)
(* is <<"">>. Paths of entries do not begin with a slash, and only the     *)
(* last component may be empty.                                            *)
(***************************************************************************)
EXTENDS Integers, Sequences, SequencesExt

EmptyPath == <<"">>

\* The length of the longest common prefix of b and t.
CommonLength(b, t) == Len(LongestCommonPrefix({b, t}))

\* From the entry b to t: up from b's directory to the last one that it shares
\* with t and down to t. Where t is that directory, it goes up once more, as
\* the tests want it (tools-test.cpp, computeRelativePath).
GetRelativePath(b, t) ==
    LET same == CommonLength(Front(b), t)
        ups == (Len(b) - same) + (IF same = Len(t) THEN 1 ELSE 0)
    IN  [n \in 1..(ups - 1) |-> ".."] \o SubSeq(t, same + 1, Len(t))

ComputeRelativePath(base, target) ==
    IF Last(target) # "" THEN GetRelativePath(base, target)
    ELSE IF base = target THEN <<".", "">>
    ELSE Append(GetRelativePath(base, Front(target)), "")

\* From the directory of `path` along the components of `relative`; ".." at
\* the root stays there.
ComputeAbsolutePath(path, relative) ==
    LET Step(dir, component) ==
            CASE component = ".." -> IF dir = <<>> THEN <<>> ELSE Front(dir)
              [] component \in {"", "."} -> dir
              [] OTHER -> Append(dir, component)
        reached == FoldLeft(Step, Front(path), relative)
    IN  IF reached = <<>> THEN EmptyPath ELSE reached
=============================================================================
