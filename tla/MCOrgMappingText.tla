--------------------------- MODULE MCOrgMappingText ---------------------------
(***************************************************************************)
(* Small alphabets for OrgMappingText.                                     *)
(***************************************************************************)
EXTENDS OrgMappingText

\* What the syntax of org_mapping and of patterns tells apart. A name with a
\* comma, or one that ends in a backslash or begins with a space, is written
\* to the text unescaped and not read back: no name here has one of these.
\* Some groups have an org in them.
Names == {s \in BoundedSeq({"a", ":", "\\", "*"}, 2) : s = <<>> \/ Last(s) # "\\"}
MCGroupNames == Names \cup {<<"*", ":", "*">>, <<"a", "\\", ":", "a">>, <<"a", "?">>,
                              <<"?", " ", "*", "a">>, <<":", "1">>, <<"a", ":", "1", "1">>,
                              <<":", "1", ":">>}
MCOrgIds == {<<"1">>, <<"1", "1">>}
MCClaims == BoundedSeq({"a", ":"}, 2) \cup
            {<<"\\", "a">>, <<"a", " ", "a">>, <<"a", "\\", ":", "a">>}

\* The theorems about reading assume this of the names.
ASSUME MCNamesAreReadable == ReadableNames
===============================================================================
