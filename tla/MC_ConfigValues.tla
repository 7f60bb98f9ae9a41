--------------------------- MODULE MC_ConfigValues ---------------------------
EXTENDS ConfigValues, TLC

\* Input strings up to the length of "exclude:group:<group>" for group
\* filters, of "read-only" and "online-<name>" for the other parsers.
MCMaxLen == [k \in StringKinds |-> CASE k = "group-filter" -> 5
                                     [] k \in {"allocation-policy", "retention-policy", "notify"} -> 2
                                     [] OTHER -> 3]
=============================================================================
