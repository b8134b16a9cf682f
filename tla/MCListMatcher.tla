---------------------------- MODULE MCListMatcher ----------------------------
(* ListMatcher on two delimiter bytes and keys that share prefixes, so that *)
(* the prefix match, the byte order (a key before its extensions) and the  *)
(* max_keys + 1 limit cut through one key's rows.                           *)
EXTENDS ListMatcher

\* byte codes of "/" and "a"
MCSlash == 47
MCa == 97

MCKeys == {<<MCa>>, <<MCa, MCSlash, MCa>>, <<MCSlash, MCa>>}
MCQueryPrefixes == {<< >>, <<MCa>>}
MCMarkers == {<< >>, <<MCa>>}
MCPageSizes == {1, 2}
MCDelimiters == {MCSlash}
=============================================================================
