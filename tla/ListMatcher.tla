----------------------------- MODULE ListMatcher -----------------------------
(***************************************************************************)
(* The listmatch queries of the web server (src/web_server/listmatcher.py) *)
(* over the segment table of one node, and the writes that fill the table. *)
(*                                                                         *)
(* list_keys and list_versions read at most max_keys + 1 rows of the       *)
(* collection, ordered by key and newest first, and walk them once, keeping *)
(* what the loop remembers of the previous rows (prev_key; tombstone_key    *)
(* and tombstone_unified_id).  They are operators of the table; the table  *)
(* is changed by the writer's verbs (spec 4.2: archive, cancel,            *)
(* destroy-key), which are not in the repository.                          *)
(*                                                                         *)
(* Data abstraction: one collection; the table holds only rows the query's *)
(* where clause keeps (no handoff rows, no incomplete conjoined upload).   *)
(* A key is a sequence of byte codes, so that `like prefix%`, `key > %s`,  *)
(* `order by key` and str.find are what they are on bytes.  Unified ids    *)
(* and timestamps come from one counter: a later write has both larger.    *)
(***************************************************************************)
EXTENDS Integers, Sequences, SequencesExt

CONSTANTS
    Keys,         \* keys the writers archive
    MaxRows,      \* segment rows the writers create
    NoId,         \* None, for prev_key, file_tombstone_unified_id and delimiter ""
    QueryPrefixes,     \* prefix arguments the clients pass
    Markers,      \* marker / key_marker arguments
    PageSizes,    \* max_keys arguments
    Delimiters    \* delimiter arguments other than "": one byte each

ASSUME ListMatcherAssumption ==
    /\ Keys \subseteq Seq(Nat) \ {<< >>}
    /\ MaxRows \in Nat
    /\ NoId \notin Nat
    /\ QueryPrefixes \subseteq Seq(Nat) /\ Markers \subseteq Seq(Nat)
    /\ PageSizes \subseteq Nat \ {0}
    /\ Delimiters \subseteq Nat

\* segment_status_active, _cancelled, _final, _tombstone
Statuses == {"A", "C", "F", "T"}
Ids == 1..MaxRows

Rows == [key : Keys, unified_id : Ids, status : Statuses, timestamp : Ids,
         file_tombstone_unified_id : Ids \cup {NoId}]

VARIABLES
    segments,     \* nimbusio_node.segment rows of the collection
    clock         \* last unified id / timestamp handed out

vars == <<segments, clock>>

-----------------------------------------------------------------------------
(* The SQL side: byte-wise order of keys, the where clause and the order    *)
(* by of both queries, and the limit.                                      *)
KeyLess(a, b) ==
    \/ IsStrictPrefix(a, b)
    \/ \E i \in 1..Len(a) :
          /\ i <= Len(b)
          /\ SubSeq(a, 1, i - 1) = SubSeq(b, 1, i - 1)
          /\ a[i] < b[i]

RowBefore(r1, r2) ==
    \/ KeyLess(r1.key, r2.key)
    \/ r1.key = r2.key /\ r1.timestamp > r2.timestamp

SegmentQuery(prefix, keyMarker, versionMarker, limit) ==
    LET sel == {r \in segments : /\ IsPrefix(prefix, r.key)
                                 /\ KeyLess(keyMarker, r.key)
                                 /\ r.unified_id > versionMarker}
        sorted == SetToSortSeq(sel, RowBefore)
    IN  SubSeq(sorted, 1, IF limit < Len(sorted) THEN limit ELSE Len(sorted))

TruncatedNever(result, maxKeys) == FALSE

(* truncated = len(result) == request_count *)
Truncated(result, maxKeys) == Len(result) = maxKeys + 1

(* result[:max_keys] *)
Page(result, maxKeys) ==
    SubSeq(result, 1, IF maxKeys < Len(result) THEN maxKeys ELSE Len(result))

Entry(row) == [key |-> row.key, version |-> row.unified_id]

KeysStepTombstoneKeepsPrev(acc, row) ==
    CASE row.key = acc.prev               -> acc
      [] row.status \in {"A", "C"}        -> acc
      [] row.status = "T"                 -> acc
      [] OTHER -> [prev |-> row.key, list |-> Append(acc.list, Entry(row))]

(* One turn of list_keys' loop; acc.prev is prev_key. *)
KeysStep(acc, row) ==
    CASE row.key = acc.prev               -> acc
      [] row.status \in {"A", "C"}        -> acc
      [] row.status = "T"                 -> [acc EXCEPT !.prev = row.key]
      [] OTHER -> [prev |-> row.key, list |-> Append(acc.list, Entry(row))]

(* key.find(delimiter, len(prefix)): 0-based position, or -1 *)
Find(key, d, start) ==
    LET at == {i \in (start + 1)..Len(key) : key[i] = d}
    IN  IF at = {} THEN -1 ELSE Min(at) - 1

(* The prefix set built from the key entries when a delimiter is given. *)
PrefixSet(keyList, prefix, d) ==
    LET pos(e) == Find(e.key, d, Len(prefix))
    IN  {SubSeq(e.key, 1, pos(e) + 1) : e \in {e \in ToSet(keyList) : pos(e) > 0}}

Listing(keyList, truncated, prefix, delimiter) ==
    IF delimiter = NoId
       THEN [key_data |-> keyList, truncated |-> truncated]
       ELSE [prefixes |-> PrefixSet(keyList, prefix, delimiter),
             truncated |-> truncated]

ListKeys(prefix, maxKeys, delimiter, marker) ==
    LET result == SegmentQuery(prefix, marker, 0, maxKeys + 1)
        keyList == FoldLeft(KeysStep, [prev |-> NoId, list |-> << >>],
                            Page(result, maxKeys)).list
    IN  Listing(keyList, Truncated(result, maxKeys), prefix, delimiter)

(* int(version_id_marker_str), 0 on ValueError; a marker string is a     *)
(* number or NoId, a string int() rejects (the default "").              *)
VersionMarker(str) == IF str = NoId THEN 0 ELSE str

(* One turn of list_versions' loop; acc.tkey and acc.tuid are            *)
(* tombstone_key and tombstone_unified_id.                                *)
VersionsStep(acc, row) ==
    CASE acc.tkey # NoId /\ row.key = acc.tkey -> acc
      [] acc.tuid # NoId /\ row.file_tombstone_unified_id = acc.tuid ->
            [acc EXCEPT !.tuid = NoId]
      [] row.status = "T" /\ row.file_tombstone_unified_id = NoId ->
            [acc EXCEPT !.tkey = row.key, !.tuid = NoId]
      [] row.status = "T" ->
            [acc EXCEPT !.tkey = NoId, !.tuid = row.file_tombstone_unified_id]
      [] row.status \in {"A", "C"} -> acc
      [] OTHER -> [acc EXCEPT !.list = Append(@, Entry(row))]

ListVersions(prefix, maxKeys, delimiter, keyMarker, versionMarkerStr) ==
    LET result == SegmentQuery(prefix, keyMarker, VersionMarker(versionMarkerStr),
                               maxKeys + 1)
        keyList == FoldLeft(VersionsStep,
                            [tkey |-> NoId, tuid |-> NoId, list |-> << >>],
                            Page(result, maxKeys)).list
    IN  Listing(keyList, Truncated(result, maxKeys), prefix, delimiter)

-----------------------------------------------------------------------------
(* The writer's verbs (spec 4.2 and 4.4), each at a fresh unified id and   *)
(* timestamp; a segment row is only ever promoted, never rewritten.        *)
Init ==
    /\ segments = {}
    /\ clock = 0

(* The row a verb writes at the next unified id and timestamp. *)
NewRow(k, status, target) ==
    [key |-> k, unified_id |-> clock + 1, status |-> status,
     timestamp |-> clock + 1, file_tombstone_unified_id |-> target]

Write(row) ==
    /\ segments' = segments \cup {row}
    /\ clock' = clock + 1

(* archive-key-start: the first segment of a key goes in as active. *)
ArchiveStart(k) ==
    /\ clock < MaxRows
    /\ Write(NewRow(k, "A", NoId))

(* archive-key-entire: a one-message archive goes in final. *)
ArchiveEntire(k) ==
    /\ clock < MaxRows
    /\ Write(NewRow(k, "F", NoId))

SetStatus(r, status) ==
    /\ r.status = "A"
    /\ segments' = (segments \ {r}) \cup {[r EXCEPT !.status = status]}
    /\ UNCHANGED clock

(* archive-key-final promotes the active row to final. *)
ArchiveFinal(r) == SetStatus(r, "F")

(* archive-key-cancel (or a failed archive) marks it cancelled. *)
CancelArchive(r) == SetStatus(r, "C")

(* destroy-key, with unified_id_to_delete None (every version of the key)  *)
(* or naming one final version of it.  The Destroyer sends it only when    *)
(* the key or the version has final rows.                                  *)
DestroyKey(k) ==
    /\ clock < MaxRows
    /\ \E r \in segments :
          /\ r.key = k /\ r.status = "F"
          /\ \E target \in {NoId, r.unified_id} : Write(NewRow(k, "T", target))

Next ==
    \/ \E k \in Keys : ArchiveStart(k) \/ ArchiveEntire(k) \/ DestroyKey(k)
    \/ \E r \in segments : ArchiveFinal(r) \/ CancelArchive(r)

Spec == Init /\ [][Next]_vars

-----------------------------------------------------------------------------
(* What the listings should be (spec 6.3 and 8.3).  A key is listed by     *)
(* list_keys when its newest final-or-tombstone row is final, with that    *)
(* row's unified id; list_versions lists every final row that no newer      *)
(* tombstone of its key shadows: one for the whole key, or one naming      *)
(* that version.                                                            *)
Decisive(k) ==
    LET rs == {r \in segments : r.key = k /\ r.status \in {"F", "T"}}
    IN  CHOOSE r \in rs : \A q \in rs : q.timestamp <= r.timestamp

ReferenceKeys(prefix, marker) ==
    LET listed == {k \in Keys : /\ IsPrefix(prefix, k) /\ KeyLess(marker, k)
                                /\ \E r \in segments : r.key = k /\ r.status \in {"F", "T"}
                                /\ Decisive(k).status = "F"}
    IN  [i \in 1..Cardinality(listed) |->
           Entry(Decisive(SetToSortSeq(listed, KeyLess)[i]))]

Shadowed(r) ==
    \E t \in segments :
       /\ t.key = r.key /\ t.status = "T" /\ t.timestamp > r.timestamp
       /\ t.file_tombstone_unified_id \in {NoId, r.unified_id}

(* With a delimiter, spec 6.3 asks for the distinct prefixes of the listed *)
(* keys that run from the start of the key to the first delimiter after    *)
(* the query prefix.                                                       *)
ReferencePrefixes(prefix, d) ==
    LET keys == {e.key : e \in ToSet(ReferenceKeys(prefix, << >>))}
        firstDelim(k) == {j \in (Len(prefix) + 1)..Len(k) :
                            /\ k[j] = d
                            /\ \A m \in (Len(prefix) + 1)..(j - 1) : k[m] # d}
    IN  UNION {{SubSeq(k, 1, j) : j \in firstDelim(k)} : k \in keys}

ReferenceVersions(prefix) ==
    LET listed == {r \in segments : /\ IsPrefix(prefix, r.key)
                                    /\ r.status = "F" /\ ~Shadowed(r)}
    IN  [i \in 1..Cardinality(listed) |-> Entry(SetToSortSeq(listed, RowBefore)[i])]

-----------------------------------------------------------------------------
(* list_keys, whatever the table the writers have made: a page holds at    *)
(* most max_keys keys, and they are the first keys of the listing the      *)
(* spec asks for (newest final version of each key not dominated by a      *)
(* newer tombstone, in key order, after the marker), every one with the    *)
(* version of that newest final row; when the page is not truncated it is  *)
(* the whole listing.  This is what the loop over result[:max_keys] with   *)
(* prev_key, and truncated computed from the max_keys + 1 rows, must give  *)
(* when a key's rows are cut by the limit.                                 *)
ListKeysMatchesReference ==
    \A prefix \in QueryPrefixes, marker \in Markers, maxKeys \in PageSizes :
       LET page == ListKeys(prefix, maxKeys, NoId, marker)
           ref  == ReferenceKeys(prefix, marker)
       IN  /\ Len(page.key_data) <= maxKeys
           /\ IsPrefix(page.key_data, ref)
           /\ ~page.truncated => page.key_data = ref

(* list_versions, on a page large enough to hold every row: it lists every *)
(* final version the spec says is live, and none that a destroy-key        *)
(* shadows, whether it destroyed the whole key or named that version       *)
(* through file_tombstone_unified_id (spec 6.3).                           *)
VersionsMatchReference ==
    \A prefix \in QueryPrefixes :
       ListVersions(prefix, MaxRows, NoId, << >>, NoId).key_data
          = ReferenceVersions(prefix)


(* list_keys with a delimiter, on a page large enough to hold every row:   *)
(* the prefixes it returns are those spec 6.3 asks for, one for each       *)
(* listed key that has a delimiter after the query prefix, whatever the     *)
(* position of that delimiter (the delimiter_pos > 0 test).               *)
PrefixesMatchReference ==
    \A prefix \in QueryPrefixes, d \in Delimiters :
       ListKeys(prefix, MaxRows, d, << >>).prefixes = ReferencePrefixes(prefix, d)

=====
