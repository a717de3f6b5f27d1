-------------------------------- MODULE Top ---------------------------------
(***************************************************************************)
(* The state of `secretbae top': a listing fetched again and again, a path *)
(* filter typed key by key, a tag, a sort order, and two cursors into      *)
(* lists that change under them.  One thread draws, takes a key or         *)
(* refreshes; what the daemon answers is different each time.              *)
(*                                                                         *)
(* A path is its rank in the order of paths, and Text its characters, in   *)
(* lower case; a tag is its rank in the order of tags.  Messages, the      *)
(* clock and the frame are left out.                                       *)
(***************************************************************************)
EXTENDS Integers, Sequences, FiniteSets, FiniteSetsExt

CONSTANTS Listings,     \* what LIST may answer: sets of summaries
          Text,         \* the characters of a path
          Char,         \* what can be typed
          MaxInput,     \* bound on the filter's length
          Tags,         \* the tags
          Joined,       \* the rank of a set of tags, written out
          Page,         \* rows that a page key moves by
          MaxVersions,  \* bound on the versions VERSIONS answers with
          None

\* A current version of 0 stands for none, which sorts before all.
SecretSummary == [path : Nat, version_count : Nat, current_version : Nat,
                  tags : SUBSET Tags, updated_at : Nat]

\* A listing has one summary per path.
ASSUME ListingsAssumption ==
    \A listing \in Listings :
        /\ IsFiniteSet(listing) /\ listing \subseteq SecretSummary
        /\ \A a, b \in listing : a.path = b.path => a = b
ASSUME TagsAssumption == Tags \subseteq Nat /\ None \notin Tags
ASSUME JoinedAssumption == Joined \in [SUBSET Tags -> Nat]
ASSUME TopBoundsAssumption ==
    Page \in Nat /\ MaxInput \in Nat /\ MaxVersions \in Nat \ {0}

Columns == <<"path", "versions", "current", "tags", "updated">>

VARIABLES all_secrets, filtered_secrets,
          selected_index, selected_version_index,
          path_filter, filter_input, saved_filter,
          selected_tag,
          sort,              \* sort_criteria: column and direction
          mode, paused,
          versions_detail,
          before             \* history: the filter when typing began

cursors == <<selected_index, selected_version_index>>
filters == <<path_filter, filter_input, saved_filter, before>>
vars == <<all_secrets, filtered_secrets, cursors, filters, selected_tag, sort,
          mode, paused, versions_detail>>

Init == /\ all_secrets = {} /\ filtered_secrets = <<>>
        /\ selected_index = 0 /\ selected_version_index = 0
        /\ path_filter = <<>> /\ filter_input = <<>> /\ saved_filter = <<>>
        /\ before = <<>>
        /\ selected_tag = None
        /\ sort = [column |-> 1, descending |-> FALSE]
        /\ mode = "List" /\ paused = FALSE
        /\ versions_detail = None
-----------------------------------------------------------------------------
Contains_text(text, needle) ==
    \E i \in 0..(Len(text) - Len(needle)) : SubSeq(text, i + 1, i + Len(needle)) = needle

\* What a column sorts by; ties go by path.
SortKey(secret, column) ==
    CASE column = "path" -> 0
      [] column = "versions" -> secret.version_count
      [] column = "current" -> secret.current_version
      [] column = "tags" -> Joined[secret.tags]
      [] column = "updated" -> secret.updated_at

Ordered(a, b, column) ==
    LET ka == SortKey(a, column)
        kb == SortKey(b, column)
    IN  ka < kb \/ (ka = kb /\ a.path < b.path)

ComesBefore(a, b, order) ==
    IF order.descending THEN Ordered(b, a, Columns[order.column])
    ELSE Ordered(a, b, Columns[order.column])

Shown(secrets, filter, tag) ==
    {s \in secrets : /\ Contains_text(Text[s.path], filter)
                     /\ tag # None => tag \in s.tags}

\* The rows for a listing, a filter, a tag and an order: row i is the one that
\* i - 1 others come before.
Rows(secrets, filter, tag, order) ==
    LET shown == Shown(secrets, filter, tag)
        place(s) == 1 + Cardinality({r \in shown : ComesBefore(r, s, order)})
    IN  [i \in 1..Cardinality(shown) |-> CHOOSE s \in shown : place(s) = i]

\* Mutation: the cursor is clamped to the length.
Clamp_late(index, length) == IF length = 0 THEN 0
                             ELSE IF index > length THEN length - 1 ELSE index

Clamp(index, length) == IF length = 0 THEN 0
                        ELSE IF index >= length THEN length - 1 ELSE index

\* Every operation that touches the listing, a filter or the order ends here.
recompute_filtered_and_sorted ==
    /\ filtered_secrets' = Rows(all_secrets', path_filter', selected_tag', sort')
    /\ selected_index' = Clamp(selected_index, Len(filtered_secrets'))
-----------------------------------------------------------------------------
(* Talking to the daemon.  A request that fails leaves the rows alone.      *)

Selected == IF selected_index < Len(filtered_secrets)
            THEN filtered_secrets[selected_index + 1].path ELSE None

fetch_secrets ==
    /\ UNCHANGED <<filters, selected_tag, sort>>
    /\ \/ \E listing \in Listings :
             all_secrets' = listing /\ recompute_filtered_and_sorted
       \/ UNCHANGED <<all_secrets, filtered_secrets, selected_index>>

\* The versions of whatever is selected by now, the cursor on the first.
set_versions ==
    /\ Selected' # None
    /\ \E n \in 1..MaxVersions : versions_detail' = [path |-> Selected', count |-> n]
    /\ selected_version_index' = 0

fetch_versions ==
    \/ set_versions
    \/ UNCHANGED <<versions_detail, selected_version_index>>

Refreshes == /\ fetch_secrets
             /\ IF mode = "Detail" THEN fetch_versions
                ELSE UNCHANGED <<versions_detail, selected_version_index>>
             /\ UNCHANGED <<mode, paused>>

auto_refresh == ~paused /\ Refreshes
refresh_key == mode # "Filtering" /\ Refreshes
-----------------------------------------------------------------------------
(* Keys in the list.                                                        *)

InList == mode = "List"

\* select_next, select_prev, the page keys, Home and End.
Moves(index) == /\ InList
                /\ selected_index' = IF filtered_secrets = <<>> THEN 0 ELSE index
                /\ UNCHANGED <<all_secrets, filtered_secrets, selected_version_index,
                               filters, selected_tag, sort, mode, paused, versions_detail>>
LastRow == Len(filtered_secrets) - 1
Lesser(a, b) == IF a < b THEN a ELSE b
Less(a, n) == IF a < n THEN 0 ELSE a - n

select_next == Moves(IF selected_index + 1 < Len(filtered_secrets)
                     THEN selected_index + 1 ELSE selected_index)
select_prev == Moves(Less(selected_index, 1))
select_first == Moves(0)
select_last == Moves(LastRow)
select_page_down == Moves(Lesser(selected_index + Page, LastRow))
select_page_up == Moves(Less(selected_index, Page))

Rearranges == /\ InList
              /\ UNCHANGED <<all_secrets, selected_version_index, filters, mode, paused,
                             versions_detail>>
              /\ recompute_filtered_and_sorted

distinct_tags == UNION {s.tags : s \in all_secrets}

\* The tags after the selected one; none when it is gone.
LaterTags == {t \in distinct_tags : \/ selected_tag = None
                                    \/ selected_tag \in distinct_tags /\ selected_tag < t}

\* The next tag, and after the last one none.  Without a tag in the listing the
\* selection is dropped and the rows stay.
cycle_tag ==
    IF distinct_tags = {}
    THEN /\ InList
         /\ selected_tag' = None
         /\ UNCHANGED <<all_secrets, filtered_secrets, cursors, filters, sort, mode,
                        paused, versions_detail>>
    ELSE /\ selected_tag' = IF LaterTags = {} THEN None ELSE Min(LaterTags)
         /\ UNCHANGED sort
         /\ Rearranges

cycle_sort == /\ sort' = [column |-> (sort.column % Len(Columns)) + 1, descending |-> FALSE]
              /\ UNCHANGED selected_tag
              /\ Rearranges

\* Mutation: the direction is turned and the rows are not.
reverse_sort_unsorted ==
    /\ InList
    /\ sort' = [sort EXCEPT !.descending = ~@]
    /\ UNCHANGED <<all_secrets, filtered_secrets, cursors, filters, selected_tag,
                   mode, paused, versions_detail>>

reverse_sort == /\ sort' = [sort EXCEPT !.descending = ~@]
                /\ UNCHANGED selected_tag
                /\ Rearranges

toggle_pause == /\ InList
                /\ paused' = ~paused
                /\ UNCHANGED <<all_secrets, filtered_secrets, cursors, filters,
                               selected_tag, sort, mode, versions_detail>>
-----------------------------------------------------------------------------
(* Keys while the filter is typed.                                          *)

\* Mutation: what was there is not saved.
start_filtering_unsaved ==
    /\ InList
    /\ mode' = "Filtering"
    /\ filter_input' = path_filter /\ before' = path_filter
    /\ UNCHANGED <<all_secrets, filtered_secrets, cursors, path_filter, saved_filter,
                   selected_tag, sort, paused, versions_detail>>

start_filtering ==
    /\ InList
    /\ mode' = "Filtering"
    /\ saved_filter' = path_filter
    /\ filter_input' = path_filter /\ before' = path_filter
    /\ UNCHANGED <<all_secrets, filtered_secrets, cursors, path_filter,
                   selected_tag, sort, paused, versions_detail>>

Filters == /\ mode = "Filtering"
           /\ UNCHANGED <<all_secrets, selected_version_index, selected_tag, sort,
                          paused, versions_detail, before>>
           /\ recompute_filtered_and_sorted

Types(input) == /\ filter_input' = input /\ path_filter' = input
                /\ UNCHANGED <<saved_filter, mode>>
                /\ Filters

input_filter_char(c) == Len(filter_input) < MaxInput /\ Types(Append(filter_input, c))
input_filter_backspace == Types(IF filter_input = <<>> THEN <<>>
                                ELSE SubSeq(filter_input, 1, Len(filter_input) - 1))

apply_filter_input == /\ path_filter' = filter_input
                      /\ saved_filter' = <<>> /\ UNCHANGED filter_input
                      /\ mode' = "List"
                      /\ Filters

cancel_filter_input == /\ path_filter' = saved_filter
                       /\ saved_filter' = <<>> /\ filter_input' = <<>>
                       /\ mode' = "List"
                       /\ Filters
-----------------------------------------------------------------------------
(* The versions of one secret.                                              *)

open_detail == /\ InList
               /\ mode' = "Detail"
               /\ UNCHANGED <<all_secrets, filtered_secrets, selected_index, filters,
                              selected_tag, sort, paused>>
               /\ \/ set_versions
                  \/ UNCHANGED versions_detail /\ selected_version_index' = 0

InDetail == /\ mode = "Detail"
            /\ UNCHANGED <<all_secrets, filtered_secrets, selected_index, filters,
                           selected_tag, sort, paused>>

close_detail == /\ InDetail
                /\ mode' = "List" /\ versions_detail' = None
                /\ UNCHANGED selected_version_index

select_version_next == /\ InDetail
                       /\ versions_detail # None
                       /\ selected_version_index + 1 < versions_detail.count
                       /\ selected_version_index' = selected_version_index + 1
                       /\ UNCHANGED <<mode, versions_detail>>

select_version_prev == /\ InDetail
                       /\ selected_version_index' = Less(selected_version_index, 1)
                       /\ UNCHANGED <<mode, versions_detail>>
-----------------------------------------------------------------------------
Next == \/ auto_refresh \/ refresh_key
        \/ select_next \/ select_prev \/ select_first \/ select_last
        \/ select_page_down \/ select_page_up
        \/ cycle_tag \/ cycle_sort \/ reverse_sort \/ toggle_pause
        \/ start_filtering \/ \E c \in Char : input_filter_char(c)
        \/ input_filter_backspace \/ apply_filter_input \/ cancel_filter_input
        \/ open_detail \/ close_detail \/ select_version_next \/ select_version_prev

Spec == Init /\ [][Next]_vars
-----------------------------------------------------------------------------
\* The cursors stay inside their lists, whichever refresh, filter or tag takes
\* rows away (app.rs:539), and versions are kept only while they are shown.
TypeOK ==
    /\ all_secrets \in Listings \cup {{}}
    /\ filtered_secrets \in Seq(all_secrets)
    /\ selected_index \in 0..Len(filtered_secrets)
    /\ filtered_secrets # <<>> => selected_index < Len(filtered_secrets)
    /\ \A f \in {path_filter, filter_input, saved_filter} :
          f \in Seq(Char) /\ Len(f) <= MaxInput
    /\ selected_tag \in Tags \cup {None}
    /\ sort \in [column : DOMAIN Columns, descending : BOOLEAN]
    /\ mode \in {"List", "Detail", "Filtering"} /\ paused \in BOOLEAN
    /\ versions_detail # None => /\ mode = "Detail"
                                 /\ versions_detail.count \in 1..MaxVersions
                                 /\ selected_version_index < versions_detail.count

\* The rows are the ones the filter, the tag and the order on screen describe,
\* with the one exception of cycle_tag (app.rs:325): a tag that vanished from
\* the listing has emptied the rows, and dropping it does not bring them back.
ViewMatchesChips ==
    \/ filtered_secrets = Rows(all_secrets, path_filter, selected_tag, sort)
    \/ distinct_tags = {} /\ selected_tag = None /\ filtered_secrets = <<>>

\* Escape leaves the filter as it was before typing began, whatever was typed
\* or fetched meanwhile (app.rs:305).
CancelRestores ==
    [][cancel_filter_input =>
          /\ path_filter' = before
          /\ filtered_secrets' = Rows(all_secrets', before, selected_tag', sort')]_vars
=============================================================================
