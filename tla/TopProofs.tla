----------------------------- MODULE TopProofs ------------------------------
(***************************************************************************)
(* Proofs about Top: for any listings, tags, page size and typed filter.   *)
(*                                                                         *)
(* A row's place is one more than the number of rows before it.  The order *)
(* is total because no two summaries of a listing have the same path, so   *)
(* different rows have different places, and by the pigeonhole principle   *)
(* every place is taken: the rows are the shown secrets, each once and in  *)
(* order.                                                                  *)
(***************************************************************************)
EXTENDS Top, FiniteSetTheorems, WellFoundedInduction, TLAPS

Orders == [column : DOMAIN Columns, descending : BOOLEAN]

\* A listing, or the part of one that is shown.
Listing(secrets) == /\ IsFiniteSet(secrets) /\ secrets \subseteq SecretSummary
                    /\ \A a, b \in secrets : a.path = b.path => a = b
-----------------------------------------------------------------------------
(* The order of the rows.                                                   *)

\* A set of naturals that is not empty has a least element.
LEMMA LeastNat ==
    ASSUME NEW S, S \subseteq Nat, S # {}
    PROVE  \E x \in S : \A y \in S : x <= y
<1>1. PICK x \in S : \A y \in S : ~(<<y, x>> \in OpToRel(<, Nat))
  BY NatLessThanWellFounded, WFMin, Zenon
<1>2. \A y \in S : <<y, x>> \in Nat \X Nat
  OBVIOUS
<1>3. \A y \in S : ~(y < x)
  BY <1>1, <1>2, Zenon DEF OpToRel
<1>4. QED
  BY <1>3

\* Every column sorts by a number.
LEMMA KeysAreNumbers ==
    ASSUME NEW s \in SecretSummary, NEW c \in DOMAIN Columns
    PROVE  SortKey(s, Columns[c]) \in Nat
<1>1. Columns[c] \in {"path", "versions", "current", "tags", "updated"}
  BY DEF Columns
<1>2. /\ s.version_count \in Nat /\ s.current_version \in Nat /\ s.updated_at \in Nat
      /\ s.tags \in SUBSET Tags
  BY DEF SecretSummary
<1>3. Joined[s.tags] \in Nat
  BY <1>2, JoinedAssumption
<1>4. QED
  BY <1>1, <1>2, <1>3 DEF SortKey

\* The order is strict and total on a listing.
LEMMA OrderIsTotal ==
    ASSUME NEW secrets, Listing(secrets), NEW order \in Orders
    PROVE  /\ \A a \in secrets : ~ComesBefore(a, a, order)
           /\ \A a, b, c \in secrets :
                 ComesBefore(a, b, order) /\ ComesBefore(b, c, order) => ComesBefore(a, c, order)
           /\ \A a, b \in secrets :
                 a = b \/ ComesBefore(a, b, order) \/ ComesBefore(b, a, order)
<1> DEFINE key(s) == SortKey(s, Columns[order.column])
<1>1. \A s \in secrets : key(s) \in Nat /\ s.path \in Nat
  BY KeysAreNumbers DEF Listing, Orders, SecretSummary
<1>2. \A a, b \in secrets : a.path = b.path => a = b
  BY DEF Listing
<1>3. \A a, b : ComesBefore(a, b, order) <=>
         IF order.descending THEN key(b) < key(a) \/ (key(b) = key(a) /\ b.path < a.path)
         ELSE key(a) < key(b) \/ (key(a) = key(b) /\ a.path < b.path)
  BY DEF ComesBefore, Ordered
<1> HIDE DEF key
<1>4. \A a \in secrets : ~ComesBefore(a, a, order)
  BY <1>1, <1>3
<1>5. ASSUME NEW a \in secrets, NEW b \in secrets, NEW c \in secrets,
             ComesBefore(a, b, order), ComesBefore(b, c, order)
      PROVE  ComesBefore(a, c, order)
  BY <1>1, <1>3, <1>5
<1>6. ASSUME NEW a \in secrets, NEW b \in secrets, a # b
      PROVE  ComesBefore(a, b, order) \/ ComesBefore(b, a, order)
  BY <1>1, <1>2, <1>3, <1>6
<1>7. QED
  BY <1>4, <1>5, <1>6

Ahead(shown, order, s) == {r \in shown : ComesBefore(r, s, order)}
Place(shown, order, s) == 1 + Cardinality(Ahead(shown, order, s))

\* A row's place is a place of the list, and after the places of those before it.
LEMMA PlacesFollow ==
    ASSUME NEW shown, Listing(shown), NEW order \in Orders
    PROVE  /\ Cardinality(shown) \in Nat
           /\ \A s \in shown : Place(shown, order, s) \in 1..Cardinality(shown)
           /\ \A a, b \in shown :
                 ComesBefore(a, b, order) => Place(shown, order, a) < Place(shown, order, b)
<1>1. IsFiniteSet(shown) /\ Cardinality(shown) \in Nat
  BY FS_CardinalityType DEF Listing
<1>2. ASSUME NEW s \in shown
      PROVE  /\ IsFiniteSet(Ahead(shown, order, s)) /\ Cardinality(Ahead(shown, order, s)) \in Nat
             /\ Cardinality(Ahead(shown, order, s)) <= Cardinality(shown) - 1
  <2>1. Ahead(shown, order, s) \in SUBSET (shown \ {s})
    BY OrderIsTotal DEF Ahead
  <2>2. IsFiniteSet(shown \ {s}) /\ Cardinality(shown \ {s}) = Cardinality(shown) - 1
    BY <1>1, FS_RemoveElement
  <2>3. /\ IsFiniteSet(Ahead(shown, order, s))
        /\ Cardinality(Ahead(shown, order, s)) <= Cardinality(shown \ {s})
    BY <2>1, <2>2, FS_Subset
  <2>4. Cardinality(Ahead(shown, order, s)) \in Nat
    BY <2>3, FS_CardinalityType
  <2>5. QED
    BY <2>2, <2>3, <2>4
<1>3. \A s \in shown : Place(shown, order, s) \in 1..Cardinality(shown)
  BY <1>1, <1>2 DEF Place
<1>4. ASSUME NEW a \in shown, NEW b \in shown, ComesBefore(a, b, order)
      PROVE  Place(shown, order, a) < Place(shown, order, b)
  <2>1. Ahead(shown, order, a) \cup {a} \in SUBSET Ahead(shown, order, b)
    BY <1>4, OrderIsTotal DEF Ahead
  <2>2. a \notin Ahead(shown, order, a)
    BY OrderIsTotal DEF Ahead
  <2>3. Cardinality(Ahead(shown, order, a) \cup {a}) = Cardinality(Ahead(shown, order, a)) + 1
    BY <1>2, <2>2, FS_AddElement
  <2>4. Cardinality(Ahead(shown, order, a) \cup {a}) <= Cardinality(Ahead(shown, order, b))
    BY <1>2, <2>1, FS_Subset
  <2>5. QED
    BY <1>2, <2>3, <2>4 DEF Place
<1>5. QED
  BY <1>1, <1>3, <1>4

\* Every place is taken: otherwise two rows would share one.
LEMMA PlacesAreTaken ==
    ASSUME NEW shown, Listing(shown), NEW order \in Orders, NEW i \in 1..Cardinality(shown)
    PROVE  \E s \in shown : Place(shown, order, s) = i
<1> DEFINE n == Cardinality(shown)
           others == (1..n) \ {i}
           place == [s \in shown |-> Place(shown, order, s)]
<1>1. n \in Nat /\ IsFiniteSet(shown)
  BY PlacesFollow DEF Listing
<1>2. SUFFICES ASSUME \A s \in shown : Place(shown, order, s) # i
               PROVE  FALSE
  OBVIOUS
<1>3. place \in [shown -> others]
  BY <1>2, PlacesFollow
<1>4. IsFiniteSet(others) /\ Cardinality(others) < Cardinality(shown)
  <2>1. IsFiniteSet(1..n) /\ Cardinality(1..n) = n
    BY <1>1, FS_Interval
  <2>2. IsFiniteSet((1..n) \ {i}) /\ Cardinality((1..n) \ {i}) = Cardinality(1..n) - 1
    BY <2>1, FS_RemoveElement
  <2>3. QED
    BY <1>1, <2>1, <2>2
<1> HIDE DEF others, place
<1>5. PICK a, b \in shown : a # b /\ place[a] = place[b]
  BY <1>1, <1>3, <1>4, FS_PigeonHole
<1>6. Place(shown, order, a) = Place(shown, order, b)
  BY <1>5 DEF place
<1>7. /\ ComesBefore(a, b, order) \/ ComesBefore(b, a, order)
      /\ Place(shown, order, a) \in Int /\ Place(shown, order, b) \in Int
  BY <1>5, OrderIsTotal, PlacesFollow
<1>8. QED
  BY <1>5, <1>6, <1>7, PlacesFollow

\* The rows: the shown secrets, each once and in order.
LEMMA RowsInOrder ==
    ASSUME NEW secrets, Listing(secrets), NEW filter, NEW tag, NEW order \in Orders
    PROVE  LET rows == Rows(secrets, filter, tag, order)
               shown == Shown(secrets, filter, tag)
           IN  /\ rows \in Seq(shown) /\ Len(rows) = Cardinality(shown)
               /\ \A s \in shown : \E i \in 1..Len(rows) : rows[i] = s
               /\ \A i, j \in 1..Len(rows) : i < j => ComesBefore(rows[i], rows[j], order)
<1> DEFINE rows == Rows(secrets, filter, tag, order)
           shown == Shown(secrets, filter, tag)
           n == Cardinality(shown)
<1>1. Listing(shown)
  <2>1. shown \in SUBSET secrets
    BY DEF Shown
  <2>2. IsFiniteSet(shown)
    BY <2>1, FS_Subset DEF Listing
  <2>3. QED
    BY <2>1, <2>2 DEF Listing
<1> HIDE DEF shown
<1>2. rows = [i \in 1..n |-> CHOOSE s \in shown : Place(shown, order, s) = i]
  BY DEF Rows, Place, Ahead, shown
<1> HIDE DEF rows
<1>3. n \in Nat
  BY <1>1, PlacesFollow
<1>4. ASSUME NEW i \in 1..n
      PROVE  rows[i] \in shown /\ Place(shown, order, rows[i]) = i
  <2>1. \E s \in shown : Place(shown, order, s) = i
    BY <1>1, <1>4, PlacesAreTaken
  <2>2. rows[i] = CHOOSE s \in shown : Place(shown, order, s) = i
    BY <1>2
  <2>3. QED
    BY <2>1, <2>2, Zenon
<1>5. rows \in Seq(shown) /\ Len(rows) = n
  BY <1>2, <1>3, <1>4
<1>6. ASSUME NEW i \in 1..n, NEW j \in 1..n, i < j
      PROVE  ComesBefore(rows[i], rows[j], order)
  <2>1. /\ rows[i] \in shown /\ Place(shown, order, rows[i]) = i
        /\ rows[j] \in shown /\ Place(shown, order, rows[j]) = j
    BY <1>4
  <2>2. \/ rows[i] = rows[j] \/ ComesBefore(rows[i], rows[j], order)
        \/ ComesBefore(rows[j], rows[i], order)
    BY <1>1, <2>1, OrderIsTotal
  <2>3. ComesBefore(rows[j], rows[i], order) => j < i
    BY <1>1, <2>1, PlacesFollow
  <2>4. QED
    BY <1>6, <2>1, <2>2, <2>3
<1>7. ASSUME NEW s \in shown
      PROVE  \E i \in 1..n : rows[i] = s
  <2>1. PICK i \in 1..n : i = Place(shown, order, s)
    BY <1>1, PlacesFollow
  <2>2. rows[i] \in shown /\ Place(shown, order, rows[i]) = i
    BY <1>4
  <2>3. \/ rows[i] = s \/ ComesBefore(rows[i], s, order) \/ ComesBefore(s, rows[i], order)
    BY <1>1, <2>2, OrderIsTotal
  <2>4. /\ ComesBefore(rows[i], s, order) => i < i
        /\ ComesBefore(s, rows[i], order) => i < i
    BY <1>1, <2>1, <2>2, PlacesFollow
  <2>5. QED
    BY <2>1, <2>3, <2>4
<1>8. QED
  BY <1>5, <1>6, <1>7 DEF rows, shown
-----------------------------------------------------------------------------
(* The invariant.                                                           *)

\* While the filter is typed, what Escape puts back is what was there.
Remembers == mode = "Filtering" => saved_filter = before

IInv == /\ TypeOK /\ ViewMatchesChips /\ Remembers
        /\ selected_version_index \in Nat

\* What the listing, the rows and the list's cursor are to one another.
RowsOK == /\ all_secrets \in Listings \cup {{}}
          /\ filtered_secrets \in Seq(all_secrets)
          /\ selected_index \in 0..Len(filtered_secrets)
          /\ filtered_secrets # <<>> => selected_index < Len(filtered_secrets)
ChipsOK == /\ \A f \in {path_filter, filter_input, saved_filter} :
                 f \in Seq(Char) /\ Len(f) <= MaxInput
           /\ selected_tag \in Tags \cup {None}
           /\ sort \in Orders
DetailOK == /\ mode \in {"List", "Detail", "Filtering"} /\ paused \in BOOLEAN
            /\ versions_detail # None => /\ mode = "Detail"
                                         /\ versions_detail.count \in 1..MaxVersions
                                         /\ selected_version_index < versions_detail.count
            /\ selected_version_index \in Nat

\* The invariant in these parts.
LEMMA Parts ==
    IInv <=> RowsOK /\ ChipsOK /\ DetailOK /\ ViewMatchesChips /\ Remembers
  BY DEF IInv, TypeOK, RowsOK, ChipsOK, DetailOK, Orders

\* The same of the next state.
LEMMA PartsNext ==
    ASSUME RowsOK', ChipsOK', DetailOK', ViewMatchesChips', Remembers'
    PROVE  IInv'
  BY DEF IInv, TypeOK, RowsOK, ChipsOK, DetailOK, Orders

\* What the daemon answers is a listing, and so is none.
LEMMA ListingsAreListings ==
    ASSUME NEW secrets \in Listings \cup {{}}
    PROVE  Listing(secrets)
<1>1. CASE secrets \in Listings
  BY <1>1, ListingsAssumption DEF Listing
<1>2. CASE secrets = {}
  BY <1>2, FS_EmptySet DEF Listing
<1>3. QED
  BY <1>1, <1>2

\* Computing the rows anew puts them and the cursor right, whatever they were.
LEMMA Recomputed ==
    ASSUME all_secrets' \in Listings \cup {{}}, sort' \in Orders, selected_index \in Nat,
           recompute_filtered_and_sorted
    PROVE  RowsOK' /\ ViewMatchesChips'
<1>1. filtered_secrets' = Rows(all_secrets', path_filter', selected_tag', sort')
  BY DEF recompute_filtered_and_sorted
<1>2. filtered_secrets' \in Seq(Shown(all_secrets', path_filter', selected_tag'))
  BY <1>1, RowsInOrder, ListingsAreListings
<1>3. Shown(all_secrets', path_filter', selected_tag') \subseteq all_secrets'
  BY DEF Shown
<1>4. filtered_secrets' \in Seq(all_secrets')
  BY <1>2, <1>3
<1>5. selected_index' = Clamp(selected_index, Len(filtered_secrets'))
  BY DEF recompute_filtered_and_sorted
<1>6. Len(filtered_secrets') \in Nat /\ (Len(filtered_secrets') = 0 <=> filtered_secrets' = <<>>)
  BY <1>4
<1>7. /\ selected_index' \in 0..Len(filtered_secrets')
      /\ filtered_secrets' # <<>> => selected_index' < Len(filtered_secrets')
  BY <1>5, <1>6 DEF Clamp
<1>8. QED
  BY <1>1, <1>4, <1>7 DEF RowsOK, ViewMatchesChips

\* Rows that are left alone stay right, with the chips they were computed for.
LEMMA LeftAlone ==
    ASSUME all_secrets' = all_secrets, filtered_secrets' = filtered_secrets
    PROVE  /\ RowsOK /\ selected_index' = selected_index => RowsOK'
           /\ /\ ViewMatchesChips
              /\ UNCHANGED <<path_filter, selected_tag, sort>>
              => ViewMatchesChips'
<1>1. RowsOK /\ selected_index' = selected_index => RowsOK'
  BY DEF RowsOK
<1>2. distinct_tags' = distinct_tags
  BY DEF distinct_tags
<1>3. ViewMatchesChips /\ UNCHANGED <<path_filter, selected_tag, sort>> => ViewMatchesChips'
  BY <1>2 DEF ViewMatchesChips
<1>4. QED
  BY <1>1, <1>3

\* The cursor is a number, and so is the length of the rows.
LEMMA CursorFacts ==
    ASSUME RowsOK
    PROVE  /\ Len(filtered_secrets) \in Nat /\ selected_index \in Nat
           /\ filtered_secrets = <<>> => selected_index = 0 /\ Len(filtered_secrets) = 0
           /\ filtered_secrets # <<>> => Len(filtered_secrets) > 0
  BY DEF RowsOK
-----------------------------------------------------------------------------
(* One step after another.                                                  *)

\* A refresh, also one that fails.
LEMMA RefreshInv ==
    ASSUME IInv, Refreshes
    PROVE  IInv'
<1>1. RowsOK /\ ChipsOK /\ DetailOK /\ ViewMatchesChips /\ Remembers
  BY Parts
<1>2. UNCHANGED <<path_filter, filter_input, saved_filter, before, selected_tag, sort>>
  BY DEF Refreshes, fetch_secrets, filters
<1>3. mode' = mode /\ paused' = paused
  BY DEF Refreshes
<1>4. RowsOK' /\ ViewMatchesChips'
  <2>1. CASE \E listing \in Listings :
                all_secrets' = listing /\ recompute_filtered_and_sorted
    <3>1. all_secrets' \in Listings \cup {{}} /\ sort' \in Orders /\ selected_index \in Nat
      BY <1>1, <1>2, <2>1, CursorFacts DEF ChipsOK
    <3>2. QED
      BY <2>1, <3>1, Recomputed
  <2>2. CASE UNCHANGED <<all_secrets, filtered_secrets, selected_index>>
    BY <1>1, <1>2, <2>2, LeftAlone
  <2>3. QED
    BY <2>1, <2>2 DEF Refreshes, fetch_secrets
<1>5. DetailOK'
  <2>1. CASE UNCHANGED <<versions_detail, selected_version_index>>
    BY <1>1, <1>3, <2>1 DEF DetailOK
  <2>2. CASE mode = "Detail" /\ set_versions
    <3>1. PICK k \in 1..MaxVersions : versions_detail' = [path |-> Selected', count |-> k]
      BY <2>2 DEF set_versions
    <3>2. versions_detail'.count = k /\ selected_version_index' = 0
      BY <2>2, <3>1 DEF set_versions
    <3>3. 0 < k
      BY <3>1, TopBoundsAssumption
    <3>4. QED
      BY <1>1, <1>3, <2>2, <3>2, <3>3 DEF DetailOK
  <2>3. QED
    BY <2>1, <2>2 DEF Refreshes, fetch_versions
<1>6. ChipsOK' /\ Remembers'
  BY <1>1, <1>2, <1>3 DEF ChipsOK, Remembers
<1>7. QED
  BY <1>4, <1>5, <1>6, PartsNext

\* The cursor keys in the list.
LEMMA MovesInv ==
    ASSUME IInv, NEW index, Moves(index),
           filtered_secrets # <<>> => index \in Nat /\ index < Len(filtered_secrets)
    PROVE  IInv'
<1>1. RowsOK /\ ChipsOK /\ DetailOK /\ ViewMatchesChips /\ Remembers
  BY Parts
<1>2. /\ all_secrets' = all_secrets /\ filtered_secrets' = filtered_secrets
      /\ UNCHANGED <<path_filter, filter_input, saved_filter, before, selected_tag, sort, mode,
                     paused, versions_detail, selected_version_index>>
      /\ selected_index' = IF filtered_secrets = <<>> THEN 0 ELSE index
  BY DEF Moves, filters
<1>3. RowsOK'
  BY <1>1, <1>2, CursorFacts DEF RowsOK
<1>4. ViewMatchesChips'
  BY <1>1, <1>2, LeftAlone
<1>5. ChipsOK' /\ DetailOK' /\ Remembers'
  BY <1>1, <1>2 DEF ChipsOK, DetailOK, Remembers
<1>6. QED
  BY <1>3, <1>4, <1>5, PartsNext

\* Every one of them stays in the list.
LEMMA CursorKeysInv ==
    ASSUME IInv, \/ select_next \/ select_prev \/ select_first \/ select_last
                 \/ select_page_down \/ select_page_up
    PROVE  IInv'
<1>1. /\ Len(filtered_secrets) \in Nat /\ selected_index \in Nat
      /\ filtered_secrets # <<>> => Len(filtered_secrets) > 0
      /\ filtered_secrets # <<>> => selected_index < Len(filtered_secrets)
  BY Parts, CursorFacts DEF RowsOK
<1>2. PICK index : /\ Moves(index)
                   /\ filtered_secrets # <<>> => index \in Nat /\ index < Len(filtered_secrets)
  <2>1. Page \in Nat
    BY TopBoundsAssumption
  <2>2. CASE select_next
    BY <1>1, <2>2 DEF select_next
  <2>3. CASE select_prev
    BY <1>1, <2>3 DEF select_prev, Less
  <2>4. CASE select_first
    BY <1>1, <2>4 DEF select_first
  <2>5. CASE select_last
    BY <1>1, <2>5 DEF select_last, LastRow
  <2>6. CASE select_page_down
    BY <1>1, <2>1, <2>6 DEF select_page_down, Lesser, LastRow
  <2>7. CASE select_page_up
    BY <1>1, <2>1, <2>7 DEF select_page_up, Less
  <2>8. QED
    BY <2>2, <2>3, <2>4, <2>5, <2>6, <2>7
<1>3. QED
  BY <1>2, MovesInv

\* Another tag or another order, and the rows for it.
LEMMA RearrangesInv ==
    ASSUME IInv, Rearranges, selected_tag' \in Tags \cup {None}, sort' \in Orders
    PROVE  IInv'
<1>1. RowsOK /\ ChipsOK /\ DetailOK /\ Remembers
  BY Parts
<1>2. /\ all_secrets' = all_secrets /\ recompute_filtered_and_sorted
      /\ UNCHANGED <<path_filter, filter_input, saved_filter, before, mode, paused,
                     versions_detail, selected_version_index>>
  BY DEF Rearranges, filters
<1>3. all_secrets' \in Listings \cup {{}} /\ selected_index \in Nat
  BY <1>1, <1>2, CursorFacts DEF RowsOK
<1>4. RowsOK' /\ ViewMatchesChips'
  BY <1>2, <1>3, Recomputed
<1>5. ChipsOK' /\ DetailOK' /\ Remembers'
  BY <1>1, <1>2 DEF ChipsOK, DetailOK, Remembers
<1>6. QED
  BY <1>4, <1>5, PartsNext

\* The tags in the listing are tags.
LEMMA TagsInListing ==
    ASSUME IInv
    PROVE  distinct_tags \subseteq Tags
<1>1. Listing(all_secrets)
  BY Parts, ListingsAreListings DEF RowsOK
<1>2. \A s \in all_secrets : s.tags \subseteq Tags
  BY <1>1 DEF Listing, SecretSummary
<1>3. QED
  BY <1>2 DEF distinct_tags

\* Without tags in the listing no row passes a tag.
LEMMA NothingTagged ==
    ASSUME distinct_tags = {}, selected_tag # None
    PROVE  Rows(all_secrets, path_filter, selected_tag, sort) = <<>>
<1>1. \A s \in all_secrets : selected_tag \notin s.tags
  BY DEF distinct_tags
<1>2. Shown(all_secrets, path_filter, selected_tag) = {}
  BY <1>1, Zenon DEF Shown
<1>3. 1..Cardinality(Shown(all_secrets, path_filter, selected_tag)) = {}
  BY <1>2, FS_EmptySet
<1>4. QED
  BY <1>3 DEF Rows

\* The next tag, or none.
LEMMA CycleTagInv ==
    ASSUME IInv, cycle_tag
    PROVE  IInv'
<1>1. CASE distinct_tags = {}
  <2>1. RowsOK /\ ChipsOK /\ DetailOK /\ ViewMatchesChips /\ Remembers
    BY Parts
  <2>2. /\ selected_tag' = None
        /\ all_secrets' = all_secrets /\ filtered_secrets' = filtered_secrets
        /\ UNCHANGED <<path_filter, filter_input, saved_filter, before, sort, mode, paused,
                       versions_detail, selected_version_index, selected_index>>
    BY <1>1 DEF cycle_tag, cursors, filters
  <2>3. RowsOK' /\ distinct_tags' = {}
    BY <1>1, <2>1, <2>2, LeftAlone DEF distinct_tags
  <2>4. ViewMatchesChips'
    <3>1. CASE selected_tag = None
      BY <2>1, <2>2, <3>1, LeftAlone
    <3>2. CASE selected_tag # None
      <4>1. filtered_secrets = <<>>
        BY <1>1, <2>1, <3>2, NothingTagged DEF ViewMatchesChips
      <4>2. QED
        BY <2>2, <2>3, <4>1 DEF ViewMatchesChips
    <3>3. QED
      BY <3>1, <3>2
  <2>5. ChipsOK' /\ DetailOK' /\ Remembers'
    BY <2>1, <2>2 DEF ChipsOK, DetailOK, Remembers
  <2>6. QED
    BY <2>3, <2>4, <2>5, PartsNext
<1>2. CASE distinct_tags # {}
  <2>1. /\ selected_tag' = IF LaterTags = {} THEN None ELSE Min(LaterTags)
        /\ sort' = sort /\ Rearranges
    BY <1>2 DEF cycle_tag
  <2>2. LaterTags \subseteq Tags
    BY TagsInListing DEF LaterTags
  <2>3. LaterTags # {} => Min(LaterTags) \in Tags
    <3>1. LaterTags \subseteq Nat
      BY <2>2, TagsAssumption
    <3>2. LaterTags # {} => \E x \in LaterTags : \A y \in LaterTags : x <= y
      BY <3>1, LeastNat
    <3>3. LaterTags # {} => Min(LaterTags) \in LaterTags
      BY <3>2, Zenon DEF Min
    <3>4. QED
      BY <2>2, <3>3
  <2>4. selected_tag' \in Tags \cup {None} /\ sort' \in Orders
    BY <2>1, <2>3, Parts DEF ChipsOK
  <2>5. QED
    BY <2>1, <2>4, RearrangesInv
<1>3. QED
  BY <1>1, <1>2

\* The next column, or the other direction.
LEMMA SortKeysInv ==
    ASSUME IInv, cycle_sort \/ reverse_sort
    PROVE  IInv'
<1>1. sort \in Orders /\ selected_tag \in Tags \cup {None}
  BY Parts DEF ChipsOK
<1>2. DOMAIN Columns = 1..5 /\ Len(Columns) = 5
  BY DEF Columns
<1>3. sort.column \in 1..5 /\ sort.descending \in BOOLEAN
  BY <1>1, <1>2 DEF Orders
<1>4. CASE cycle_sort
  <2>1. (sort.column % 5) + 1 \in 1..5
    BY <1>3
  <2>2. sort' \in Orders /\ selected_tag' = selected_tag /\ Rearranges
    BY <1>2, <1>4, <2>1 DEF cycle_sort, Orders
  <2>3. QED
    BY <1>1, <2>2, RearrangesInv
<1>5. CASE reverse_sort
  <2>1. sort' \in Orders /\ selected_tag' = selected_tag /\ Rearranges
    BY <1>1, <1>3, <1>5 DEF reverse_sort, Orders
  <2>2. QED
    BY <1>1, <2>1, RearrangesInv
<1>6. QED
  BY <1>4, <1>5

\* Typing begins, or the refresh is paused.
LEMMA ModeKeysInv ==
    ASSUME IInv, start_filtering \/ toggle_pause
    PROVE  IInv'
<1>1. RowsOK /\ ChipsOK /\ DetailOK /\ ViewMatchesChips /\ Remembers /\ mode = "List"
  BY Parts DEF start_filtering, toggle_pause, InList
<1>2. /\ all_secrets' = all_secrets /\ filtered_secrets' = filtered_secrets
      /\ UNCHANGED <<path_filter, selected_tag, sort, versions_detail, selected_version_index,
                     selected_index>>
  BY DEF start_filtering, toggle_pause, cursors, filters
<1>3. RowsOK' /\ ViewMatchesChips'
  BY <1>1, <1>2, LeftAlone
<1>4. \/ /\ mode' = "Filtering" /\ paused' = paused
         /\ saved_filter' = path_filter /\ filter_input' = path_filter /\ before' = path_filter
      \/ /\ mode' = mode /\ paused' = ~paused
         /\ saved_filter' = saved_filter /\ filter_input' = filter_input /\ before' = before
  BY DEF start_filtering, toggle_pause, filters
<1>5. ChipsOK' /\ Remembers'
  BY <1>1, <1>2, <1>4 DEF ChipsOK, Remembers
<1>6. DetailOK'
  BY <1>1, <1>2, <1>4 DEF DetailOK
<1>7. QED
  BY <1>3, <1>5, <1>6, PartsNext

\* The rows follow the filter while it is typed, applied or given up.
LEMMA FiltersInv ==
    ASSUME IInv, Filters,
           \A f \in {path_filter', filter_input', saved_filter'} :
               f \in Seq(Char) /\ Len(f) <= MaxInput,
           mode' = "List" \/ (mode' = mode /\ saved_filter' = saved_filter)
    PROVE  IInv'
<1>1. RowsOK /\ ChipsOK /\ DetailOK /\ Remembers /\ mode = "Filtering"
  BY Parts DEF Filters
<1>2. /\ all_secrets' = all_secrets /\ recompute_filtered_and_sorted
      /\ UNCHANGED <<selected_tag, sort, before, paused, versions_detail,
                     selected_version_index>>
  BY DEF Filters
<1>3. all_secrets' \in Listings \cup {{}} /\ selected_index \in Nat /\ sort' \in Orders
  BY <1>1, <1>2, CursorFacts DEF RowsOK, ChipsOK
<1>4. RowsOK' /\ ViewMatchesChips'
  BY <1>2, <1>3, Recomputed
<1>5. ChipsOK'
  BY <1>1, <1>2 DEF ChipsOK
<1>6. DetailOK' /\ Remembers'
  BY <1>1, <1>2 DEF DetailOK, Remembers
<1>7. QED
  BY <1>4, <1>5, <1>6, PartsNext

\* The keys while the filter is typed.
LEMMA TypingInv ==
    ASSUME IInv,
           \/ \E c \in Char : input_filter_char(c)
           \/ input_filter_backspace \/ apply_filter_input \/ cancel_filter_input
    PROVE  IInv'
<1>1. \A f \in {path_filter, filter_input, saved_filter} :
         f \in Seq(Char) /\ Len(f) <= MaxInput
  BY Parts DEF ChipsOK
<1>2. <<>> \in Seq(Char) /\ Len(<<>>) <= MaxInput
  BY TopBoundsAssumption
<1>3. ASSUME NEW input \in Seq(Char), Len(input) <= MaxInput, Types(input)
      PROVE  IInv'
  <2>1. /\ filter_input' = input /\ path_filter' = input
        /\ saved_filter' = saved_filter /\ mode' = mode /\ Filters
    BY <1>3 DEF Types
  <2>2. \A f \in {path_filter', filter_input', saved_filter'} :
           f \in Seq(Char) /\ Len(f) <= MaxInput
    BY <1>1, <1>3, <2>1
  <2>3. QED
    BY <2>1, <2>2, FiltersInv
<1>4. ASSUME NEW c \in Char, input_filter_char(c)
      PROVE  IInv'
  <2>1. /\ Append(filter_input, c) \in Seq(Char)
        /\ Len(Append(filter_input, c)) <= MaxInput
    BY <1>1, <1>4, TopBoundsAssumption DEF input_filter_char
  <2>2. QED
    BY <1>3, <1>4, <2>1 DEF input_filter_char
<1>5. CASE input_filter_backspace
  <2>1. CASE filter_input = <<>>
    BY <1>2, <1>3, <1>5, <2>1 DEF input_filter_backspace
  <2>2. CASE filter_input # <<>>
    <3> DEFINE rest == SubSeq(filter_input, 1, Len(filter_input) - 1)
    <3>1. rest \in Seq(Char) /\ Len(rest) <= MaxInput
      BY <1>1, <2>2, TopBoundsAssumption
    <3>2. Types(rest)
      BY <1>5, <2>2 DEF input_filter_backspace
    <3>3. QED
      BY <1>3, <3>1, <3>2
  <2>3. QED
    BY <2>1, <2>2
<1>6. CASE apply_filter_input
  <2>1. /\ path_filter' = filter_input /\ saved_filter' = <<>> /\ filter_input' = filter_input
        /\ mode' = "List" /\ Filters
    BY <1>6 DEF apply_filter_input
  <2>2. \A f \in {path_filter', filter_input', saved_filter'} :
           f \in Seq(Char) /\ Len(f) <= MaxInput
    BY <1>1, <1>2, <2>1
  <2>3. QED
    BY <2>1, <2>2, FiltersInv
<1>7. CASE cancel_filter_input
  <2>1. /\ path_filter' = saved_filter /\ saved_filter' = <<>> /\ filter_input' = <<>>
        /\ mode' = "List" /\ Filters
    BY <1>7 DEF cancel_filter_input
  <2>2. \A f \in {path_filter', filter_input', saved_filter'} :
           f \in Seq(Char) /\ Len(f) <= MaxInput
    BY <1>1, <1>2, <2>1
  <2>3. QED
    BY <2>1, <2>2, FiltersInv
<1>8. QED
  BY <1>4, <1>5, <1>6, <1>7

\* The versions of one secret are shown, walked through, put away.
LEMMA DetailKeysInv ==
    ASSUME IInv, open_detail \/ close_detail \/ select_version_next \/ select_version_prev
    PROVE  IInv'
<1>1. /\ RowsOK /\ ChipsOK /\ DetailOK /\ ViewMatchesChips /\ Remembers
  BY Parts
<1>2. /\ all_secrets' = all_secrets /\ filtered_secrets' = filtered_secrets
      /\ UNCHANGED <<path_filter, filter_input, saved_filter, before, selected_tag, sort,
                     paused, selected_index>>
  BY DEF open_detail, close_detail, select_version_next, select_version_prev, InDetail, filters
<1>3. RowsOK' /\ ViewMatchesChips' /\ ChipsOK'
  BY <1>1, <1>2, LeftAlone DEF ChipsOK
<1>4. mode' \in {"List", "Detail"}
  BY DEF open_detail, close_detail, select_version_next, select_version_prev, InDetail
<1>5. DetailOK'
  <2>1. CASE open_detail
    <3>1. mode = "List" /\ mode' = "Detail" /\ selected_version_index' = 0
      BY <2>1 DEF open_detail, InList, set_versions
    <3>2. CASE set_versions
      <4>1. PICK k \in 1..MaxVersions : versions_detail' = [path |-> Selected', count |-> k]
        BY <3>2 DEF set_versions
      <4>2. versions_detail'.count = k /\ 0 < k
        BY <4>1, TopBoundsAssumption
      <4>3. QED
        BY <1>1, <1>2, <3>1, <4>2 DEF DetailOK
    <3>3. CASE versions_detail' = versions_detail
      BY <1>1, <1>2, <3>1, <3>3 DEF DetailOK
    <3>4. QED
      BY <2>1, <3>2, <3>3 DEF open_detail
  <2>2. CASE close_detail
    BY <1>1, <1>2, <2>2 DEF close_detail, DetailOK
  <2>3. CASE select_version_next
    BY <1>1, <1>2, <2>3 DEF select_version_next, InDetail, DetailOK
  <2>4. CASE select_version_prev
    <3>1. /\ selected_version_index \in Nat
          /\ selected_version_index' = Less(selected_version_index, 1)
          /\ mode' = mode /\ versions_detail' = versions_detail
      BY <1>1, <2>4 DEF select_version_prev, DetailOK
    <3>2. selected_version_index' \in Nat /\ selected_version_index' <= selected_version_index
      BY <3>1 DEF Less
    <3>3. versions_detail # None => versions_detail.count \in Nat
      BY <1>1, TopBoundsAssumption DEF DetailOK
    <3>4. QED
      BY <1>1, <1>2, <3>1, <3>2, <3>3 DEF DetailOK
  <2>5. QED
    BY <2>1, <2>2, <2>3, <2>4
<1>6. Remembers'
  BY <1>4 DEF Remembers
<1>7. QED
  BY <1>3, <1>5, <1>6, PartsNext

\* A dashboard that has fetched nothing yet.
LEMMA InitInv ==
    ASSUME Init
    PROVE  IInv
<1>1. Listing({}) /\ sort \in Orders
  BY ListingsAreListings DEF Init, Orders, Columns
<1>2. Shown({}, path_filter, selected_tag) = {}
  BY DEF Shown
<1>3. 1..Cardinality(Shown({}, path_filter, selected_tag)) = {}
  BY <1>2, FS_EmptySet
<1>4. Rows({}, path_filter, selected_tag, sort) = <<>>
  BY <1>3 DEF Rows
<1>5. ViewMatchesChips
  BY <1>4 DEF Init, ViewMatchesChips
<1>6. RowsOK /\ Remembers
  BY DEF Init, RowsOK, Remembers
<1>7. ChipsOK
  BY <1>1, TopBoundsAssumption DEF Init, ChipsOK
<1>8. DetailOK
  BY DEF Init, DetailOK
<1>9. QED
  BY <1>5, <1>6, <1>7, <1>8, Parts

\* No step breaks the invariant.
LEMMA StepInv ==
    ASSUME IInv, [Next]_vars
    PROVE  IInv'
<1>1. CASE auto_refresh \/ refresh_key
  BY <1>1, RefreshInv DEF auto_refresh, refresh_key
<1>2. CASE \/ select_next \/ select_prev \/ select_first \/ select_last
           \/ select_page_down \/ select_page_up
  BY <1>2, CursorKeysInv
<1>3. CASE cycle_tag
  BY <1>3, CycleTagInv
<1>4. CASE cycle_sort \/ reverse_sort
  BY <1>4, SortKeysInv
<1>5. CASE start_filtering \/ toggle_pause
  BY <1>5, ModeKeysInv
<1>6. CASE \/ \E c \in Char : input_filter_char(c)
           \/ input_filter_backspace \/ apply_filter_input \/ cancel_filter_input
  BY <1>6, TypingInv
<1>7. CASE open_detail \/ close_detail \/ select_version_next \/ select_version_prev
  BY <1>7, DetailKeysInv
<1>8. CASE UNCHANGED vars
  <2>1. /\ all_secrets' = all_secrets /\ filtered_secrets' = filtered_secrets
        /\ UNCHANGED <<path_filter, filter_input, saved_filter, before, selected_tag, sort, mode,
                       paused, versions_detail, selected_version_index, selected_index>>
    BY <1>8 DEF vars, cursors, filters
  <2>2. RowsOK' /\ ViewMatchesChips'
    BY <2>1, Parts, LeftAlone
  <2>3. ChipsOK' /\ DetailOK' /\ Remembers'
    BY <2>1, Parts DEF ChipsOK, DetailOK, Remembers
  <2>4. QED
    BY <2>2, <2>3, PartsNext
<1>9. QED
  BY <1>1, <1>2, <1>3, <1>4, <1>5, <1>6, <1>7, <1>8 DEF Next
-----------------------------------------------------------------------------
(* The theorems.                                                            *)

\* The inductive invariant: cursors, rows, chips and what Escape puts back.
THEOREM Invariant == Spec => []IInv
<1>1. Init => IInv
  BY InitInv
<1>2. IInv /\ [Next]_vars => IInv'
  BY StepInv
<1>3. QED
  BY <1>1, <1>2, PTL DEF Spec

\* The cursors stay inside their lists, for any listings, filter and page size.
THEOREM TypeCorrect == Spec => []TypeOK
<1>1. IInv => TypeOK
  BY DEF IInv
<1>2. QED
  BY <1>1, Invariant, PTL

\* The rows on screen are the ones the filter, the tag and the order describe,
\* but for the tag that vanished (app.rs:325).
THEOREM ViewAlwaysMatchesChips == Spec => []ViewMatchesChips
<1>1. IInv => ViewMatchesChips
  BY DEF IInv
<1>2. QED
  BY <1>1, Invariant, PTL

\* The rows on screen stand in the chosen order and each passes the filter and
\* the tag; every secret that does is there once, but for the vanished tag.
ShownOnceInOrder ==
    /\ \A i, j \in 1..Len(filtered_secrets) :
          i < j => ComesBefore(filtered_secrets[i], filtered_secrets[j], sort)
    /\ filtered_secrets \in Seq(Shown(all_secrets, path_filter, selected_tag))
    /\ \/ \A s \in Shown(all_secrets, path_filter, selected_tag) :
             \E i \in 1..Len(filtered_secrets) : filtered_secrets[i] = s
       \/ distinct_tags = {} /\ selected_tag = None /\ filtered_secrets = <<>>

\* Sorting and filtering lose no secret, show none twice and none out of order
\* (app.rs:478), whatever was fetched and typed.
THEOREM RowsAreSorted == Spec => []ShownOnceInOrder
<1>1. ASSUME IInv PROVE ShownOnceInOrder
  <2>1. Listing(all_secrets) /\ sort \in Orders
    BY <1>1, Parts, ListingsAreListings DEF RowsOK, ChipsOK
  <2>2. CASE filtered_secrets = Rows(all_secrets, path_filter, selected_tag, sort)
    BY <2>1, <2>2, RowsInOrder DEF ShownOnceInOrder
  <2>3. CASE distinct_tags = {} /\ selected_tag = None /\ filtered_secrets = <<>>
    BY <2>3 DEF ShownOnceInOrder
  <2>4. QED
    BY <1>1, <2>2, <2>3 DEF IInv, ViewMatchesChips
<1>2. QED
  BY <1>1, Invariant, PTL

\* Escape leaves the filter and the rows as before typing began (app.rs:305).
THEOREM CancelAlwaysRestores == Spec => CancelRestores
<1>1. IInv /\ [Next]_vars =>
        [cancel_filter_input =>
            /\ path_filter' = before
            /\ filtered_secrets' = Rows(all_secrets', before, selected_tag', sort')]_vars
  <2>1. ASSUME IInv, cancel_filter_input
        PROVE  /\ path_filter' = before
               /\ filtered_secrets' = Rows(all_secrets', before, selected_tag', sort')
    <3>1. path_filter' = saved_filter /\ Filters
      BY <2>1 DEF cancel_filter_input
    <3>2. saved_filter = before
      BY <2>1, <3>1 DEF IInv, Remembers, Filters
    <3>3. QED
      BY <3>1, <3>2 DEF Filters, recompute_filtered_and_sorted
  <2>2. QED
    BY <2>1
<1>2. QED
  BY Invariant, <1>1, PTL DEF Spec, CancelRestores
=============================================================================
