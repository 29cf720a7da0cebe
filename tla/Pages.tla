-------------------------------- MODULE Pages --------------------------------
(***************************************************************************)
(* fluxlit.pages, the page registry and the Streamlit entrypoint, as       *)
(* operators on page records and on the world w of Settings, which also    *)
(* has                                                                     *)
(*   order      paths of the NavigationModel, <<>> none                    *)
(* and in w.on session_store, strict_page_signatures, async_page_depends   *)
(* and experimental_yield_pages.                                           *)
(*                                                                         *)
(* A page record: path and title are texts; params is the set of kinds of  *)
(* parameters its handler declares, generator whether it is a generator    *)
(* function; children its PageMeta.children, each with a path and a title  *)
(* (Empty: none given).                                                    *)
(***************************************************************************)
EXTENDS PathText, Sequences, FiniteSets, SequencesExt

Home == 2                 \* the name "home"

Slug(path) == IF path.name = 0 THEN Home ELSE path.name

-----------------------------------------------------------------------------
(* Handler signatures.                                                     *)

Injected == {"settings", "urls", "app", "api_client", "flags"}
Marked   == {"depends", "depends_async", "header", "cookie"}
Named    == {"st", "client", "st_positional_only"}
Kinds == Injected \cup Marked \cup Named
           \cup {"store",               \* SessionStore
                 "depends_nothing",     \* Annotated with Depends()
                 "plain",               \* no annotation, or Any
                 "foreign",             \* another type
                 "foreign_default",     \* another type, with a default value
                 "variadic",            \* *args or **kwargs
                 "unresolved"}          \* an annotation that is a NameError

PageRecords ==
  [path : Texts, title : Texts, params : SUBSET Kinds, generator : BOOLEAN,
   children : Seq([path : Texts, title : Texts])]

(* Mutation: a parameter needs no annotation.                              *)
ValidateSignaturePlain(r) ==
  r.params \subseteq Injected \cup Marked \cup Named \cup {"store", "plain"}

ValidateStrictPageSignature(r) ==
  r.params \subseteq Injected \cup Marked \cup Named \cup {"store"}

(* With unresolved annotations the registry does not look.                 *)
ValidateSessionStoreOnPage(r, w) ==
  \/ "session_store" \in w.on
  \/ "unresolved" \in r.params
  \/ "store" \notin r.params

(* Mutation: pages are compared by path only.                              *)
FreePathOnly(r, pages) == \A i \in 1..Len(pages) : pages[i].path # r.path

(* Neither the path nor its url_path segment is taken.                     *)
Free(r, pages) ==
  \A i \in 1..Len(pages) :
    pages[i].path # r.path /\ Slug(pages[i].path) # Slug(r.path)

(* What register_streamlit_page raises, in the order of its checks.        *)
RegisterFault(r, pages, w) ==
  IF "strict_page_signatures" \in w.on /\ ~ValidateStrictPageSignature(r)
    THEN "signature"
  ELSE IF ~ValidateSessionStoreOnPage(r, w) THEN "store"
  ELSE IF ~Free(r, pages) THEN "path"
  ELSE "none"

(* The members of S in the order of the relation R: each has the place     *)
(* after the ones that R puts before it.                                   *)
Enumerate(S, R) ==
  [k \in 1..Cardinality(S) |->
     CHOOSE i \in S : Cardinality({j \in S : <<j, i>> \in R}) = k - 1]

(* list.sort is stable: the indices of s in the order of Less, ties as     *)
(* they were.                                                              *)
SortedBy(s, Less(_, _)) ==
  LET before == {e \in (1..Len(s)) \X (1..Len(s)) :
                   \/ Less(s[e[1]], s[e[2]])
                   \/ ~Less(s[e[2]], s[e[1]]) /\ e[1] < e[2]}
      idx == Enumerate(1..Len(s), before)
  IN  [k \in 1..Len(s) |-> s[idx[k]]]

(* The sort at the end of discover_streamlit_pages.                        *)
PathTitleLess(r, q) ==
  TextLess(r.path, q.path) \/ (r.path = q.path /\ TextLess(r.title, q.title))

-----------------------------------------------------------------------------
(* Navigation.                                                             *)

(* navigation_sort_key: pages the model names come first, in its order;    *)
(* the others follow by slug.                                              *)
SortKey(w, r) ==
  LET named == {k \in 1..Len(w.order) : Slug(w.order[k]) = Slug(r.path)}
  IN  IF named = {} THEN Len(w.order) + 1 ELSE Min(named)

NavigationSortKeyLess(w, r, q) ==
  \/ SortKey(w, r) < SortKey(w, q)
  \/ SortKey(w, r) = SortKey(w, q) /\ Slug(r.path) < Slug(q.path)

NavSorted(w, pages) ==
  IF w.order = <<>> THEN pages
  ELSE SortedBy(pages, LAMBDA r, q : NavigationSortKeyLess(w, r, q))

(* The edges of PageMeta.children, as pairs of indices; a page that names  *)
(* itself or an unknown path adds none.                                    *)
Edges(s) ==
  {e \in (1..Len(s)) \X (1..Len(s)) :
     /\ e[1] # e[2]
     /\ \E k \in 1..Len(s[e[1]].children) :
          Slug(s[e[1]].children[k].path) = Slug(s[e[2]].path)}

(* Mutation: a page is ready as soon as one of its parents is out.         *)
ReadyAfterOne(done, n, E) ==
  {i \in (1..n) \ ToSet(done) :
     \/ \A e \in E : e[2] # i
     \/ \E e \in E : e[2] = i /\ e[1] \in ToSet(done)}

(* The pages not yet out whose parents all are.                            *)
Ready(done, n, E) ==
  {i \in (1..n) \ ToSet(done) : \A e \in E : e[2] = i => e[1] \in ToSet(done)}

(* The heap gives the ready page of the lowest index, while there is one.  *)
Emit(done, n, E) ==
  LET ready == Ready(done, n, E)
  IN  IF ready = {} THEN done ELSE Append(done, Min(ready))

Emitted(n, E) ==
  LET out[k \in 0..n] == IF k = 0 THEN <<>> ELSE Emit(out[k - 1], n, E)
  IN  out[n]

(* The pages of a cycle and behind one follow in their old order.          *)
OrderRecordsWithChildren(s) ==
  LET n == Len(s)
      first == Emitted(n, Edges(s))
      rest == Enumerate((1..n) \ ToSet(first), {e \in (1..n) \X (1..n) : e[1] < e[2]})
      idx == first \o rest
  IN  [k \in 1..n |-> s[idx[k]]]

(* Every entry of every children list that names a page and has a title    *)
(* overrides that page's title; the last one wins.                         *)
ApplyChildrenOverrides(s) ==
  LET given == FlattenSeq([i \in 1..Len(s) |-> s[i].children])
      titles(r) == {k \in 1..Len(given) :
                      /\ Slug(given[k].path) = Slug(r.path)
                      /\ given[k].title # Empty}
      merged(r) == IF titles(r) = {} THEN r
                   ELSE [r EXCEPT !.title = given[Max(titles(r))].title]
  IN  [i \in 1..Len(s) |-> merged(s[i])]

(* The records run_streamlit_entrypoint makes pages of.                    *)
NavRecords(w, pages) ==
  ApplyChildrenOverrides(OrderRecordsWithChildren(NavSorted(w, pages)))

(* One comparison of match_nav_page: title, path, slug, or the path        *)
(* without its slashes.                                                    *)
Matches(wanted, r) ==
  \/ wanted \in {r.title, r.path, Word(Slug(r.path))}
  \/ wanted.name # 0 /\ wanted.name = r.path.name

(* The index of the first match; 0: the parameter is missing, empty or     *)
(* matches nothing.                                                        *)
MatchNavPage(wanted, nav) ==
  LET hits == {i \in 1..Len(nav) : Matches(wanted, nav[i])}
  IN  IF Strip(wanted) = Empty \/ hits = {} THEN 0 ELSE Min(hits)

-----------------------------------------------------------------------------
(* Running a page.                                                         *)

(* The parameters resolve_page_kwargs finds a value for.                   *)
Resolved(r, w) ==
  (r.params \cap (Injected \cup Marked \cup Named))
    \cup (IF "session_store" \in w.on THEN r.params \cap {"store"} ELSE {})

(* A dependency that is a coroutine function, or returns a coroutine, is   *)
(* an error unless async_page_depends is on.                               *)
AsyncRefused(r, w) == "depends_async" \in r.params /\ "async_page_depends" \notin w.on

(* It then runs in this thread or, under a running loop, in a thread that  *)
(* is joined for 300 seconds.                                              *)
DependsFailures(r, w) ==
  LET async == "depends_async" \in r.params /\ ~AsyncRefused(r, w)
  IN  (IF async \/ "depends" \in r.params THEN {"depends_raised"} ELSE {})
        \cup (IF async THEN {"depends_timeout"} ELSE {})

(* The handler is called with the keyword arguments found.  A generator    *)
(* function runs only under experimental_yield_pages; the call of another  *)
(* one makes a generator nobody iterates.                                  *)
CallOutcome(r, w) ==
  LET needed == r.params \cap {"store", "depends_nothing", "plain", "foreign"}
  IN  IF needed \ Resolved(r, w) # {} THEN "missing_argument"
      ELSE IF "st_positional_only" \in r.params THEN "positional_only"
      ELSE IF r.generator /\ "experimental_yield_pages" \notin w.on THEN "blank"
      ELSE "ran"

(* What resolve_and_call_page can end with, the handler's own errors       *)
(* aside.                                                                  *)
PageOutcomes(r, w) ==
  IF "unresolved" \in r.params THEN {"annotations"}
  ELSE DependsFailures(r, w)
         \cup {IF AsyncRefused(r, w) THEN "async_refused" ELSE CallOutcome(r, w)}

-----------------------------------------------------------------------------
(* Checking the pages of an app (pages validate, doctor --check-pages).    *)

(* validate_fluxlit_pages: duplicates of path or slug, and with strict the *)
(* signatures.  The manifest cannot be made when a handler's annotations   *)
(* do not resolve: that NameError leaves the function.                     *)
PageErrors(pages, strict) ==
  \/ \E i, j \in 1..Len(pages) : i # j /\ Slug(pages[i].path) = Slug(pages[j].path)
  \/ strict /\ \E i \in 1..Len(pages) : ~ValidateStrictPageSignature(pages[i])

ManifestRaises(pages) == \E i \in 1..Len(pages) : "unresolved" \in pages[i].params
=============================================================================
