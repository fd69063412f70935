------------------------------ MODULE PagedList ------------------------------
(***************************************************************************)
(* contrib/sync_cloudflare_records.py, CloudflareClient.paginated_get: one *)
(* call, requesting page 1, 2, ... of a provider listing by offset         *)
(* (page, per_page) until the reported total_pages is reached, while the   *)
(* provider may insert or delete entries between two requests.             *)
(***************************************************************************)
EXTENDS Naturals, Sequences, SequencesExt

CONSTANTS
    Items,       \* entry ids (record ids)
    PerPage,     \* per_page
    MaxEdits,    \* bound on provider edits during the call
    MaxRequests  \* bound on requests (never reached by the code's loop)

\* Every listing of distinct entries the call can start from.
InitLists == UNION {SetToSeqs(S) : S \in SUBSET Items}

\* The provider's answer to page p of listing l: the slice at offset
\* (p - 1) * per_page, and result_info.total_pages.
PageOf(l, p) ==
    LET hi == p * PerPage
    IN  SubSeq(l, (p - 1) * PerPage + 1, IF hi > Len(l) THEN Len(l) ELSE hi)
TotalPages(l) == (Len(l) + PerPage - 1) \div PerPage

MaxPage == TotalPages(SetToSeq(Items))

VARIABLES
    items,     \* the provider's listing now
    page,      \* page
    results,   \* results
    requests,  \* requests issued
    status,    \* "running", "done" (returned), "failed" (raised)
    edits,
    edited,    \* ghost: the listing changed during the call
    kept       \* ghost: entries present from the call's start until now

vars == <<items, page, results, requests, status, edits, edited, kept>>

TypeOK ==
    /\ items \in Seq(Items) /\ IsInjective(items)
    /\ page \in 1..MaxPage
    /\ results \in Seq(Items)
    /\ requests \in 0..MaxRequests
    /\ status \in {"running", "done", "failed"}
    /\ edits \in 0..MaxEdits /\ edited \in BOOLEAN
    /\ kept \subseteq Items

Init ==
    /\ items \in InitLists
    /\ page = 1 /\ results = <<>> /\ requests = 0 /\ status = "running"
    /\ edits = 0 /\ edited = FALSE /\ kept = ToSet(items)

\* `if not total_pages or page >= int(total_pages): break`
LastPage(tp) == tp = 0 \/ page >= tp

\* A variant of request_page (a fault: the page counter is not advanced).
request_page_no_advance ==
    /\ status = "running" /\ requests < MaxRequests
    /\ results' = results \o PageOf(items, page)
    /\ requests' = requests + 1
    /\ IF LastPage(TotalPages(items)) THEN status' = "done"
                                      ELSE UNCHANGED status
    /\ UNCHANGED <<items, page, edits, edited, kept>>

\* A variant of request_page (a fault: the loop stops only past the last
\* page, `page > total_pages`).
request_page_late_stop ==
    /\ status = "running" /\ requests < MaxRequests
    /\ LET tp == TotalPages(items) IN
         /\ results' = results \o PageOf(items, page)
         /\ requests' = requests + 1
         /\ IF tp = 0 \/ page > tp
               THEN status' = "done" /\ UNCHANGED page
               ELSE page' = page + 1 /\ UNCHANGED status
    /\ UNCHANGED <<items, edits, edited, kept>>

\* A variant of request_page (a fault: `results = batch` instead of
\* results.extend(batch)).
request_page_overwrite ==
    /\ status = "running" /\ requests < MaxRequests
    /\ results' = PageOf(items, page)
    /\ requests' = requests + 1
    /\ IF LastPage(TotalPages(items))
          THEN status' = "done" /\ UNCHANGED page
          ELSE page' = page + 1 /\ UNCHANGED status
    /\ UNCHANGED <<items, edits, edited, kept>>

\* GET page `page`: results.extend(batch); stop at the last reported page,
\* else page += 1.
request_page ==
    /\ status = "running" /\ requests < MaxRequests
    /\ results' = results \o PageOf(items, page)
    /\ requests' = requests + 1
    /\ IF LastPage(TotalPages(items))
          THEN status' = "done" /\ UNCHANGED page
          ELSE page' = page + 1 /\ UNCHANGED status
    /\ UNCHANGED <<items, edits, edited, kept>>

\* request raises CloudflareError (transport error, bad JSON, status >= 400
\* or success false): it leaves paginated_get, the pages read are lost.
request_fails ==
    /\ status = "running"
    /\ status' = "failed"
    /\ UNCHANGED <<items, page, results, requests, edits, edited, kept>>

\* Cloudflare deletes the entry at position i.
delete_entry ==
    /\ status = "running" /\ edits < MaxEdits
    /\ \E i \in 1..Len(items) :
         /\ items' = RemoveAt(items, i)
         /\ kept' = kept \ {items[i]}
    /\ edits' = edits + 1 /\ edited' = TRUE
    /\ UNCHANGED <<page, results, requests, status>>

\* Cloudflare inserts a new entry at position i.
insert_entry ==
    /\ status = "running" /\ edits < MaxEdits
    /\ \E i \in 1..Len(items) + 1, e \in Items \ ToSet(items) :
         items' = InsertAt(items, i, e)
    /\ edits' = edits + 1 /\ edited' = TRUE
    /\ UNCHANGED <<page, results, requests, status, kept>>

\* The call has returned or raised.
Finished ==
    /\ status # "running"
    /\ UNCHANGED vars

Next ==
    \/ request_page \/ request_fails \/ delete_entry \/ insert_entry
    \/ Finished

\* Every request is answered within its timeout (120 s); whether the answer
\* is an error is not constrained.
Spec == Init /\ [][Next]_vars /\ WF_vars(request_page)

-----------------------------------------------------------------------------
(***************************************************************************)
(* Properties                                                              *)
(***************************************************************************)

\* Spec 8, pagination: when the listing does not change during the call,
\* paginated_get returns the concatenation of all pages, i.e. the listing
\* itself in order, after exactly max(1, total_pages) requests.
UneditedListingIsExact ==
    (status = "done" /\ ~edited) =>
        /\ results = items
        /\ requests = IF TotalPages(items) = 0 THEN 1 ELSE TotalPages(items)

\* Every call returns or raises, whatever the provider does meanwhile.
PagerTerminates == <>(status # "running")

\* An entry that exists at Cloudflare for the whole call is in the result
\* (the engine's replace_zone_records deletes every record not in it).
NoLiveEntryLost ==
    status = "done" => kept \subseteq ToSet(results)
=============================================================================
