---------------------------- MODULE Recommendations ----------------------------
(***************************************************************************)
(* get_product_list of the recommendation service while the flag           *)
(* recommendationCacheFailure is on: requests run in threads that extend   *)
(* one list, first_run and cached_ids being global and not locked.  The    *)
(* list is known by its length: each of its ids is of the catalogue.       *)
(***************************************************************************)
EXTENDS Naturals

CONSTANTS
  Requests,    \* the threads, of one request each
  Catalogue    \* how many products there are

VARIABLES
  first_run,
  cached_ids,   \* the length of the list
  request,      \* of each thread: where it is, the length it has read to append to, and
                \* the length of the list that it slices
  misses,       \* misses so far
  extended      \* for the property only: whether a miss has extended the list

vars == <<first_run, cached_ids, request, misses, extended>>

Init ==
  /\ first_run = TRUE
  /\ cached_ids = 0
  /\ request = [r \in Requests |-> [at |-> "new", read |-> 0, sliced |-> 0]]
  /\ misses = 0
  /\ extended = FALSE

\* A thread goes on from one step to the next, with what it has read.
Goes(r, from, to, read, sliced) ==
  /\ request[r].at = from
  /\ request' = [request EXCEPT ![r] = [at |-> to, read |-> read, sliced |-> sliced]]

Hit(r) ==
  /\ ~first_run
  /\ Goes(r, "new", "done", cached_ids, 0)
  /\ UNCHANGED <<first_run, cached_ids, misses, extended>>

\* By chance or the first: first_run is reset before the catalogue is asked.
Miss(r) ==
  /\ Goes(r, "new", "list", 0, 0)
  /\ first_run' = FALSE
  /\ misses' = misses + 1
  /\ UNCHANGED <<cached_ids, extended>>

\* ListProducts answers, and the list is read, or the call fails and the request with it.
ListProducts(r, well) ==
  /\ Goes(r, "list", IF well THEN "append" ELSE "failed", cached_ids, 0)
  /\ UNCHANGED <<first_run, cached_ids, misses, extended>>

AppendAll(r) ==
  /\ Goes(r, "append", "again", 0, 0)
  /\ cached_ids' = request[r].read + Catalogue
  /\ extended' = TRUE
  /\ UNCHANGED <<first_run, misses>>

\* The list is read three times to append its first quarter: for what to append to, ...
ReadAgain(r) ==
  /\ Goes(r, "again", "slice", cached_ids, 0)
  /\ UNCHANGED <<first_run, cached_ids, misses, extended>>

\* ... for what to take the quarter of, ...
ReadSliced(r) ==
  /\ Goes(r, "slice", "quarter", request[r].read, cached_ids)
  /\ UNCHANGED <<first_run, cached_ids, misses, extended>>

\* Variant: all but the first quarter.
QuarterRest(n) == n - n \div 4

Quarter(n) == n \div 4

\* A slice ends where its list does.
Slice(n, end) == IF n < end THEN n ELSE end

\* ... and for how much that is: it may be another list each time.
TakeQuarter(r) ==
  /\ Goes(r, "quarter", "store",
          request[r].read + Slice(request[r].sliced, Quarter(cached_ids)), 0)
  /\ UNCHANGED <<first_run, cached_ids, misses, extended>>

AppendQuarter(r) ==
  /\ Goes(r, "store", "use", 0, 0)
  /\ cached_ids' = request[r].read
  /\ UNCHANGED <<first_run, misses, extended>>

\* The answer is drawn from the list as it is now.
Use(r) ==
  /\ Goes(r, "use", "done", cached_ids, 0)
  /\ UNCHANGED <<first_run, cached_ids, misses, extended>>

Next ==
  \E r \in Requests :
    \/ Hit(r) \/ Miss(r)
    \/ \E well \in BOOLEAN : ListProducts(r, well)
    \/ AppendAll(r) \/ ReadAgain(r) \/ ReadSliced(r) \/ TakeQuarter(r) \/ AppendQuarter(r)
    \/ Use(r)

-----------------------------------------------------------------------------
\* The longest list that k quarters can make of n ids.
Grown(n, k) ==
  LET g[i \in 0..k] == IF i = 0 THEN n ELSE g[i - 1] + g[i - 1] \div 4 IN g[k]

\* Requests that lose each other's extensions neither empty the list nor leak more than
\* they would one after the other: once extended it holds a catalogue at least, so that
\* only hits before the first answer of the catalogue recommend nothing; and after n
\* misses it holds at most what n catalogues and n quarters make.
CacheHoldsCatalogues ==
  /\ extended => Catalogue <= cached_ids
  /\ cached_ids <= Grown(misses * Catalogue, misses)
=============================================================================
