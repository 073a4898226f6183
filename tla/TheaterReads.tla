---------------------------- MODULE TheaterReads ----------------------------
(***************************************************************************)
(* read-api: the theater booking pages (theaters_read.py). A page that is  *)
(* not in the cache is built from the database and stored with no TTL; the *)
(* refund of write-api rebuilds both pages with the same functions.        *)
(* A cached page is modelled by how many transactions of history it shows, *)
(* or Late if it had missed one by the time it was stored.                 *)
(***************************************************************************)
EXTENDS TheaterStore

Fillers == Readers \cup RefundIds

VARIABLES
    fill,       \* where each filler is; one is one request
    wants,      \* the last page it stores
    seen        \* the transactions its first SELECT saw

fillVars == <<fill, wants, seen>>

FillTypeOK ==
    /\ fill \in [Fillers -> {"idle", "build", "over"} \cup Pages]
    /\ wants \in [Fillers -> Pages]
    /\ seen \in [Fillers -> Nat]

FillInit ==
    /\ fill = [x \in Fillers |-> "idle"]
    /\ wants = [x \in Fillers |-> "bootstrap"]
    /\ seen = [x \in Fillers |-> 0]

BeginFill(x, page) ==
    /\ fill' = [fill EXCEPT ![x] = "build"]
    /\ wants' = [wants EXCEPT ![x] = page]
    /\ UNCHANGED seen

\* get_theaters_bootstrap, get_theater_detail: a page found is returned, one
\* that is not there, or that Redis could not give, is built.
Miss(x) ==
    /\ x \in Readers
    /\ fill[x] = "idle"
    /\ \E page \in Pages :
         /\ cache[page] = Missing \/ Fails("redis", x)
         /\ BeginFill(x, page)
    /\ UNCHANGED theaterVars

\* _fetch_bootstrap_from_db: the connection is in autocommit, so the seats are
\* read later than the schedule and may show more; that makes the page Late.
Build(x) ==
    /\ fill[x] = "build"
    /\ seen' = [seen EXCEPT ![x] = Len(history)]
    /\ fill' = [fill EXCEPT ![x] = "bootstrap"]
    /\ UNCHANGED <<theaterVars, wants>>

\* SET of one page after the other. redis_client hides its failures.
StorePage(x, page) ==
    /\ fill[x] = page
    /\ \/ /\ cache' = [cache EXCEPT ![page] = IF seen[x] = Len(history)
                                              THEN seen[x] ELSE Late]
          /\ owing' = [owing EXCEPT ![page] = @ \ {x}]
       \/ Fails("redis", x) /\ UNCHANGED <<cache, owing>>
    /\ IF page = wants[x]
         THEN /\ fill' = [fill EXCEPT ![x] = "over"]
              /\ seen' = [seen EXCEPT ![x] = 0]
         ELSE /\ fill' = [fill EXCEPT ![x] = "detail"]
              /\ UNCHANGED seen
    /\ UNCHANGED <<req, dbVars, wants>>

\* The pod dies, or a SELECT raises (warmup_theaters_booking_caches is called in
\* a try block that ignores it).
FillCrash(x) ==
    /\ fill[x] \notin {"idle", "over"}
    /\ Fails("crash", x)
    /\ fill' = [fill EXCEPT ![x] = "over"]
    /\ seen' = [seen EXCEPT ![x] = 0]
    /\ UNCHANGED <<theaterVars, wants>>

FillStep(x) ==
    \/ Miss(x) \/ Build(x)
    \/ \E page \in Pages : StorePage(x, page)
=============================================================================
