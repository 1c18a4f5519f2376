---------------------------- MODULE ResultsPage ----------------------------
(***************************************************************************)
(* A reader's visits to the results of one search                          *)
(* (public/js/results.js): the stream that fills the grid, the results     *)
(* saved in the browser for an hour, and the link to share that            *)
(* ShortenHandler (internal/handlers/shorten.go) gives out.                *)
(*                                                                         *)
(* The server's end of the connection is StreamProtocol, which             *)
(* SearchStream implements. What it sends is on the wire until the page    *)
(* dispatches it, in order; the connection may break at any moment. A page *)
(* that is left or that closes its EventSource dispatches nothing any more.*)
(***************************************************************************)
EXTENDS Integers, SequencesExt

CONSTANTS
  MaxBooks,
  Anonymous,  \* the books without a goodreads_id
  Tokens,
  Own,        \* the page's requests for a link: a bound on those under way
  Others,     \* those of other readers
  Searches,   \* what a link may lead to
  Mine,       \* the search of this page
  None

Books == 1..MaxBooks
Requests == Own \union Others

ASSUME PageAssumption ==
  /\ MaxBooks \in Nat \ {0} /\ Anonymous \subseteq Books
  /\ Mine \in Searches /\ None \notin Searches \union Tokens
  /\ Own \intersect Others = {} /\ Own # {}

VARIABLES
  phase, listed, shown, patched, ending, events,  \* StreamProtocol
  wire,      \* what the server has sent and the page has not seen
  es,        \* activeES: "none", "open" or "closed"
  status,    \* what the page says of the search
  checked,   \* availabilityDone
  elements,  \* how many cards and stubs of a book are in the grid
  byId,      \* bookElements
  allBooks,
  saved,     \* the entry of this search in the results cache, and of what shelf
  link,      \* the token of copy-link-btn
  shortlinks,
  request,   \* where each request for a link is, and for which search
  given      \* every token that was given out, and for which search

serverVars == <<phase, listed, shown, patched, ending, events>>
gridVars == <<elements, byId, allBooks>>
linkVars == <<shortlinks, request, given>>
vars == <<serverVars, wire, es, status, checked, gridVars, saved, link, linkVars>>

Server == INSTANCE StreamProtocol

NoRequest == [at |-> "none", for |-> None, token |-> None]

Init ==
  /\ Server!Init
  /\ elements = [b \in Books |-> 0] /\ byId = [b \in Books |-> "none"] /\ allBooks = <<>>
  /\ wire = <<>> /\ es = "none" /\ status = "away" /\ checked = FALSE
  /\ saved = None /\ link = None
  /\ shortlinks = [t \in Tokens |-> None]
  /\ request = [r \in Requests |-> NoRequest]
  /\ given = {}

-----------------------------------------------------------------------------
(* The connection *)

Event(type, books) == [type |-> type, books |-> books]

Sends(event) == wire' = Append(wire, event)

ServerSends ==
  /\ es = "open"
  /\ \/ Server!List /\ Sends(Event("book_stubs", listed'))
     \/ Server!Show /\ Sends(Event("book", shown' \ shown))
     \/ Server!AllChecked /\ Sends(Event("availability_done", {}))
     \/ Server!Fill /\ Sends(Event("book_update", patched' \ patched))
     \/ Server!Done /\ Sends(Event("done", {}))
     \/ Server!Error /\ Sends(Event("error", {}))
  /\ UNCHANGED <<es, status, checked, gridVars, saved, link, linkVars>>

\* What is on the wire at this moment still arrives; what would be sent later and is lost
\* makes no difference to the page.
Break ==
  /\ es = "open"
  /\ ~\E i \in DOMAIN wire : wire[i].type = "lost"
  /\ Sends(Event("lost", {}))
  /\ phase' = "closed"
  /\ UNCHANGED <<listed, shown, patched, ending, events, es, status, checked, gridVars,
                 saved, link, linkVars>>

-----------------------------------------------------------------------------
(* Visits *)

\* Another connection gets a stream of its own.
NewStream ==
  /\ phase' = "open" /\ listed' = {} /\ shown' = {} /\ patched' = {}
  /\ ending' = "none" /\ events' = 0
  /\ wire' = <<>>

ClearGrid ==
  /\ elements' = [b \in Books |-> 0]
  /\ byId' = [b \in Books |-> "none"]
  /\ allBooks' = <<>>

StartStream ==
  /\ NewStream /\ ClearGrid
  /\ es' = "open" /\ status' = "loading" /\ checked' = FALSE
  /\ link' = None

\* loadFromCache, or a stream.
Visit ==
  /\ status = "away"
  /\ IF saved # None /\ saved.books # {}
       THEN /\ elements' = [b \in Books |-> IF b \in saved.books THEN 1 ELSE 0]
            /\ byId' = [b \in Books |-> IF b \in saved.books \ Anonymous THEN "card" ELSE "none"]
            /\ allBooks' \in [1..Cardinality(saved.books) -> saved.books]
            /\ \A b \in saved.books : \E i \in DOMAIN allBooks' : allBooks'[i] = b
            /\ status' = "done"
            /\ UNCHANGED <<serverVars, wire, es, checked, link>>
       ELSE StartStream
  /\ UNCHANGED <<saved, linkVars>>

\* bound: a new stream will want a request for a link
RequestLeft == \E r \in Own : request[r] = NoRequest

\* mutant: the cards of the stream before stay in bookElements
RefreshKeepingElements ==
  /\ status # "away" /\ RequestLeft
  /\ saved' = None
  /\ NewStream
  /\ elements' = [b \in Books |-> 0] /\ allBooks' = <<>> /\ UNCHANGED byId
  /\ es' = "open" /\ status' = "loading" /\ checked' = FALSE
  /\ link' = None
  /\ UNCHANGED linkVars
Refresh ==
  /\ status # "away" /\ RequestLeft
  /\ saved' = None
  /\ StartStream
  /\ UNCHANGED linkVars

\* The page is left, and nobody waits for its links any more.
Leave ==
  /\ status # "away"
  /\ NewStream /\ ClearGrid
  /\ es' = "none" /\ status' = "away" /\ checked' = FALSE
  /\ link' = None
  /\ request' = [r \in Requests |-> IF r \in Own THEN NoRequest ELSE request[r]]
  /\ UNCHANGED <<saved, shortlinks, given>>

\* After an hour, as the oldest of sixteen searches, or because the storage was full.
SavedExpires ==
  /\ saved # None
  /\ saved' = None
  /\ UNCHANGED <<serverVars, wire, es, status, checked, gridVars, link, linkVars>>

-----------------------------------------------------------------------------
(* What the page does with an event *)

Dispatch(type) ==
  /\ es = "open" /\ wire # <<>>
  /\ Head(wire).type = type
  /\ wire' = Tail(wire)

\* createShortlink
Asks ==
  \E r \in Own :
    /\ request[r] = NoRequest
    /\ request' = [request EXCEPT ![r].at = "lookup", ![r].for = Mine]

OnStubs ==
  /\ Dispatch("book_stubs")
  /\ LET stubs == Head(wire).books
     IN /\ elements' = [b \in Books |-> elements[b] + IF b \in stubs THEN 1 ELSE 0]
        /\ byId' = [b \in Books |-> IF b \in stubs \ Anonymous THEN "stub" ELSE byId[b]]
  /\ UNCHANGED <<serverVars, es, status, checked, allBooks, saved, link, linkVars>>

\* The stub of a book without an id is not found: its card comes on top of it.
OnBook ==
  /\ Dispatch("book")
  /\ \E b \in Head(wire).books :
       /\ allBooks' = Append(allBooks, b)
       /\ elements' = [elements EXCEPT ![b] = IF byId[b] = "none" THEN @ + 1 ELSE @]
       /\ byId' = [byId EXCEPT ![b] = IF b \in Anonymous THEN "none" ELSE "card"]
  /\ UNCHANGED <<serverVars, es, status, checked, saved, link, linkVars>>

OnAvailabilityDone ==
  /\ Dispatch("availability_done")
  /\ checked' = TRUE
  /\ Asks
  /\ UNCHANGED <<serverVars, es, status, gridVars, saved, link, shortlinks, given>>

OnUpdate ==
  /\ Dispatch("book_update")
  /\ \E b \in Head(wire).books :
       byId' = IF b \notin Anonymous /\ b \in ToSet(allBooks)
                 THEN [byId EXCEPT ![b] = "filled"]
                 ELSE byId
  /\ UNCHANGED <<serverVars, es, status, checked, elements, allBooks, saved, link, linkVars>>

\* saveResultsToCache; of is the list the server was sending.
Saves == saved' = [books |-> ToSet(allBooks), of |-> listed]

\* mutant: the EventSource stays open, and connects again when the server is done
OnDoneStayingOpen ==
  /\ Dispatch("done")
  /\ status' = "done"
  /\ Saves
  /\ IF checked THEN UNCHANGED request ELSE Asks
  /\ UNCHANGED <<serverVars, es, checked, gridVars, link, shortlinks, given>>
OnDone ==
  /\ Dispatch("done")
  /\ es' = "closed" /\ status' = "done"
  /\ Saves
  /\ IF checked THEN UNCHANGED request ELSE Asks
  /\ UNCHANGED <<serverVars, checked, gridVars, link, shortlinks, given>>

OnError ==
  /\ Dispatch("error")
  /\ es' = "closed" /\ status' = "error"
  /\ UNCHANGED <<serverVars, checked, gridVars, saved, link, linkVars>>

\* The first listener of "error" closes the EventSource, so onerror finds it closed and
\* returns: the page neither reports the loss nor finishes what was checked.
\* mutant: onerror finishes quietly whatever is there
OnLostFinishing ==
  /\ Dispatch("lost")
  /\ es' = "closed" /\ status' = "done"
  /\ Saves
  /\ UNCHANGED <<serverVars, checked, gridVars, link, linkVars>>
OnLost ==
  /\ Dispatch("lost")
  /\ es' = "closed"
  /\ UNCHANGED <<serverVars, status, checked, gridVars, saved, link, linkVars>>

PageEvent ==
  \/ OnStubs \/ OnBook \/ OnAvailabilityDone \/ OnUpdate
  \/ OnDone \/ OnError \/ OnLost

-----------------------------------------------------------------------------
(* Links *)

pageVars == <<serverVars, wire, es, status, checked, gridVars, saved>>

OtherAsks(r) ==
  /\ r \in Others /\ request[r] = NoRequest
  /\ \E search \in Searches :
       request' = [request EXCEPT ![r].at = "lookup", ![r].for = search]
  /\ UNCHANGED <<pageVars, link, shortlinks, given>>

TokensOf(search) == {t \in Tokens : shortlinks[t] = search}

\* An error of the query counts as not found.
Lookup(r) ==
  /\ request[r].at = "lookup"
  /\ \/ \E t \in TokensOf(request[r].for) :
          request' = [request EXCEPT ![r].at = "answer", ![r].token = t]
     \/ request' = [request EXCEPT ![r].at = "insert"]
  /\ UNCHANGED <<pageVars, link, shortlinks, given>>

\* mutant: INSERT OR REPLACE, as the cache tables have it
InsertReplacing(r) ==
  /\ request[r].at = "insert"
  /\ \E t \in Tokens :
       /\ shortlinks' = [shortlinks EXCEPT ![t] = request[r].for]
       /\ request' = [request EXCEPT ![r].at = "answer", ![r].token = t]
  /\ UNCHANGED <<pageVars, link, given>>
\* The token is drawn at random, and the column is UNIQUE.
Insert(r) ==
  /\ request[r].at = "insert"
  /\ \E t \in Tokens :
       /\ shortlinks[t] = None
       /\ shortlinks' = [shortlinks EXCEPT ![t] = request[r].for]
       /\ request' = [request EXCEPT ![r].at = "answer", ![r].token = t]
  /\ UNCHANGED <<pageVars, link, given>>

\* A token already taken, or a database error: the page goes without a link.
InsertFails(r) ==
  /\ request[r].at = "insert"
  /\ request' = [request EXCEPT ![r] = NoRequest]
  /\ UNCHANGED <<pageVars, link, shortlinks, given>>

Answer(r) ==
  /\ request[r].at = "answer"
  /\ given' = given \union {<<request[r].token, request[r].for>>}
  /\ link' = IF r \in Own THEN request[r].token ELSE link
  /\ request' = [request EXCEPT ![r] = NoRequest]
  /\ UNCHANGED <<pageVars, shortlinks>>

AnswerLost(r) ==
  /\ request[r].at = "answer"
  /\ request' = [request EXCEPT ![r] = NoRequest]
  /\ UNCHANGED <<pageVars, link, shortlinks, given>>

Create(r) ==
  Lookup(r) \/ Insert(r) \/ InsertFails(r) \/ Answer(r) \/ AnswerLost(r)

\* Redirect: what a link opens
Redirect(token) == shortlinks[token]

-----------------------------------------------------------------------------
Next ==
  \/ ServerSends \/ Break \/ PageEvent
  \/ Visit \/ Refresh \/ Leave \/ SavedExpires
  \/ \E r \in Requests : OtherAsks(r) \/ Create(r)

Spec == Init /\ [][Next]_vars

\* The server goes on (SearchStream's liveness) or its connection breaks; the browser
\* dispatches what arrived.
FairSpec ==
  Spec /\ WF_vars(ServerSends) /\ WF_vars(PageEvent)
       /\ \A r \in Requests : WF_vars(Create(r))

-----------------------------------------------------------------------------
(* Properties *)

\* A book with an id has one place in the grid, which bookElements leads to, and one entry
\* in allBooks from the moment its card is there; so "book" and "book_update" replace and
\* never pile up, over refreshes and visits too (results.js:621-622, 706-712, 741-747).
OneCardEach ==
  /\ IsInjective(allBooks)
  /\ \A b \in Books \ Anonymous :
       /\ elements[b] = IF byId[b] = "none" THEN 0 ELSE 1
       /\ (b \in ToSet(allBooks)) <=> (byId[b] \in {"card", "filled"})

\* The results kept for an hour are those of a whole list: no stream that was left, refreshed
\* or cut in the middle is taken for one (results.js:755, 784).
SavedIsWhole == saved # None => saved.books = saved.of

\* Every link that was ever given out opens the search it was given for, also when two
\* readers ask at once, draw the same token or never see the answer (shorten.go:46-72).
LinksLast ==
  /\ \A pair \in given : Redirect(pair[1]) = pair[2]
  /\ link # None => Redirect(link) = Mine

\* An EventSource stays open for ever only under a reader who presses Refresh for ever: the
\* stream ends, is lost or is left, and the page closes it; left open, it would connect again
\* and run the search once more (results.js:754, 774).
PageSettles == <>[](es = "open") => []<><<Refresh>>_vars

=============================================================================
