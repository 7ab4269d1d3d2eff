---------------------------- MODULE BrowsePages ----------------------------
(***************************************************************************)
(* The Browse and ReleaseBrowseContinuation requests of the web example    *)
(* (handlers.ts, dto.ts) over the registry of sessions.  A page that is    *)
(* not the last comes with a continuation point, which the registry keeps  *)
(* in the entry of the tab under a token, until a request takes it.  The   *)
(* registry is asked several times in one request, with the server's       *)
(* answers between, while other requests, reconnects and cleanups go on.   *)
(*                                                                         *)
(* A continuation point, and its token, is named by the request whose page *)
(* it came with.  A request of a tab without a session, or with a token    *)
(* that is not there, fails at once and is left out.                       *)
(***************************************************************************)
EXTENDS SessionRegistry

CONSTANTS
  Requests,   \* browse requests and releases, one call each
  Nodes

ASSUME PagesAssumption == Nodes # {}

VARIABLE request    \* per request, [pc, tab, session, node, hands]

pagesVars == <<vars, request>>

InRequest == {"releasing", "releasingOld", "browsing", "describing"}

PagesInit ==
  /\ Init
  /\ request = [r \in Requests |-> [pc |-> "idle", tab |-> NoClient, session |-> NoHandler,
                                    node |-> CHOOSE n \in Nodes : TRUE, hands |-> {}]]

\* The points that r has taken from the registry, or has got from the server.
hands(r) == request[r].hands
Over(r) == request' = [request EXCEPT ![r].pc = "over", ![r].hands = {}]

registryVars == <<tab, disconnects, entry, session, lock, kind, client, pc, found,
                  doomed, disturbed, releasing>>

\* Request r of tab c, which goes on with the points taken from its entry.
Starts(r, c, step, node, taken) ==
  /\ request[r].pc = "idle" /\ tab[c] = "here" /\ entry[c] # NoHandler
  /\ r = CHOOSE i \in Requests : request[i].pc = "idle"
  /\ taken \subseteq continuations[entry[c]]
  /\ request' = [request EXCEPT ![r] = [pc |-> step, tab |-> c, session |-> entry[c],
                                        node |-> node, hands |-> taken]]
  /\ UNCHANGED <<registryVars, live, abandoned>>

Taken(c, taken) == continuations' = [continuations EXCEPT ![entry[c]] = @ \ taken]

\* Browse without a token: the continuations of the node are released first.
Browse(r, c, n) ==
  LET old == {p \in continuations[entry[c]] : request[p].node = n}
  IN /\ Starts(r, c, IF old = {} THEN "browsing" ELSE "releasingOld", n, old)
     /\ Taken(c, old)

\* Defect: the token can be used again.
BrowseAgain(r, c, p) ==
  /\ Starts(r, c, "browsing", request[p].node, {p})
  /\ UNCHANGED continuations

\* Browse with a token.
BrowseContinuation(r, c, p) ==
  /\ Starts(r, c, "browsing", request[p].node, {p})
  /\ Taken(c, {p})

ReleaseBrowseContinuation(r, c, p) ==
  /\ Starts(r, c, "releasing", request[p].node, {p})
  /\ Taken(c, {p})

\* One release is answered; a failure is ignored.
ReleaseAnswered(r) ==
  /\ request[r].pc \in {"releasing", "releasingOld"}
  /\ \E p \in hands(r) :
       /\ \/ live' = live \ {p} /\ UNCHANGED abandoned
          \/ abandoned' = abandoned \union {p} /\ UNCHANGED live
       /\ request' = [request EXCEPT
            ![r].hands = @ \ {p},
            ![r].pc = IF hands(r) # {p} THEN @
                      ELSE IF @ = "releasingOld" THEN "browsing" ELSE "over"]
  /\ UNCHANGED <<registryVars, continuations>>

\* A page: the point that was continued is used up, and there may be a new one.
PageAnswered(r) ==
  /\ request[r].pc = "browsing" /\ session[request[r].session] = "open"
  /\ \A p \in hands(r) : request[p].session = request[r].session
  /\ \E new \in {{}, {r}} :
       /\ live' = (live \ hands(r)) \union new
       /\ request' = [request EXCEPT ![r].pc = "describing", ![r].hands = new]
  /\ UNCHANGED <<registryVars, continuations, abandoned>>

\* The request fails, is refused, or finds its session closed.
BrowseFails(r) ==
  /\ request[r].pc = "browsing"
  /\ abandoned' = abandoned \union hands(r)
  /\ Over(r)
  /\ UNCHANGED <<registryVars, continuations, live>>

\* The metadata of the page have been read, and its point goes into the entry that
\* the tab has now, which may be that of another session.
PageStored(r) ==
  /\ request[r].pc = "describing"
  /\ IF entry[request[r].tab] # NoHandler
     THEN /\ continuations' = [continuations EXCEPT ![entry[request[r].tab]] = @ \union hands(r)]
          /\ UNCHANGED abandoned
     ELSE abandoned' = abandoned \union hands(r) /\ UNCHANGED continuations
  /\ Over(r)
  /\ UNCHANGED <<registryVars, live>>

MetadataFails(r) ==
  /\ request[r].pc = "describing"
  /\ abandoned' = abandoned \union hands(r)
  /\ Over(r)
  /\ UNCHANGED <<registryVars, continuations, live>>

\* What has been sent to the server goes on there.
InterruptRequest(r) ==
  /\ request[r].pc \in InRequest
  /\ \/ TabsCancel /\ tab[request[r].tab] = "here"
     \/ tab[request[r].tab] = "forgotten"
  /\ \/ abandoned' = abandoned \union hands(r) /\ UNCHANGED live
     \/ /\ request[r].pc = "browsing"
        /\ live' = (live \ hands(r)) \union {r}
        /\ abandoned' = abandoned \union hands(r) \union {r}
  /\ Over(r)
  /\ UNCHANGED <<registryVars, continuations>>

-----------------------------------------------------------------------------
RequestStep(r) ==
  ReleaseAnswered(r) \/ PageAnswered(r) \/ BrowseFails(r) \/ PageStored(r) \/ MetadataFails(r)

PagesNext ==
  \/ Next /\ UNCHANGED request
  \/ \E r \in Requests :
       \/ RequestStep(r) \/ InterruptRequest(r)
       \/ \E c \in Clients :
            \/ \E n \in Nodes : Browse(r, c, n)
            \/ \E p \in Requests : BrowseContinuation(r, c, p) \/ ReleaseBrowseContinuation(r, c, p)

\* As in module SessionRegistry, and the requests run to their end.
PagesProgress ==
  \/ Progress /\ UNCHANGED request
  \/ \E r \in Requests : RequestStep(r)

PagesSpec == PagesInit /\ [][PagesNext]_pagesVars /\ WF_pagesVars(PagesProgress)

-----------------------------------------------------------------------------
(* Properties.                                                             *)

\* Who will use or release a continuation point: a registered entry, one that is
\* closing an entry, or a request.
Holders(p) ==
  {<<"entry", h>> : h \in {i \in Handlers : p \in continuations[i] /\ entry[client[i]] = i}}
  \union {<<"closing", a>> : a \in {b \in Actors : p \in releasing[b]}}
  \union {<<"request", r>> : r \in {q \in Requests : p \in hands(q)}}

\* A continuation point of an open session never has two holders, so that no page is
\* fetched twice and none is released under the feet of a request; and it has none
\* only if it was given up when a request or a handler was interrupted or failed, or
\* if its session got lost: reconnects and the order of the requests lose no point.
PointsHaveOneHolder ==
  \A p \in live :
    /\ Cardinality(Holders(p)) <= 1
    /\ session[request[p].session] = "open" /\ Holders(p) = {} =>
         p \in abandoned \/ request[p].session \in disturbed
=============================================================================
