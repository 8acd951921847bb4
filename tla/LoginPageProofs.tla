--------------------------- MODULE LoginPageProofs ---------------------------
(***************************************************************************)
(* Proofs about LoginPage and ClientMetadata, for all values of their      *)
(* constants: where a page leads, and where its code goes.                 *)
(***************************************************************************)
EXTENDS LoginPage, TLAPS

(***************************************************************************)
(* Client metadata.                                                        *)
(***************************************************************************)

\* What resolve returns: a document that parse_client_metadata has accepted.
LEMMA MetadataFacts ==
    ASSUME NEW m \in Metadata
    PROVE  /\ m.redirects \in SUBSET Uris
           /\ \A uri \in m.redirects : ~ uri.fragment
<1>1. PICK doc \in Document : Accepted(doc) /\ m = Parse(doc)
  BY DEF Metadata
<1>2. doc.redirects \in SUBSET Uris
  BY <1>1 DEF Document
<1>3. m.redirects = doc.redirects
  BY <1>1 DEF Parse
<1> QED BY <1>1, <1>2, <1>3 DEF Accepted

\* A URI that matches a registered loopback address differs from it in the
\* port, and in any userinfo that was registered.
LEMMA LoopbackDiffersInPort ==
    ASSUME NEW registered \in Uri, NEW requested \in Uri, ~ registered.fragment,
           LoopbackMatch(registered, requested)
    PROVE  /\ registered.scheme = "http" /\ registered.host \in Loopback
           /\ requested = [registered EXCEPT !.port = requested.port, !.user = FALSE]
<1>1. /\ registered.scheme = "http" /\ requested.scheme = "http"
      /\ registered.host \in Loopback /\ requested.host = registered.host
      /\ requested.path = registered.path
      /\ requested.fragment = FALSE /\ requested.user = FALSE /\ registered.fragment = FALSE
  BY DEF LoopbackMatch, Uri
<1> DEFINE moved == [registered EXCEPT !.port = requested.port, !.user = FALSE]
<1>2. moved \in Uri
  BY DEF Uri
<1>3. /\ moved.scheme = requested.scheme /\ moved.host = requested.host /\ moved.port = requested.port
      /\ moved.path = requested.path /\ moved.user = requested.user /\ moved.fragment = requested.fragment
  BY <1>1 DEF Uri
<1> HIDE DEF moved
<1>4. moved = requested
  BY <1>2, <1>3 DEF Uri
<1> QED BY <1>1, <1>4 DEF moved

\* A request that GET /authorize parks goes where the client registered.
LEMMA AllowedGoesWhereRegistered ==
    ASSUME NEW m \in Metadata, NEW uri \in Uris, RedirectAllowed(m, uri)
    PROVE  GoesWhereRegistered([redirect |-> uri, registered |-> m.redirects, url |-> TRUE])
<1> DEFINE request == [redirect |-> uri, registered |-> m.redirects, url |-> TRUE]
<1>1. request.redirect = uri /\ request.registered = m.redirects
  OBVIOUS
<1> HIDE DEF request
<1>2. CASE uri \in m.redirects
  BY <1>1, <1>2 DEF GoesWhereRegistered
<1>3. ASSUME NEW registered \in m.redirects, LoopbackMatch(registered, uri)
      PROVE  GoesWhereRegistered(request)
  <2>1. registered \in Uri /\ uri \in Uri /\ ~ registered.fragment
    BY <1>3, MetadataFacts, MetadataAssumption
  <2> QED BY <1>1, <1>3, <2>1, LoopbackDiffersInPort DEF GoesWhereRegistered
<1> QED BY <1>2, <1>3 DEF RedirectAllowed, request

(***************************************************************************)
(* Pages and tabs.                                                         *)
(***************************************************************************)

LEMMA OriginOfUri == ASSUME NEW uri \in Uris PROVE RedirectOrigin(uri) \in SUBSET Origins
BY DEF RedirectOrigin, Origins

LEMMA FormPageFacts ==
    ASSUME NEW r \in Requests, NEW uri \in Uris
    PROVE  /\ FormPage(r, uri) \in Pages /\ FormPage(r, uri) # None
           /\ FormPage(r, uri).request = r /\ r # None
           /\ FormPage(r, uri).formAction = RedirectOrigin(uri)
<1>1. FormPage(r, uri) \in Pages
  BY OriginOfUri DEF FormPage, Pages
<1> QED BY <1>1, PageAssumption, LoginPageAssumption DEF FormPage

LEMMA MessagePageFacts ==
    /\ MessagePage \in Pages /\ MessagePage # None
    /\ MessagePage.request = None /\ MessagePage.formAction = {}
<1>1. MessagePage \in Pages
  BY DEF MessagePage, Pages
<1> QED BY <1>1, PageAssumption DEF MessagePage

\* What a tab shows fits what its request was made for.
Belongs(tab) ==
    /\ tab \in Tab
    /\ tab.where = "client" <=> tab.page = None
    /\ tab.where \in {"waiting", "blocked"} => tab.record # None /\ tab.page.request # None
    /\ tab.page # None =>
           \/ tab.page = MessagePage
           \/ /\ tab.page.request # None /\ asked[tab.page.request] # None
              /\ tab.page = FormPage(tab.page.request, asked[tab.page.request].redirect)
    /\ tab.where \in {"waiting", "blocked"} => tab.record = asked[tab.page.request]
    /\ tab.where = "blocked" => ~ Plain(tab.record.redirect)
    /\ tab.where = "client" /\ tab.record # None =>
           /\ GoesWhereRegistered(tab.record)
           /\ \E r \in Requests : asked[r] = tab.record /\ pending[r] = None

\* The stores of the inductive invariant, and its tabs one by one.
StoresSound ==
    /\ pending \in [Requests -> Request \cup {None}]
    /\ asked \in [Requests -> Request \cup {None}]
    /\ \A r \in Requests :
           /\ asked[r] # None => GoesWhereRegistered(asked[r])
           /\ pending[r] # None => pending[r] = asked[r]

LEMMA InvariantParts ==
    PageIInv <=> StoresSound /\ tabs \in [Tabs -> Tab] /\ \A t \in Tabs : Belongs(tabs[t])
BY DEF PageIInv, PageTypeOK, StoresSound, Belongs, PlainLoginsArrive, CodesGoWhereRegistered

LEMMA InvariantWhole ==
    ASSUME StoresSound', (tabs \in [Tabs -> Tab])', \A t \in Tabs : Belongs(tabs[t])'
    PROVE  PageIInv'
BY DEF PageIInv, PageTypeOK, StoresSound, Belongs, PlainLoginsArrive, CodesGoWhereRegistered

\* A step that keeps the stores, and moves one tab to one that belongs, keeps
\* the invariant.
LEMMA OneTabMoves ==
    ASSUME PageIInv, NEW t \in Tabs, NEW tab, Belongs(tab), tabs' = [tabs EXCEPT ![t] = tab],
           UNCHANGED <<pending, asked>>
    PROVE  PageIInv'
<1>1. StoresSound'
  BY InvariantParts DEF StoresSound, GoesWhereRegistered
<1>2. tab \in Tab
  BY DEF Belongs
<1>3. tabs' \in [Tabs -> Tab]
  BY <1>2, InvariantParts
<1>4. ASSUME NEW u \in Tabs PROVE Belongs(tabs[u])'
  <2>1. Belongs(tabs'[u])
    BY InvariantParts
  <2> QED BY <2>1 DEF Belongs
<1> QED BY <1>1, <1>3, <1>4, InvariantWhole

\* A tab that shows a page, or is back at the client.
LEMMA ShownBelongs ==
    ASSUME PageIInv, NEW page,
           \/ page = MessagePage
           \/ \E r \in Requests : asked[r] # None /\ page = FormPage(r, asked[r].redirect)
    PROVE  Belongs([where |-> "page", page |-> page, record |-> None])
<1> PICK tab : tab = [where |-> "page", page |-> page, record |-> None]
  OBVIOUS
<1>1. ASSUME NEW r \in Requests, asked[r] # None, page = FormPage(r, asked[r].redirect)
      PROVE  Belongs(tab)
  <2>1. asked[r] \in Request
    BY <1>1, InvariantParts DEF StoresSound
  <2>2. asked[r].redirect \in Uris
    BY <2>1 DEF Request
  <2>3. page \in Pages /\ page # None /\ page.request = r /\ r # None
    BY <1>1, <2>2, FormPageFacts
  <2>4. tab \in Tab /\ tab.where = "page" /\ tab.page = page /\ tab.record = None
    BY <2>3 DEF Tab
  <2> QED BY <1>1, <2>3, <2>4 DEF Belongs
<1>2. ASSUME page = MessagePage PROVE Belongs(tab)
  <2>1. page \in Pages /\ page # None
    BY <1>2, MessagePageFacts
  <2>2. tab \in Tab /\ tab.where = "page" /\ tab.page = MessagePage /\ tab.page # None
    BY <1>2, <2>1 DEF Tab
  <2> QED BY <2>2 DEF Belongs
<1>3. Belongs(tab)
  BY <1>1, <1>2
<1> QED BY <1>3

LEMMA AwayBelongs == Belongs(Away)
<1>1. Away \in Tab /\ Away.where = "client" /\ Away.page = None /\ Away.record = None
  BY DEF Away, Tab
<1> QED BY <1>1 DEF Belongs

(***************************************************************************)
(* Steps that keep the invariant.                                          *)
(***************************************************************************)

LEMMA InitInvariant == PageInit => PageIInv
<1> SUFFICES ASSUME PageInit PROVE PageIInv
  OBVIOUS
<1>1. StoresSound
  BY DEF PageInit, StoresSound
<1>2. tabs \in [Tabs -> Tab] /\ \A t \in Tabs : tabs[t] = Away
  BY DEF PageInit, Away, Tab
<1> QED BY <1>1, <1>2, AwayBelongs, InvariantParts

\* A request that is made anew fits no tab of before.
LEMMA OpenStep ==
    ASSUME PageIInv, NEW t \in Tabs, NEW r \in Requests, NEW uri \in Uris,
           NEW registered \in SUBSET Uris, NEW url \in BOOLEAN,
           Open(t, r, uri, registered, url),
           GoesWhereRegistered([redirect |-> uri, registered |-> registered, url |-> url])
    PROVE  PageIInv'
<1> PICK request : request = [redirect |-> uri, registered |-> registered, url |-> url]
  OBVIOUS
<1>1. request \in Request /\ request.redirect = uri /\ request # None /\ GoesWhereRegistered(request)
  BY PageAssumption DEF Request
<1>2. /\ asked[r] = None /\ asked' = [asked EXCEPT ![r] = request]
      /\ pending' = [pending EXCEPT ![r] = asked'[r]]
      /\ tabs' = [tabs EXCEPT ![t] = [where |-> "page", page |-> FormPage(r, uri), record |-> None]]
  BY DEF Open, Shows
<1>3. pending \in [Requests -> Request \cup {None}] /\ asked \in [Requests -> Request \cup {None}]
  BY InvariantParts DEF StoresSound
<1>4. asked'[r] = request /\ pending'[r] = request
  BY <1>2, <1>3
<1>5. \A s \in Requests \ {r} : asked'[s] = asked[s] /\ pending'[s] = pending[s]
  BY <1>2, <1>3
<1>6. StoresSound'
  <2>1. /\ pending' \in [Requests -> Request \cup {None}]
        /\ asked' \in [Requests -> Request \cup {None}]
    BY <1>1, <1>2, <1>3, <1>4
  <2>2. ASSUME NEW s \in Requests
        PROVE  /\ asked'[s] # None => GoesWhereRegistered(asked'[s])
               /\ pending'[s] # None => pending'[s] = asked'[s]
    <3>1. CASE s = r
      BY <1>1, <1>4, <3>1
    <3>2. CASE s # r
      BY <1>5, <3>2, InvariantParts DEF StoresSound
    <3> QED BY <3>1, <3>2
  <2> QED BY <2>1, <2>2 DEF StoresSound, GoesWhereRegistered
<1>7. \A s \in Requests : asked[s] # None => asked'[s] = asked[s] /\ s # r
  BY <1>2, <1>5
<1>8. FormPage(r, uri) \in Pages /\ FormPage(r, uri) # None /\ FormPage(r, uri).request = r /\ r # None
  BY FormPageFacts
<1> PICK tab : tab = [where |-> "page", page |-> FormPage(r, uri), record |-> None]
  OBVIOUS
<1>9. tab \in Tab /\ tab.where = "page" /\ tab.page = FormPage(r, uri) /\ tab.record = None
  BY <1>8 DEF Tab
<1>10. tabs' \in [Tabs -> Tab] /\ tabs'[t] = tab /\ \A u \in Tabs \ {t} : tabs'[u] = tabs[u]
  BY <1>2, <1>9, InvariantParts
<1>11. ASSUME NEW u \in Tabs PROVE Belongs(tabs[u])'
  <2>1. CASE u = t
    BY <1>1, <1>4, <1>8, <1>9, <1>10, <2>1 DEF Belongs
  <2>2. CASE u # t
    <3>1. Belongs(tabs[u]) /\ tabs'[u] = tabs[u]
      BY <1>10, <2>2, InvariantParts
    <3> PICK old : old = tabs[u]
      OBVIOUS
    <3>2. old.page = None \/ old.page = MessagePage
          \/ /\ old.page.request \in Requests /\ asked'[old.page.request] = asked[old.page.request]
             /\ asked[old.page.request] # None
      <4>1. old.page # None => old.page \in Pages
        BY <3>1 DEF Belongs, Tab
      <4> QED BY <3>1, <4>1, <1>7 DEF Belongs, Pages
    <3>3. old.where \in {"waiting", "blocked"} => old.record = asked'[old.page.request]
      BY <3>1, <3>2, MessagePageFacts DEF Belongs
    <3>4. old.where = "client" /\ old.record # None =>
              /\ GoesWhereRegistered(old.record)
              /\ \E s \in Requests : asked'[s] = old.record /\ pending'[s] = None
      BY <3>1, <1>5, <1>7 DEF Belongs
    <3>5. old.page # None =>
              \/ old.page = MessagePage
              \/ /\ old.page.request # None /\ asked'[old.page.request] # None
                 /\ old.page = FormPage(old.page.request, asked'[old.page.request].redirect)
      BY <3>1, <3>2 DEF Belongs
    <3>6. Belongs(old)
      BY <3>1
    <3>7. tabs'[u] = old
      BY <3>1
    <3> QED BY <3>3, <3>4, <3>5, <3>6, <3>7 DEF Belongs, GoesWhereRegistered
  <2> QED BY <2>1, <2>2
<1> QED BY <1>6, <1>10, <1>11, InvariantWhole

\* A request that leaves the store stays what it was asked for.
LEMMA StoreEmpties ==
    ASSUME PageIInv, NEW r \in Requests, pending' = [pending EXCEPT ![r] = None], asked' = asked
    PROVE  /\ StoresSound'
           /\ pending'[r] = None
           /\ \A s \in Requests : pending[s] = None => pending'[s] = None
<1>1. pending \in [Requests -> Request \cup {None}] /\ asked \in [Requests -> Request \cup {None}]
  BY InvariantParts DEF StoresSound
<1>2. /\ pending' \in [Requests -> Request \cup {None}] /\ asked' \in [Requests -> Request \cup {None}]
      /\ pending'[r] = None
      /\ \A s \in Requests : s # r => pending'[s] = pending[s]
  BY <1>1
<1>3. ASSUME NEW s \in Requests
      PROVE  /\ asked'[s] # None => GoesWhereRegistered(asked'[s])
             /\ pending'[s] # None => pending'[s] = asked'[s]
  BY <1>2, InvariantParts DEF StoresSound
<1>4. StoresSound'
  BY <1>2, <1>3 DEF StoresSound, GoesWhereRegistered
<1> QED BY <1>2, <1>4

\* The tabs that do not move belong to their requests still.
LEMMA OthersBelong ==
    ASSUME PageIInv, asked' = asked, NEW u \in Tabs, tabs'[u] = tabs[u],
           \A s \in Requests : pending[s] = None => pending'[s] = None
    PROVE  Belongs(tabs[u])'
<1>1. Belongs(tabs[u])
  BY InvariantParts
<1> QED BY <1>1 DEF Belongs, GoesWhereRegistered

LEMMA ExpireStep ==
    ASSUME PageIInv, NEW r \in Requests, Expire(r)
    PROVE  PageIInv'
<1>1. pending' = [pending EXCEPT ![r] = None] /\ asked' = asked /\ tabs' = tabs
  BY DEF Expire
<1>2. StoresSound' /\ \A s \in Requests : pending[s] = None => pending'[s] = None
  BY <1>1, StoreEmpties
<1>3. tabs' \in [Tabs -> Tab]
  BY <1>1, InvariantParts
<1>4. \A u \in Tabs : Belongs(tabs[u])'
  BY <1>1, <1>2, OthersBelong
<1> QED BY <1>2, <1>3, <1>4, InvariantWhole

\* What a tab with a form, or one that waits, has to do with the stores.
LEMMA TabFacts ==
    ASSUME PageIInv, NEW t \in Tabs, tabs[t].where # "client", tabs[t].page.request # None
    PROVE  LET r == tabs[t].page.request
           IN  /\ r \in Requests /\ asked[r] \in Request /\ asked[r].redirect \in Uris
               /\ GoesWhereRegistered(asked[r])
               /\ tabs[t].page = FormPage(r, asked[r].redirect)
               /\ pending[r] # None => pending[r] = asked[r]
               /\ tabs[t].where = "waiting" => tabs[t].record = asked[r]
<1> PICK tab : tab = tabs[t]
  OBVIOUS
<1>1. Belongs(tab)
  BY InvariantParts
<1>2. tab.page \in Pages
  BY <1>1 DEF Belongs, Tab
<1> PICK r : r = tab.page.request
  OBVIOUS
<1>3. r \in Requests
  BY <1>2 DEF Pages
<1>4. asked[r] # None /\ tab.page = FormPage(r, asked[r].redirect)
  BY <1>1, MessagePageFacts DEF Belongs
<1>5. asked[r] \in Request /\ GoesWhereRegistered(asked[r]) /\ (pending[r] # None => pending[r] = asked[r])
  BY <1>3, <1>4, InvariantParts DEF StoresSound
<1>6. asked[r].redirect \in Uris
  BY <1>5 DEF Request
<1> QED BY <1>1, <1>3, <1>4, <1>5, <1>6 DEF Belongs

\* 401, 429: the form of the same request again.
LEMMA FormAgain ==
    ASSUME PageIInv, NEW t \in Tabs, tabs[t].where # "client", tabs[t].page.request # None,
           NEW record, record = asked[tabs[t].page.request],
           Shows(t, FormPage(tabs[t].page.request, record.redirect)),
           UNCHANGED <<pending, asked>>
    PROVE  PageIInv'
<1>1. tabs[t].page.request \in Requests /\ asked[tabs[t].page.request] # None
  BY TabFacts, PageAssumption
<1>2. Belongs([where |-> "page", page |-> FormPage(tabs[t].page.request, record.redirect), record |-> None])
  BY <1>1, ShownBelongs
<1> QED BY <1>2, OneTabMoves DEF Shows

LEMMA LimitedStep == ASSUME PageIInv, NEW t \in Tabs, Limited(t) PROVE PageIInv'
<1>1. tabs[t].where # "client" /\ tabs[t].page.request # None
  BY DEF Limited, Submits
<1>2. RecordOf(t) = asked[tabs[t].page.request]
  BY <1>1, TabFacts DEF Limited, RecordOf
<1> QED BY <1>1, <1>2, FormAgain DEF Limited

LEMMA WrongStep == ASSUME PageIInv, NEW t \in Tabs, Wrong(t) PROVE PageIInv'
<1>1. tabs[t].where = "waiting"
  BY DEF Wrong
<1>2. tabs[t].page.request # None
  BY <1>1, InvariantParts DEF Belongs
<1>3. tabs[t].record = asked[tabs[t].page.request]
  BY <1>1, <1>2, TabFacts
<1> QED BY <1>1, <1>2, <1>3, FormAgain DEF Wrong

LEMMA MessageStep ==
    ASSUME PageIInv, NEW t \in Tabs, Late(t) \/ Lost(t)
    PROVE  PageIInv'
<1>1. Belongs([where |-> "page", page |-> MessagePage, record |-> None])
  BY ShownBelongs
<1> QED BY <1>1, OneTabMoves DEF Late, Lost, Shows

LEMMA ReadStep == ASSUME PageIInv, NEW t \in Tabs, Read(t) PROVE PageIInv'
<1> PICK tab : tab = [tabs[t] EXCEPT !.where = "waiting", !.record = RecordOf(t)]
  OBVIOUS
<1>1. tabs[t] \in Tab /\ Belongs(tabs[t])
  BY InvariantParts
<1>2. tabs[t].where # "client" /\ tabs[t].page.request # None /\ tabs[t].page # None
  BY <1>1 DEF Read, Submits, Belongs
<1>3. RecordOf(t) # None /\ RecordOf(t) = asked[tabs[t].page.request] /\ RecordOf(t) \in Request
  BY <1>2, TabFacts DEF Read, RecordOf
<1>4. /\ tab \in Tab /\ tab.where = "waiting" /\ tab.page = tabs[t].page /\ tab.record = RecordOf(t)
  BY <1>1, <1>3 DEF Tab
<1>5. Belongs(tab)
  BY <1>1, <1>2, <1>3, <1>4 DEF Belongs
<1>6. tabs' = [tabs EXCEPT ![t] = tab]
  BY <1>1 DEF Read
<1> QED BY <1>5, <1>6, OneTabMoves DEF Read

\* The origin of a plain URI is on its page.
LEMMA PlainPasses ==
    ASSUME NEW uri \in Uris, Plain(uri)
    PROVE  Origin(uri) \in RedirectOrigin(uri)
<1>1. uri.scheme \in {"http", "https"}
  BY MetadataAssumption DEF Plain, Uri
<1> QED BY <1>1 DEF Plain, RedirectOrigin

LEMMA RightStep == ASSUME PageIInv, NEW t \in Tabs, Right(t) PROVE PageIInv'
<1> PICK r : r = tabs[t].page.request
  OBVIOUS
<1> PICK consumed : consumed = RecordOf(t)
  OBVIOUS
<1>1. tabs[t] \in Tab /\ Belongs(tabs[t]) /\ tabs[t].where = "waiting"
  BY InvariantParts DEF Right
<1>2. r # None /\ tabs[t].page # None
  BY <1>1 DEF Belongs
<1>3. /\ r \in Requests /\ consumed # None /\ consumed = asked[r] /\ consumed \in Request
      /\ consumed.redirect \in Uris /\ GoesWhereRegistered(consumed)
      /\ tabs[t].page = FormPage(r, consumed.redirect)
  BY <1>1, <1>2, TabFacts DEF Right, RecordOf
<1>4. pending' = [pending EXCEPT ![r] = None] /\ asked' = asked
  BY DEF Right
<1>5. StoresSound' /\ pending'[r] = None /\ \A s \in Requests : pending[s] = None => pending'[s] = None
  BY <1>3, <1>4, StoreEmpties
<1> PICK tab : tab = IF Origin(consumed.redirect) \in tabs[t].page.formAction
                     THEN [Away EXCEPT !.record = consumed]
                     ELSE [tabs[t] EXCEPT !.where = "blocked", !.record = consumed]
  OBVIOUS
<1>6. tabs' = [tabs EXCEPT ![t] = tab]
  BY DEF Right
<1>7. \/ /\ tab \in Tab /\ tab.where = "client" /\ tab.page = None /\ tab.record = consumed
      \/ /\ tab \in Tab /\ tab.where = "blocked" /\ tab.page = tabs[t].page /\ tab.record = consumed
         /\ ~ Plain(consumed.redirect)
  <2>1. CASE Origin(consumed.redirect) \in tabs[t].page.formAction
    BY <1>3, <2>1 DEF Away, Tab
  <2>2. CASE Origin(consumed.redirect) \notin tabs[t].page.formAction
    <3>1. tabs[t].page.formAction = RedirectOrigin(consumed.redirect)
      BY <1>3 DEF FormPage
    <3>2. ~ Plain(consumed.redirect)
      BY <1>3, <2>2, <3>1, PlainPasses
    <3>3. tab \in Tab /\ tab.where = "blocked" /\ tab.page = tabs[t].page /\ tab.record = consumed
      BY <1>1, <1>3, <2>2 DEF Tab
    <3> QED BY <3>2, <3>3
  <2> QED BY <2>1, <2>2
<1>8. tabs' \in [Tabs -> Tab] /\ tabs'[t] = tab /\ \A u \in Tabs \ {t} : tabs'[u] = tabs[u]
  BY <1>6, <1>7, InvariantParts
<1>9. ASSUME NEW u \in Tabs PROVE Belongs(tabs[u])'
  <2>1. CASE u = t
    <3>1. CASE tab.where = "client"
      <4>1. tab \in Tab /\ tab.page = None /\ tab.record = consumed
        BY <1>7, <3>1
      <4>2. asked'[r] = consumed
        BY <1>3, <1>4
      <4>3. GoesWhereRegistered(tab.record) /\ \E s \in Requests : asked'[s] = tab.record /\ pending'[s] = None
        BY <1>3, <1>5, <4>1, <4>2
      <4>4. tabs'[u] = tab
        BY <1>8, <2>1
      <4> QED BY <3>1, <4>1, <4>3, <4>4 DEF Belongs, GoesWhereRegistered
    <3>2. CASE tab.where = "blocked"
      <4>1. /\ tab \in Tab /\ tab.page = FormPage(r, consumed.redirect) /\ tab.record = consumed
            /\ ~ Plain(consumed.redirect)
        BY <1>3, <1>7, <3>2
      <4>2. tab.page # None /\ tab.page.request = r
        BY <1>2, <1>3, <4>1
      <4>3. asked'[r] = consumed
        BY <1>3, <1>4
      <4> QED BY <1>2, <1>3, <1>8, <2>1, <3>2, <4>1, <4>2, <4>3 DEF Belongs
    <3> QED BY <1>7, <3>1, <3>2
  <2>2. CASE u # t
    BY <1>4, <1>5, <1>8, <2>2, OthersBelong
  <2> QED BY <2>1, <2>2
<1> QED BY <1>5, <1>8, <1>9, InvariantWhole

LEMMA RedeemStep ==
    ASSUME PageIInv, NEW t \in Tabs, NEW m, NEW assertion, Redeem(t, m, assertion)
    PROVE  PageIInv'
<1> PICK tab : tab = [tabs[t] EXCEPT !.record = None]
  OBVIOUS
<1>1. tabs[t] \in Tab /\ Belongs(tabs[t]) /\ tabs[t].where = "client"
  BY InvariantParts DEF Redeem
<1>2. tab \in Tab /\ tab.where = "client" /\ tab.page = tabs[t].page /\ tab.record = None
  BY <1>1 DEF Tab
<1>3. Belongs(tab)
  BY <1>1, <1>2 DEF Belongs
<1>4. tabs' = [tabs EXCEPT ![t] = tab]
  BY DEF Redeem
<1> QED BY <1>3, <1>4, OneTabMoves DEF Redeem

LEMMA StartOverStep == ASSUME PageIInv, NEW t \in Tabs, StartOver(t) PROVE PageIInv'
BY AwayBelongs, OneTabMoves DEF StartOver

-----------------------------------------------------------------------------

\* Whatever people submit in whichever tab, and whenever a request goes, each
\* page belongs to its request, and what is parked to what was asked for.
THEOREM Invariance == PageSpec => []PageIInv
<1>1. ASSUME PageIInv, [PageNext]_pageVars PROVE PageIInv'
  <2>1. CASE UNCHANGED pageVars
    <3>1. pending' = pending /\ asked' = asked /\ tabs' = tabs
      BY <2>1 DEF pageVars
    <3>2. StoresSound'
      BY <1>1, <3>1, InvariantParts DEF StoresSound, GoesWhereRegistered
    <3>3. tabs' \in [Tabs -> Tab]
      BY <1>1, <3>1, InvariantParts
    <3>4. \A u \in Tabs : Belongs(tabs[u])'
      BY <1>1, <3>1, OthersBelong
    <3> QED BY <3>2, <3>3, <3>4, InvariantWhole
  <2>2. ASSUME NEW t \in Tabs, NEW r \in Requests, NEW uri \in Uris, OpenStatic(t, r, uri)
        PROVE  PageIInv'
    <3>1. GoesWhereRegistered([redirect |-> uri, registered |-> AllowedRedirects, url |-> FALSE])
      BY <2>2 DEF OpenStatic, GoesWhereRegistered
    <3> QED BY <1>1, <2>2, <3>1, OpenStep, LoginPageAssumption DEF OpenStatic
  <2>3. ASSUME NEW t \in Tabs, NEW r \in Requests, NEW uri \in Uris, NEW m \in Metadata,
               OpenUrlClient(t, r, m, uri)
        PROVE  PageIInv'
    <3>1. GoesWhereRegistered([redirect |-> uri, registered |-> m.redirects, url |-> TRUE])
      BY <2>3, AllowedGoesWhereRegistered DEF OpenUrlClient
    <3> QED BY <1>1, <2>3, <3>1, OpenStep, MetadataFacts DEF OpenUrlClient
  <2>4. ASSUME NEW t \in Tabs, Limited(t) \/ Late(t) \/ Read(t) PROVE PageIInv'
    BY <1>1, <2>4, LimitedStep, MessageStep, ReadStep
  <2>5. ASSUME NEW t \in Tabs, Wrong(t) \/ Lost(t) \/ Right(t) PROVE PageIInv'
    BY <1>1, <2>5, WrongStep, MessageStep, RightStep
  <2>6. ASSUME NEW t \in Tabs, StartOver(t) PROVE PageIInv'
    BY <1>1, <2>6, StartOverStep
  <2>7. ASSUME NEW r \in Requests, Expire(r) PROVE PageIInv'
    BY <1>1, <2>7, ExpireStep
  <2>8. ASSUME NEW t \in Tabs, NEW m \in Metadata, NEW assertion \in BOOLEAN, Redeem(t, m, assertion)
        PROVE  PageIInv'
    BY <1>1, <2>8, RedeemStep
  <2> QED BY <1>1, <2>1, <2>2, <2>3, <2>4, <2>5, <2>6, <2>7, <2>8 DEF PageNext
<1> QED BY <1>1, InitInvariant, PTL DEF PageSpec

\* A page lets its form lead to the client of the request that it submits only,
\* and on a plain origin (login_page.py).
THEOREM FormsLead == PageSpec => []FormsLeadToTheClient
<1>1. PageIInv => FormsLeadToTheClient
  <2> SUFFICES ASSUME PageIInv, NEW t \in Tabs, tabs[t].page # None,
                      NEW origin \in tabs[t].page.formAction
               PROVE  /\ tabs[t].page.request # None
                      /\ origin = Origin(asked[tabs[t].page.request].redirect)
                      /\ origin.host \in PlainHosts /\ origin.scheme # "custom"
    BY DEF FormsLeadToTheClient
  <2> PICK r : r = tabs[t].page.request
    OBVIOUS
  <2>1. tabs[t].where # "client" /\ r # None
    BY InvariantParts, MessagePageFacts DEF Belongs
  <2>2. r \in Requests /\ asked[r].redirect \in Uris /\ tabs[t].page = FormPage(r, asked[r].redirect)
    BY <2>1, TabFacts
  <2>3. origin \in RedirectOrigin(asked[r].redirect)
    BY <2>2, FormPageFacts
  <2> QED BY <2>1, <2>3 DEF RedirectOrigin, Origin
<1> QED BY <1>1, Invariance, PTL

\* The browser drops the redirect at the end of a login only if the client's
\* URI is not a plain one, after wrong and refused submissions too.
THEOREM PlainArrive == PageSpec => []PlainLoginsArrive
<1>1. PageIInv => PlainLoginsArrive
  BY DEF PageIInv
<1> QED BY <1>1, Invariance, PTL

\* A client holds a code only for a request that is no longer parked, at a URI
\* that it had registered when the request was made.
THEOREM CodesGo == PageSpec => []CodesGoWhereRegistered
<1>1. PageIInv => CodesGoWhereRegistered
  BY DEF PageIInv
<1> QED BY <1>1, Invariance, PTL

=============================================================================
