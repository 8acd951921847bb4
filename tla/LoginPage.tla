----------------------------- MODULE LoginPage -----------------------------
(***************************************************************************)
(* login_page.py with the handlers of http.py that answer with it, and the *)
(* browser that shows it: the password login, from the client that opens   *)
(* GET /authorize to the client that gets the code and redeems it.  People *)
(* log in to several clients in several tabs, and a request may be gone    *)
(* before its page is submitted or while the password is checked.          *)
(*                                                                         *)
(* A browser holds the redirect that follows a form's POST to the          *)
(* form-action of the page the form was on (login_page.py:73-75).  The     *)
(* document of a URL client may be another one each time it is resolved    *)
(* (MetadataCache says when).                                              *)
(***************************************************************************)
EXTENDS ClientMetadata

CONSTANTS
    AllowedRedirects,   \* settings.allowed_redirect_uris, of the static client
    PlainHosts,         \* hosts of letters, digits, dots and hyphens
    Requests,           \* request ids
    Tabs

ASSUME LoginPageAssumption ==
    /\ AllowedRedirects \subseteq Uris
    /\ PlainHosts \subseteq Hosts
    /\ None \notin Requests

VARIABLES
    pending,    \* the pending store
    asked,      \* history: what each request id was made for
    tabs        \* where each tab is, what it shows, and the record of its request

pageVars == <<pending, asked, tabs>>

\* A request as it is parked, and what its code stands for.
Request == [redirect : Uris, registered : SUBSET Uris, url : BOOLEAN]

Origin(uri) == [scheme |-> uri.scheme, host |-> uri.host, port |-> uri.port]
Origins == {Origin(uri) : uri \in Uris}

\* redirect_origin; {} for None.
RedirectOrigin(uri) ==
    IF /\ uri.scheme \in {"http", "https"}
       /\ uri.host \in PlainHosts /\ ~ uri.user /\ uri.port # BadPort
    THEN {Origin(uri)} ELSE {}

\* Faulty: one policy for all pages, from the allowlist.
FormPageAllowlist(id, uri) ==
    [request |-> id, formAction |-> UNION {RedirectOrigin(u) : u \in AllowedRedirects \cup {uri}}]

\* _login_response with the form of a request, or with a message only;
\* formAction is what login_page_headers allows besides 'self'.
FormPage(id, uri) == [request |-> id, formAction |-> RedirectOrigin(uri)]
MessagePage == [request |-> None, formAction |-> {}]
Pages == [request : Requests \cup {None}, formAction : SUBSET Origins]

\* "waiting": for the answer to the form.  "blocked": the browser has dropped
\* the redirect to the client.
Tab == [where : {"client", "page", "waiting", "blocked"},
        page : Pages \cup {None}, record : Request \cup {None}]
Away == [where |-> "client", page |-> None, record |-> None]

ASSUME PageAssumption == None \notin Pages \cup Request

\* Types; a tab at the server shows a page, and the handler of one that waits
\* or is blocked has read the record of the request.
PageTypeOK ==
    /\ pending \in [Requests -> Request \cup {None}]
    /\ asked \in [Requests -> Request \cup {None}]
    /\ tabs \in [Tabs -> Tab]
    /\ \A t \in Tabs :
           /\ tabs[t].where = "client" <=> tabs[t].page = None
           /\ tabs[t].where \in {"waiting", "blocked"} =>
                  tabs[t].record # None /\ tabs[t].page.request # None

PageInit ==
    /\ pending = [r \in Requests |-> None]
    /\ asked = [r \in Requests |-> None]
    /\ tabs = [t \in Tabs |-> Away]

-----------------------------------------------------------------------------

Shows(t, page) == tabs' = [tabs EXCEPT ![t] = [where |-> "page", page |-> page, record |-> None]]

\* GET /authorize parks the request, with a redirect URI that is registered,
\* and shows the form.
Open(t, r, uri, registered, url) ==
    /\ tabs[t].where = "client"
    /\ asked[r] = None
    /\ asked' = [asked EXCEPT ![r] = [redirect |-> uri, registered |-> registered, url |-> url]]
    /\ pending' = [pending EXCEPT ![r] = asked'[r]]
    /\ Shows(t, FormPage(r, uri))

OpenStatic(t, r, uri) == uri \in AllowedRedirects /\ Open(t, r, uri, AllowedRedirects, FALSE)

OpenUrlClient(t, r, m, uri) == RedirectAllowed(m, uri) /\ Open(t, r, uri, m.redirects, TRUE)

\* POST /authorize reads the record of the form's request.
Submits(t) == tabs[t].where \in {"page", "blocked"} /\ tabs[t].page.request # None
RecordOf(t) == pending[tabs[t].page.request]

\* 429: the form again, as the request is still there.
Limited(t) ==
    /\ Submits(t) /\ RecordOf(t) # None
    /\ Shows(t, FormPage(tabs[t].page.request, RecordOf(t).redirect))
    /\ UNCHANGED <<pending, asked>>

\* 429 or 400: the request is not known any more.
Late(t) ==
    /\ Submits(t) /\ RecordOf(t) = None
    /\ Shows(t, MessagePage)
    /\ UNCHANGED <<pending, asked>>

\* The password is checked in the threadpool, with the record in hand.
Read(t) ==
    /\ Submits(t) /\ RecordOf(t) # None
    /\ tabs' = [tabs EXCEPT ![t].where = "waiting", ![t].record = RecordOf(t)]
    /\ UNCHANGED <<pending, asked>>

\* Faulty: the page after an error does not know the redirect URI.
WrongForgetful(t) ==
    /\ tabs[t].where = "waiting"
    /\ Shows(t, [request |-> tabs[t].page.request, formAction |-> {}])
    /\ UNCHANGED <<pending, asked>>

\* 401: the form again, though the request may be gone by now.
Wrong(t) ==
    /\ tabs[t].where = "waiting"
    /\ Shows(t, FormPage(tabs[t].page.request, tabs[t].record.redirect))
    /\ UNCHANGED <<pending, asked>>

\* The password is right, but the request is gone.
Lost(t) ==
    /\ tabs[t].where = "waiting"
    /\ RecordOf(t) = None
    /\ Shows(t, MessagePage)
    /\ UNCHANGED <<pending, asked>>

\* The request is consumed, and the answer redirects to the client.  The tab
\* goes there with the code if the page it submitted lets it, or stops.
Right(t) ==
    /\ tabs[t].where = "waiting"
    /\ RecordOf(t) # None
    /\ tabs' = [tabs EXCEPT ![t] =
           IF Origin(RecordOf(t).redirect) \in tabs[t].page.formAction
           THEN [Away EXCEPT !.record = RecordOf(t)]
           ELSE [tabs[t] EXCEPT !.where = "blocked", !.record = RecordOf(t)]]
    /\ pending' = [pending EXCEPT ![tabs[t].page.request] = None]
    /\ UNCHANGED asked

\* The request's TTL lapses, or a submission completes it whose answer no tab
\* waits for any more.
Expire(r) ==
    /\ pending[r] # None
    /\ pending' = [pending EXCEPT ![r] = None]
    /\ UNCHANGED <<asked, tabs>>

\* POST /token: the client authenticates as its document says by then.
Redeem(t, m, assertion) ==
    /\ tabs[t].where = "client" /\ tabs[t].record # None
    /\ tabs[t].record.url => Authenticates(m, assertion)
    /\ tabs' = [tabs EXCEPT ![t].record = None]
    /\ UNCHANGED <<pending, asked>>

\* The person leaves the page for the client; the request stays parked.
StartOver(t) ==
    /\ tabs[t].where # "client"
    /\ tabs' = [tabs EXCEPT ![t] = Away]
    /\ UNCHANGED <<pending, asked>>

PageNext ==
    \/ \E t \in Tabs, r \in Requests, uri \in Uris :
           \/ OpenStatic(t, r, uri)
           \/ \E m \in Metadata : OpenUrlClient(t, r, m, uri)
    \/ \E t \in Tabs :
           \/ Limited(t) \/ Late(t) \/ Read(t)
           \/ Wrong(t) \/ Lost(t) \/ Right(t)
           \/ StartOver(t)
    \/ \E r \in Requests : Expire(r)
    \/ \E t \in Tabs, m \in Metadata, assertion \in BOOLEAN : Redeem(t, m, assertion)

PageSpec == PageInit /\ [][PageNext]_pageVars

-----------------------------------------------------------------------------

\* A page lets its form lead to the client of the request that it submits
\* only, on a plain origin, whichever requests other tabs have open and
\* whether or not the request is still parked.
FormsLeadToTheClient ==
    \A t \in Tabs : tabs[t].page # None =>
        \A origin \in tabs[t].page.formAction :
            /\ tabs[t].page.request # None
            /\ origin = Origin(asked[tabs[t].page.request].redirect)
            /\ origin.host \in PlainHosts /\ origin.scheme # "custom"

\* An http or https URI whose authority is a host name and perhaps a port.
Plain(uri) ==
    uri.scheme # "custom" /\ uri.host \in PlainHosts /\ ~ uri.user /\ uri.port # BadPort

\* After however many wrong or refused submissions, the browser drops the
\* redirect with the code only if the client's URI is not a plain one.
PlainLoginsArrive ==
    \A t \in Tabs : tabs[t].where = "blocked" => ~ Plain(tabs[t].record.redirect)

\* To the letter, or up to the port of a loopback address.
GoesWhereRegistered(request) ==
    \E registered \in request.registered :
        \/ request.redirect = registered
        \/ /\ registered.scheme = "http" /\ registered.host \in Loopback
           /\ request.redirect = [registered EXCEPT !.port = request.redirect.port, !.user = FALSE]

\* A client holds a code only for a request that was made and is no longer
\* parked, at a URI that it had registered when the request was made
\* (is_redirect_uri_allowed), whatever it has published since.
CodesGoWhereRegistered ==
    \A t \in Tabs : tabs[t].where = "client" /\ tabs[t].record # None =>
        /\ GoesWhereRegistered(tabs[t].record)
        /\ \E r \in Requests : asked[r] = tabs[t].record /\ pending[r] = None

\* "form-action must list the client's redirect origin besides 'self' [...]
\* 'self' alone would block the final 302" (login_page.py:73-75): no login
\* ends there.
LoginsArrive == \A t \in Tabs : tabs[t].where # "blocked"

\* "document_jwks_missing" (cimd.py:224-225): a client whose document is
\* accepted has some way to authenticate.
AcceptedClientsAuthenticate ==
    \A m \in Metadata : \E assertion \in BOOLEAN : Authenticates(m, assertion)

-----------------------------------------------------------------------------

\* The inductive invariant: a page belongs to its request, what a handler has
\* in hand and what is parked is what was asked for, and what was asked for
\* goes where a code may go.
PageIInv ==
    /\ PageTypeOK
    /\ \A r \in Requests :
           /\ asked[r] # None => GoesWhereRegistered(asked[r])
           /\ pending[r] # None => pending[r] = asked[r]
    /\ \A t \in Tabs :
           /\ tabs[t].page # None =>
                  \/ tabs[t].page = MessagePage
                  \/ /\ tabs[t].page.request # None /\ asked[tabs[t].page.request] # None
                     /\ tabs[t].page = FormPage(tabs[t].page.request, asked[tabs[t].page.request].redirect)
           /\ tabs[t].where \in {"waiting", "blocked"} =>
                  tabs[t].record = asked[tabs[t].page.request]
    /\ PlainLoginsArrive
    /\ CodesGoWhereRegistered

=============================================================================
