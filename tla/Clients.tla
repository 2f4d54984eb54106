------------------------------- MODULE Clients --------------------------------
(***************************************************************************)
(* The clients of HTTP (Library/Implementation/HTTP.c, and what it uses of *)
(* HTAABrow.c), of Gopher, with its menus, indexes, phone books (CSO) and  *)
(* documents (HTGopher.c), and of news (HTNews.c).                         *)
(*                                                                         *)
(* A step is a wait for the network or the user, with what follows it.     *)
(***************************************************************************)
EXTENDS Loading

-----------------------------------------------------------------------------
(* HTTP.c: a proxy relays request and response as they are; a browser      *)
(* interprets the response: redirections start a load within the load, and *)
(* a request for authorization starts HTLoadHTTP within HTLoadHTTP when    *)
(* the user has given name and password.                                   *)

CONSTANTS
    HTMaxRedirections,   \* bound of the code
    MaxRetries           \* bound: a user gives up after so many prompts

VARIABLE http            \* http_info and the request's authorization data
    \* .setup      request->setup: the server is known to be protected
    \* .realm      request->realm: "none", "new" (without a name), "named"
    \* .reprompt   setup->reprompt
    \* .auth       an Authorization: field is sent
    \* .content    blocks of the client's message that a proxy has to forward

HTTPInit ==
    http \in [setup : BOOLEAN, realm : {"none"}, reprompt : {FALSE}, auth : {FALSE},
              content : {0, 1}]

Retries == Len(SelectSeq(req.frames, LAMBDA f : f = "auth"))

-----------------------------------------------------------------------------
(* Authorization, the browser's side                                       *)

\* HTAA_composeAuth with compose_Basic_auth: a realm met for the first time
\* gives no authorization, one of an earlier load without a name an empty one.
HTAA_composeAuth(h) ==
    IF ~h.setup THEN {h}
    ELSE {[h EXCEPT !.reprompt = FALSE, !.realm = realm,
                    !.auth = IF h.realm = "new" THEN TRUE ELSE @ \/ realm = "named"] :
             realm \in IF h.realm = "none" THEN {"none", "new", "named"} ELSE {h.realm}}

\* HTAA_retryWithAuth up to the dialogue.  `asked` is whether the 401 response
\* named a known scheme and a realm.
HTAA_retryWithAuth(h, scheme, realm) ==
    IF ~scheme THEN [h EXCEPT !.setup = FALSE]
    ELSE [h EXCEPT !.setup = TRUE,
                   !.reprompt = h.setup,
                   !.realm = IF ~realm THEN @ ELSE IF @ = "none" THEN "new" ELSE @]

-----------------------------------------------------------------------------
(* HTLoadHTTP                                                              *)

\* HTTPCleanup and the return of v.
HTTPCleanup(r, v) == Returned(Shut(r, {"http"}), v)
HTTPFails(r) == HTTPCleanup(HTErrorAdd(r, "FATAL"), "ERROR")

\* HTDoConnect connects, fails with an error, or is interrupted.
HTLoadHTTP ==
    /\ req.pc = "http"
    /\ http' \in HTAA_composeAuth(http)
    /\ \E c \in HTDoConnect(req, "http") :
          req' = IF c.ok THEN Goes(c.r, "http_send") ELSE HTTPCleanup(c.r, "ERROR")

HTTPSendRequest ==
    /\ req.pc = "http_send"
    /\ UNCHANGED http
    /\ req' \in {HTTPFails(req),
                 Goes(req, IF req.mode # "proxy" THEN "http_reply"
                           ELSE IF http.content > 0 THEN "http_forward" ELSE "http_copy")}

\* A proxy forwards the client's message block by block; the client may have
\* sent less than it announced.
ForwardBody ==
    /\ req.pc = "http_forward"
    /\ \/ /\ req' = HTTPFails(req)
          /\ UNCHANGED http
       \/ \E remain \in {0, http.content - 1} :
             /\ http' = [http EXCEPT !.content = remain]
             /\ req' = IF remain = 0 THEN Goes(req, "http_copy") ELSE req

\* A proxy copies the response to the client, whatever it is.
RelayResponse ==
    /\ req.pc = "http_copy"
    /\ req' = HTTPCleanup(Freed(Fed(req)), "LOADED")
    /\ UNCHANGED http

\* HTTPGetBody: the body goes down a stream stack, if there is one.
HTTPGetBody(r) ==
    {HTTPCleanup(Delivered(r), "LOADED"), HTTPCleanup(NoStream(r), "ERROR")}

\* The reply of a server, by its status line: none (HTTP/0.9), one that cannot
\* be parsed, or a number.  For a status line that cannot be parsed the socket
\* is forgotten.
ReadReply ==
    /\ req.pc = "http_reply"
    /\ UNCHANGED http
    /\ \/ req' \in HTTPGetBody(req)                                  \* HTTP/0.9, 200
       \/ req' \in HTTPGetBody(HTErrorAdd(req, "INFO"))              \* 203
       \/ req' = HTTPCleanup(HTErrorAdd(req, "INFO"), "NO_DATA")     \* 204
       \/ req' = HTTPCleanup(HTErrorAdd(req, "INFO"), "LOADED")      \* 304
       \/ req' = HTTPCleanup(req, "ERROR")                           \* 303
       \/ req' = HTTPFails(req)                                      \* any other number
       \/ req' = Failed(req)                                         \* no number
       \/ req' = Goes(req, "http_moved")                             \* 301, 302
       \/ req' = Goes(req, "http_401")

\* HTTPRedirect and the load that it asks for.  Without a Location: or URI: field
\* the code takes the length of NULL.
Redirect ==
    /\ req.pc = "http_moved"
    /\ UNCHANGED http
    /\ LET moved == [Shut(HTErrorAdd(req, "INFO"), {"http"}) EXCEPT !.redirections = @ + 1]
       IN  \/ /\ moved.redirections < HTMaxRedirections
              /\ \E a \in Address :
                    req' = [moved EXCEPT !.address = a, !.frames = <<"redirect">> \o @,
                                         !.pc = "document"]
           \/ /\ moved.redirections >= HTMaxRedirections
              /\ req' = Failed(moved)
           \/ req' = Goes(Shut(req, req.socks), "crashed")

\* A 401 response: its fields are read, the connection is closed, the user is
\* asked, and HTLoadHTTP is called again.  A user who does not want to try again
\* ends the load, as a success.
Unauthorized ==
    /\ req.pc = "http_401"
    /\ \E scheme, realm \in BOOLEAN :
          LET closed == Shut(req, {"http"})
              h == HTAA_retryWithAuth(http, scheme, realm)
          IN  \/ http' = http /\ req' = Failed(closed)     \* close failed
              \/ ~(scheme /\ realm) /\ http' = h /\ req' = Failed(closed)
              \/ /\ scheme /\ realm
                 /\ \/ h.reprompt /\ http' = h
                    \/ http' = [h EXCEPT !.realm = "new"]
                 /\ req' = Returned(closed, "LOADED")
              \/ /\ scheme /\ realm /\ Retries < MaxRetries
                 /\ http' = [h EXCEPT !.realm = "named"]
                 /\ req' = [closed EXCEPT !.frames = <<"auth">> \o @, !.pc = "http"]

\* The inner HTLoadHTTP has returned: whatever it says, this one has loaded.
Retried ==
    /\ req.pc = "retried"
    /\ req' = Returned([req EXCEPT !.frames = Tail(@)], "LOADED")
    /\ UNCHANGED http

HTTPNext ==
    \/ HTLoadHTTP \/ HTTPSendRequest \/ ForwardBody \/ RelayResponse
    \/ ReadReply \/ Redirect \/ Unauthorized \/ Retried

-----------------------------------------------------------------------------
(* HTGopher.c: menus and the answers of phone books are read line by line  *)
(* and shown as HTML; a step is the reading of one line, by its kind.      *)

VARIABLE gopher          \* gopher_info, and locals of the parsers:
    \* .type         entity type, by what is done for it
    \* .query        there is something to search for
    \* .target       a stream has been put up
    \* .files        items of the menu so far: none, or some
    \* .message      the lines before the first item say an error

Searched == {"GOPHER_INDEX", "GOPHER_CSO"}
GopherTypes == Searched \cup {"GOPHER_MENU", "GOPHER_BINARY", "GOPHER_TEXT"}

GopherInit ==
    gopher \in [type : GopherTypes, query : BOOLEAN, target : {FALSE}, files : {FALSE},
                message : {FALSE}]

\* The end of HTLoadGopher: the socket is closed, a failure gets one more error.
GopherEnd(r, ok) ==
    IF ok THEN Returned(Shut(r, {"gopher"}), "LOADED") ELSE Failed(Shut(r, {"gopher"}))

\* HTGopher_send_cmd.  An index without a query shows a cover page instead
\* (display_index, display_cso).
HTLoadGopher ==
    /\ req.pc = "gopher"
    /\ UNCHANGED gopher
    /\ IF gopher.type \in Searched /\ ~gopher.query
       THEN req' = Returned(Delivered(req), "LOADED")
       ELSE \E c \in HTDoConnect(req, "gopher"), sent \in BOOLEAN :
               req' = IF ~c.ok THEN GopherEnd(c.r, FALSE)
                      ELSE IF ~sent THEN GopherEnd(HTErrorAdd(c.r, "FATAL"), FALSE)
                      ELSE Goes(c.r, IF gopher.type = "GOPHER_CSO" THEN "parse_cso"
                                     ELSE IF gopher.type \in {"GOPHER_MENU", "GOPHER_INDEX"}
                                     THEN "parse_menu" ELSE "gopher_copy")

\* What is no menu goes down the stream stack of its format.  For a binary file
\* of unknown format what HTParseSocket says is dropped.
GopherDocument ==
    /\ req.pc = "gopher_copy"
    /\ \E d \in HTParseSocket(req) :
          \/ req' = GopherEnd(d.r, d.ok)
          \/ /\ gopher.type = "GOPHER_BINARY"
             /\ req' = Returned(Shut(d.r, {"gopher"}), "NO_STATUS")
    /\ UNCHANGED gopher

-----------------------------------------------------------------------------
(* parse_menu                                                              *)

\* The target is freed if there is one, the output stream with it.
MenuEnds(r, g, ok) ==
    IF ~ok /\ ~g.files THEN GopherEnd(HTErrorAdd(r, "FATAL"), FALSE)
    ELSE GopherEnd(IF g.target THEN Freed(r) ELSE r, ok)

\* HTML_new and the head of the list.
Heads(r, g) == IF g.files THEN r ELSE Fed(StreamUp(r))

parse_menu ==
    /\ req.pc = "parse_menu"
    /\ \/ UNCHANGED <<req, gopher>>                       \* an information line
       \/ /\ ~gopher.files                                \* one that names error.host
          /\ gopher' = [gopher EXCEPT !.message = TRUE]
          /\ UNCHANGED req
       \/ /\ gopher' = [gopher EXCEPT !.files = TRUE, !.target = TRUE]     \* an item
          /\ req' = Heads(req, gopher)
       \/ /\ UNCHANGED gopher                             \* the line with a dot
          /\ req' = IF ~gopher.files /\ gopher.message THEN MenuEnds(req, gopher, FALSE)
                    ELSE MenuEnds(Heads(req, gopher), [gopher EXCEPT !.target = TRUE], TRUE)
       \/ /\ UNCHANGED gopher                             \* the end of the connection
          /\ req' = MenuEnds(req, gopher, FALSE)

-----------------------------------------------------------------------------
(* parse_cso                                                               *)

CsoEnds(r, g, ok) == GopherEnd(IF g.target THEN Freed(r) ELSE r, ok)

\* Lines are known by their first digits.  A line of data before the stream was
\* put up is written to nowhere.
parse_cso ==
    /\ req.pc = "parse_cso"
    /\ LET up == [gopher EXCEPT !.target = TRUE]
           shown == Fed(StreamUp(req))
       IN  \/ gopher' = up /\ req' = shown                              \* 1..
           \/ gopher' = gopher /\ req' = CsoEnds(req, gopher, TRUE)     \* 2..
           \/ gopher' = up /\ req' = CsoEnds(shown, up, TRUE)           \* 501, 502
           \/ /\ gopher' = gopher                                       \* 5..
              /\ req' = CsoEnds(HTErrorAdd(req, "FATAL"), gopher, FALSE)
           \/ /\ gopher' = gopher                                       \* -
              /\ req' = IF gopher.target THEN req ELSE Goes(Shut(req, req.socks), "crashed")
           \/ gopher' = gopher /\ req' = CsoEnds(req, gopher, FALSE)    \* end

GopherNext == HTLoadGopher \/ GopherDocument \/ parse_menu \/ parse_cso

-----------------------------------------------------------------------------
(* Library/Implementation/HTNews.c: articles, groups and lists of groups   *)
(* from the one news server that the environment names.  The connection is *)
(* global and stays open for the next load, by when the server may have    *)
(* closed it or have said goodbye.  The stream for the client is put up    *)
(* before the connection is made.                                          *)

VARIABLE news            \* the globals, and locals of HTLoadNews:
    \* .s            the socket is open
    \* .isoc         its buffer: "none", "allocated" or "freed"; "twice" when freed again
    \* .wanted       "list", "group" or "article"
    \* .retries
    \* .heads        articles of the group whose HEAD is still to be asked for
    \* .answered     the server has answered the command

MaxHeads == 2            \* bound: articles of a group that are looked at

NewsInit ==
    news \in {n \in [s : BOOLEAN, isoc : {"none", "allocated"},
                     wanted : {"list", "group", "article"}, retries : {0}, heads : {0},
                     answered : {FALSE}] :
                 n.s <=> n.isoc = "allocated"}

HTInputSocket_free(n) == [n EXCEPT !.isoc = IF @ = "allocated" THEN "freed" ELSE "twice"]
Closed(n) == [HTInputSocket_free(n) EXCEPT !.s = FALSE]

\* The stream is freed, and the load is a success whatever the stream got.
NewsEnds(r) == Returned(Freed(r), "LOADED")

\* HTLoadNews: without a news host it fails (initialize), else the stream is put up.
HTLoadNews ==
    /\ req.pc = "news"
    /\ UNCHANGED news
    /\ \/ req' = Returned(req, "ERROR")
       \/ req' = Goes(StreamUp(req), "news_try")

\* A round: the connection is made if need be, and its greeting read, whose
\* buffer response() may have freed already; then the command is sent.
NewsHostConnects ==
    /\ req.pc = "news_try"
    /\ \/ /\ news.s
          /\ req' = Goes(req, "news_status") /\ UNCHANGED news
       \/ /\ ~news.s
          /\ LET greeted == [news EXCEPT !.s = TRUE, !.isoc = "allocated"]
             IN  \/ req' = Failed(req) /\ UNCHANGED news
                 \/ req' = Goes(req, "news_status") /\ news' = greeted
                 \/ \E n \in {greeted, Closed(greeted)} :
                       req' = Failed(req) /\ news' = Closed(n)

\* response() to the command: none, no such article, a success, or anything
\* else, such as the message of a server that has closed the connection.
Status ==
    /\ req.pc = "news_status"
    /\ \/ req' = NewsEnds(req) /\ news' = Closed(news)
       \/ req' = NewsEnds(Fed(req)) /\ news' = [news EXCEPT !.answered = TRUE]
       \/ /\ news' = [Closed(news) EXCEPT !.retries = @ + 1]
          /\ req' = IF news.retries = 0 THEN Goes(req, "news_try") ELSE NewsEnds(req)
       \/ \E heads \in IF news.wanted = "group" THEN 0 .. MaxHeads ELSE {0} :
             /\ news' = [news EXCEPT !.answered = TRUE, !.heads = heads]
             /\ req' = Goes(Fed(req), IF news.wanted = "group" THEN "read_group"
                                      ELSE "read_article")

\* read_article and read_list: up to the line with a dot, or the connection is
\* lost (abort_socket).
read_article ==
    /\ req.pc = "read_article"
    /\ req' = NewsEnds(req)
    /\ news' \in {news, Closed(news)}

\* read_group asks for the HEAD of each article.  That response() has closed the
\* connection is not noticed: the next command is written to socket -1, and the
\* buffer freed once more.
read_group ==
    /\ req.pc = "read_group"
    /\ IF news.heads = 0 THEN req' = NewsEnds(req) /\ UNCHANGED news
       ELSE LET next == [news EXCEPT !.heads = @ - 1]
            IN  \/ UNCHANGED req /\ news.s /\ news' = next      \* the head, or a refusal
                \/ UNCHANGED req /\ news' = Closed(next)        \* no response
                \/ /\ news.s                                    \* lost within the head
                   /\ req' = NewsEnds(req) /\ news' = Closed(next)

NewsNext == HTLoadNews \/ NewsHostConnects \/ Status \/ read_article \/ read_group

=============================================================================
