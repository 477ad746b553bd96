----------------------------- MODULE HttpClient ------------------------------
(***************************************************************************)
(* Requests of the HTTP client (client/httplib: httplib.go, setting.go):   *)
(* filters in slices that share arrays, parameters and bodies put together *)
(* when the request is sent, attempts that fail before or after the server *)
(* has read the body, and an answer that is kept and read once.            *)
(***************************************************************************)
EXTENDS Integers, Sequences

CONSTANTS Reqs,        \* requests
          Retries,     \* setting.Retries, not -1
          DefaultCap,  \* capacity of the default filters' slice (4 in the code)
          MaxAdds,     \* filters that are added: a bound
          MaxSends     \* calls that send a request: a bound

VARIABLES arrays,    \* the arrays behind the slices of filters
          defaults,  \* defaultSetting.FilterChains, a slice
          client,    \* Client.Setting.FilterChains, a slice
          hreq,      \* BeegoHTTPRequest
          adds, sends,   \* bounds
          ran,       \* history: the request of the last call and the filters it went through
          received,  \* history: what the server got last
          given      \* history: what the last Bytes returned without an error

httpVars == <<arrays, defaults, client, hreq, adds, sends, ran, received, given>>

NoFilter == 0
Slice(a, n) == [arr |-> a, len |-> n]
Filters(s) == SubSeq(arrays[s.arr], 1, s.len)

\* NewBeegoRequestWithCtx: a copy of the settings, and of the slice in them.
\* mine, sent, answers and own are histories.
NewRequest(method, setting) ==
  [live |-> TRUE, method |-> method, chain |-> setting, mine |-> {},
   content |-> "none", files |-> FALSE, params |-> FALSE, reader |-> "nil",
   inUrl |-> 0, stage |-> "idle", tries |-> 0, keep |-> FALSE,
   resp |-> FALSE, closed |-> FALSE, body |-> "none",
   sent |-> 0, answers |-> 0, own |-> FALSE]

Init ==
  /\ arrays = <<[i \in 1 .. DefaultCap |-> NoFilter]>> /\ defaults = Slice(1, 0) /\ client = Slice(1, 0)
  /\ hreq = [r \in Reqs |-> [NewRequest("GET", Slice(1, 0)) EXCEPT !.live = FALSE]]
  /\ adds = 0 /\ sends = 0 /\ ran = <<>> /\ received = <<>> /\ given = "none"

New(r) ==
  /\ ~hreq[r].live
  /\ \E method \in {"GET", "POST"} : hreq' = [hreq EXCEPT ![r] = NewRequest(method, defaults)]
  /\ UNCHANGED <<arrays, defaults, client, adds, sends, ran, received, given>>

\* NewClient: the default settings of that moment.
NewClient ==
  /\ client' = defaults
  /\ UNCHANGED <<arrays, defaults, hreq, adds, sends, ran, received, given>>

\* A method of Client: its requests get the settings of the client.
CustomReq(r) ==
  /\ ~hreq[r].live
  /\ \E method \in {"GET", "POST"} : hreq' = [hreq EXCEPT ![r] = NewRequest(method, client)]
  /\ UNCHANGED <<arrays, defaults, client, adds, sends, ran, received, given>>

-----------------------------------------------------------------------------
(* Building a request.                                                     *)

\* append: in place if the array has room, otherwise into an array twice as long.
Grown(s, f) ==
  LET old == arrays[s.arr] IN
  IF s.len < Len(old) THEN Slice(s.arr, s.len + 1) ELSE Slice(Len(arrays) + 1, s.len + 1)
Written(s, f) ==
  LET old == arrays[s.arr] IN
  IF s.len < Len(old) THEN [arrays EXCEPT ![s.arr][s.len + 1] = f]
  ELSE Append(arrays, old \o <<f>> \o [i \in 1 .. Len(old) - 1 |-> NoFilter])

Idle(r) == hreq[r].live /\ hreq[r].stage = "idle"
Adding == adds < MaxAdds /\ adds' = adds + 1 /\ UNCHANGED <<client, sends, ran, received, given>>

AddFilters(r) ==
  LET f == adds + 1 s == hreq[r].chain IN
  /\ Idle(r) /\ Adding
  /\ arrays' = Written(s, f)
  /\ hreq' = [hreq EXCEPT ![r].chain = Grown(s, f), ![r].mine = @ \cup {f}]
  /\ UNCHANGED defaults

SetFilters(r) ==
  LET f == adds + 1 IN
  /\ Idle(r) /\ Adding
  /\ arrays' = Append(arrays, <<f>>)
  /\ hreq' = [hreq EXCEPT ![r].chain = Slice(Len(arrays) + 1, 1), ![r].mine = @ \cup {f}]
  /\ UNCHANGED defaults

AddDefaultFilter ==
  /\ Adding /\ arrays' = Written(defaults, adds + 1) /\ defaults' = Grown(defaults, adds + 1) /\ UNCHANGED hreq

\* Requests are filled before they are sent for the first time.
Fill(r, q) ==
  /\ hreq[r].sent = 0 /\ hreq' = [hreq EXCEPT ![r] = q]
  /\ UNCHANGED <<arrays, defaults, client, adds, sends, ran, received, given>>

\* reqBody.
WithBody(q) == [q EXCEPT !.content = "data", !.reader = "full"]

Body(r) == Idle(r) /\ hreq[r].content = "none" /\ Fill(r, WithBody(hreq[r]))
Param(r) == Idle(r) /\ ~hreq[r].params /\ Fill(r, [hreq[r] EXCEPT !.params = TRUE])
PostFile(r) == Idle(r) /\ ~hreq[r].files /\ hreq[r].method = "POST" /\ Fill(r, [hreq[r] EXCEPT !.files = TRUE])

-----------------------------------------------------------------------------
(* Sending.                                                                *)

\* buildURL: the parameters go into the URL, or are the body if there is none;
\* files are a body that is read from a pipe.
BuildURL(q) ==
  CASE q.method = "GET" -> IF q.params THEN [q EXCEPT !.inUrl = @ + 1] ELSE q
    [] q.method = "POST" /\ q.reader # "nil" -> q
    [] q.method = "POST" /\ q.reader = "nil" /\ q.files -> [q EXCEPT !.content = "files", !.reader = "full"]
    [] OTHER -> IF q.params THEN WithBody(q) ELSE q

\* DoRequest, called by the program (keep = FALSE) or by getResponse, through
\* the filters to doRequest.
Send(r, keep) ==
  /\ Idle(r) /\ sends < MaxSends /\ sends' = sends + 1
  /\ hreq' = [hreq EXCEPT ![r] = [BuildURL(hreq[r]) EXCEPT !.stage = "send", !.tries = 0, !.keep = keep,
                                                           !.sent = @ + 1, !.own = @ \/ ~keep]]
  /\ ran' = <<r, Filters(hreq[r].chain)>>
  /\ UNCHANGED <<arrays, defaults, client, adds, received, given>>

DoRequest(r) == Send(r, FALSE)

GetResponse(r) == ~hreq[r].resp /\ Send(r, TRUE)

\* What the transport does with one attempt.  A body of known length that was
\* read before is refused.
Outcomes(q) == IF q.reader = "used" /\ q.content = "data" THEN {"refused"} ELSE {"ok", "refused", "broken"}

\* Mutant: Body does not say how to copy itself.
CopyBodyNone(q) == "nil"

\* copyBody: a new reader over the data of Body; nothing for files.
CopyBody(q) == IF q.content = "data" THEN "full" ELSE "nil"

\* An attempt that failed: the next one, or none.
Again(q) == [q EXCEPT !.tries = @ + 1, !.reader = CopyBody(q), !.stage = IF q.tries < Retries THEN "send" ELSE "idle"]

\* One round of sendRequest.
Attempt(r) ==
  LET q == hreq[r]
      read == IF q.reader = "nil" THEN "nil" ELSE "used"
  IN  /\ q.stage = "send"
      /\ \E how \in Outcomes(q) :
           /\ received' = IF how = "refused" THEN received
                          ELSE [content |-> q.content, reader |-> q.reader, inUrl |-> q.inUrl, sent |-> q.sent,
                                params |-> q.params, method |-> q.method, files |-> q.files, own |-> q.own]
           /\ hreq' = [hreq EXCEPT ![r] =
                IF how = "ok"
                THEN [q EXCEPT !.stage = "idle", !.reader = read, !.answers = @ + 1,
                               !.resp = @ \/ q.keep, !.closed = @ /\ ~q.keep]
                ELSE Again([q EXCEPT !.reader = IF how = "broken" THEN read ELSE @])]
      /\ UNCHANGED <<arrays, defaults, client, adds, sends, ran, given>>

-----------------------------------------------------------------------------
(* Reading the answer.                                                     *)

\* Bytes, for an answer that is not compressed: what was read is kept, also if
\* reading broke off; the body is closed.
Bytes(r) ==
  LET q == hreq[r] IN
  /\ Idle(r) /\ q.resp
  /\ \E breaks \in BOOLEAN :
       LET b == IF q.body # "none" THEN q.body ELSE IF q.closed \/ breaks THEN "part" ELSE "whole" IN
       /\ hreq' = [hreq EXCEPT ![r].body = b, ![r].closed = @ \/ q.body = "none"]
       /\ given' = IF q.body # "none" \/ b = "whole" THEN b ELSE "none"
  /\ UNCHANGED <<arrays, defaults, client, adds, sends, ran, received>>

\* Client.handleResponse and handleCarrier: what Bytes kept becomes the body of the answer again.
HandleResponse(r) ==
  /\ Idle(r) /\ hreq[r].body = "whole" /\ hreq[r].closed
  /\ hreq' = [hreq EXCEPT ![r].closed = FALSE]
  /\ UNCHANGED <<arrays, defaults, client, adds, sends, ran, received, given>>

ToFile(r) ==
  /\ Idle(r) /\ hreq[r].resp /\ ~hreq[r].closed
  /\ hreq' = [hreq EXCEPT ![r].closed = TRUE]
  /\ UNCHANGED <<arrays, defaults, client, adds, sends, ran, received, given>>

Next ==
  \/ AddDefaultFilter \/ NewClient
  \/ \E r \in Reqs : \/ New(r) \/ CustomReq(r) \/ AddFilters(r) \/ SetFilters(r) \/ Body(r) \/ Param(r) \/ PostFile(r)
                     \/ DoRequest(r) \/ GetResponse(r) \/ Attempt(r) \/ Bytes(r) \/ HandleResponse(r) \/ ToFile(r)

Spec == Init /\ [][Next]_httpVars

-----------------------------------------------------------------------------
(* Properties.                                                             *)

\* A server that reads a request to its end gets the whole body, at whatever
\* attempt, after whatever went wrong with the ones before, and also when the
\* program sends the request again.  (Files are sent with the first attempt
\* only.)
BodyWhole ==
  received # <<>> /\ received.content = "data" => received.reader = "full"

\* All attempts of the first call have the parameters once.
ParamsOnce ==
  received # <<>> /\ received.sent = 1 =>
    received.inUrl = IF received.method = "GET" /\ received.params THEN 1 ELSE 0

\* A program that only asks for the answer, as a string, a file or an object,
\* in any order and as often as it likes, makes the server answer once.
SentOnce == \A r \in Reqs : ~hreq[r].own => hreq[r].answers <= 1

\* "TestAddFilter make sure that AddFilters only work for the specific request"
\* (httplib_test.go): a call goes through no filter that was added to another
\* request only.
FiltersOwn ==
  ran # <<>> => \A p \in Reqs \ {ran[1]}, i \in DOMAIN ran[2] : ran[2][i] \notin hreq[p].mine

\* Files reach the server, whichever attempt gets there.
FilesWhole == received # <<>> /\ received.files /\ ~received.own /\ received.content = "files" => received.reader = "full"

\* What Bytes returns without an error is the whole answer.
ReadsWhole == given # "part"

\* A request is sent once per try, each time with its whole body and its
\* parameters once.
ClientSound == BodyWhole /\ ParamsOnce /\ SentOnce

=============================================================================
