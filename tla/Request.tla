------------------------------- MODULE Request -------------------------------
(***************************************************************************)
(* What goes over the wire: NewClient, then ConverseStream, which builds   *)
(* the body once and for each attempt a request that is signed, or bears a *)
(* token.  Converse has the timing of the same attempts; here it is what   *)
(* they say.  The package sigv4 signs for two more callers: callAssumeRole *)
(* of the credentials chain, whose request to STS is built here too, and   *)
(* whoever else imports it, with a request of their own.                   *)
(***************************************************************************)
EXTENDS ClientConfig, RequestBody, SigV4

CONSTANTS
  Worlds,      \* a caller with a setup, an input and a request of its own
  NoURL,       \* regions and endpoints of which http.NewRequest makes no URL
  NoHost,      \* endpoints whose URL has no host
  PathKept,    \* reserved characters that url.PathEscape leaves alone
  Credentials, \* what Retrieve may answer
  Dates,       \* the instants at which requests are signed, in order
  MaxAttempts  \* bound: attempts of a call

Letters == STRING
Texts == Seq(Letters)

NoAuth == [key |-> ""]

\* What other callers bring: Config.Region or Signer.Region, the region of the
\* profile whose role is assumed, Config.STSEndpoint.
Own == [region : STRING, profile : STRING, endpoint : STRING]

\* A request that nobody has signed yet, with a path that is escaped.
Unsigned(r) ==
  /\ DOMAIN r = {"host", "plain", "escaped", "query", "body", "reader", "auth", "headers"}
  /\ {r.host, r.escaped, r.body} \subseteq Texts
  /\ r.query \in Seq(Part)
  /\ \A k \in 1..Len(r.escaped) :
       r.escaped[k] \in {"%", "/"} \cup PathKept \/ r.escaped[k] \notin DOMAIN Reserved
  /\ r.reader \in {"full", "broken"} /\ r.auth = NoAuth
  /\ \A n \in DOMAIN r.headers :
       r.headers[n] \in Texts /\ n \notin {"authorization", "x-amz-security-token"}

\* What stands in quotes is a string, which the provers have to be told.
ASSUME QuotedAreStrings ==
  {"", "chain", "/", "%", "&", "=", "model", "converse-stream", "json", "eventstream", " ",
   "bedrock-runtime.", ".amazonaws.com", "Bearer ", "sts.", "form", "xml"} \subseteq STRING

ASSUME RequestAssumption ==
  /\ \A w \in Worlds : /\ w.caller \in {"client", "role", "other"} /\ w.setup \in Setups
                       /\ w.own \in Own /\ w.input \in Input /\ Unsigned(w.request)
  /\ PathKept \subseteq DOMAIN Reserved \ {"%", "/"}
  /\ {"model", "converse-stream"} \cap DOMAIN Reserved = {}
  /\ \A c \in Credentials : c.key \in STRING /\ c.token \in Texts
  /\ Dates \in Seq(Texts) /\ Dates # <<>>
  /\ MaxAttempts \in Nat \ {0}

VARIABLES
  caller,  \* ConverseStream, callAssumeRole, or somebody else who signs a request
  own,     \* what the other two go by
  input,   \* ConverseStreamInput
  body,    \* what buildRequestBody made of it
  req,     \* the request of the current attempt
  now,     \* the last instant of Dates that has come
  call,    \* what the caller does next
  sent     \* history: the requests that were sent

requestVars == <<configVars, caller, own, input, body, req, now, call, sent>>

RequestInit ==
  /\ \E w \in Worlds : /\ caller = w.caller /\ setup = w.setup /\ own = w.own
                       /\ input = w.input /\ req = w.request
  /\ ConfigInit
  /\ body = RefusedBody
  /\ now = 1
  /\ call = CASE caller = "client" -> "config" [] caller = "role" -> "role" [] OTHER -> "own"
  /\ sent = <<>>

-----------------------------------------------------------------------------
\* url.PathEscape: what may not stand in a segment, "/" included, is escaped.
PathEscape(s) ==
  FlattenSeq([k \in 1..Len(s) |->
    IF s[k] \in DOMAIN Reserved \ PathKept THEN <<"%", Reserved[s[k]]>> ELSE <<s[k]>>])

Path(id) == <<"/", "model", "/">> \o id \o <<"/", "converse-stream">>

\* The host of the URL of an endpoint or, without one, of a service's region.
HostOf(endpoint, service, region) ==
  IF endpoint = "" THEN <<service, region, ".amazonaws.com">>
  ELSE IF endpoint \in NoHost THEN <<>> ELSE <<endpoint>>

Host == HostOf(client.endpoint, "bedrock-runtime.", client.host)

\* Whether http.NewRequest refuses the URL.
BadURL(endpoint, region) == (IF endpoint = "" THEN region ELSE endpoint) \in NoURL

Configure ==
  /\ call = "config" /\ NewClient
  /\ UNCHANGED <<caller, own, input, body, req, now, call, sent>>

BuildBody ==
  /\ call = "config" /\ phase = "ready"
  /\ body' = Build(input)
  /\ call' = IF body'.error THEN "failed" ELSE "attempt"
  /\ UNCHANGED <<configVars, caller, own, input, req, now, sent>>

Fresh ==
  [host |-> Host, plain |-> Path(input.model), escaped |-> Path(PathEscape(input.model)),
   query |-> <<>>, body |-> <<"json">>, reader |-> "full", auth |-> NoAuth,
   headers |-> [n \in {"content-type", "accept"} |->
                  IF n = "accept" THEN <<"eventstream">> ELSE <<"json">>]]

\* A faulty attempt that takes up the request of the one before it.
Reused == IF sent = <<>> THEN Fresh ELSE [req EXCEPT !.reader = "full"]

\* The request that an attempt starts from.
Begun == Fresh

NewAttempt ==
  /\ call = "attempt"
  /\ IF BadURL(client.endpoint, client.host)
       THEN req' = req /\ call' = "failed"
       ELSE req' = Begun /\ call' = "auth"
  /\ UNCHANGED <<configVars, caller, own, input, body, now, sent>>

\* A Bedrock API key comes before any credentials.
BearAuth ==
  /\ call = "auth" /\ client.token # ""
  /\ req' = [req EXCEPT !.headers = With(With(@, "host", req.host),
                                         "authorization", <<"Bearer ", client.token>>)]
  /\ call' = "send"
  /\ UNCHANGED <<configVars, caller, own, input, body, now, sent>>

\* Retrieve and Sign, at some later instant; either may fail.
SignAuth ==
  /\ call = "auth" /\ client.token = ""
  /\ now' \in now..Len(Dates)
  /\ \E cred \in Credentials :
       IF CanSign(req, cred, client.region)
         THEN req' = Sign(req, cred, Dates[now'], client.region) /\ call' = "send"
         ELSE req' = req /\ call' = "failed"
  /\ UNCHANGED <<configVars, caller, own, input, body, sent>>

\* The transport reads the Body; the answer may ask for another attempt.
Send ==
  /\ call = "send" /\ req.host # <<>>
  /\ sent' = Append(sent, req)
  /\ req' = [req EXCEPT !.reader = "drained"]
  /\ call' \in IF caller = "client" /\ Len(sent') < MaxAttempts THEN {"done", "attempt"} ELSE {"done"}
  /\ UNCHANGED <<configVars, caller, own, input, body, now>>

\* Without a host the transport sends nothing, at this attempt or a later one.
Unsendable ==
  /\ call = "send" /\ req.host = <<>>
  /\ call' = "failed"
  /\ UNCHANGED <<configVars, caller, own, input, body, req, now, sent>>

\* Somebody else signs a request, for a region of their choice.
SignOwn ==
  /\ call = "own"
  /\ \E cred \in Credentials :
       IF CanSign(req, cred, own.region)
         THEN req' = Sign(req, cred, Dates[now], own.region) /\ call' = "send"
         ELSE req' = req /\ call' = "failed"
  /\ UNCHANGED <<configVars, caller, own, input, body, now, sent>>

\* resolveRegion of the credentials chain: the order is not NewClient's.
StsRegion ==
  FirstSet(<<own.region, own.profile, setup.env.region, setup.env.defaultRegion, DefaultRegion>>)

RoleRequest ==
  LET path == IF own.endpoint = "" THEN <<"/">> ELSE <<>>
  IN [host |-> HostOf(own.endpoint, "sts.", StsRegion), plain |-> path, escaped |-> path,
      query |-> <<>>, body |-> <<"form">>, reader |-> "full", auth |-> NoAuth,
      headers |-> [n \in {"content-type", "accept"} |->
                     IF n = "accept" THEN <<"xml">> ELSE <<"form">>]]

\* callAssumeRole, with credentials that a resolver has found to be complete.  The
\* errors of NewRequest, which leaves no request to go on with, and of Sign are
\* both dropped.
AssumeRole ==
  /\ call = "role"
  /\ IF BadURL(own.endpoint, StsRegion)
       THEN req' = req /\ call' = "panicked"
       ELSE /\ call' = "send"
            /\ \E cred \in {c \in Credentials : c.key # ""} :
                 req' = IF CanSign(RoleRequest, cred, StsRegion)
                          THEN Sign(RoleRequest, cred, Dates[now], StsRegion) ELSE RoleRequest
  /\ UNCHANGED <<configVars, caller, own, input, body, now, sent>>

RequestNext ==
  \/ Configure \/ BuildBody \/ NewAttempt \/ BearAuth \/ SignAuth \/ Send \/ Unsendable
  \/ SignOwn \/ AssumeRole

RequestSpec == RequestInit /\ [][RequestNext]_requestVars
-----------------------------------------------------------------------------
\* Types; the schemas that are sent are objects, as the service demands, the
\* tool's own or the empty one.
RequestTypeOK ==
  /\ phase \in {"options", "endpoint", "auth", "ready"} /\ applied \in 0..Len(setup.options)
  /\ client \in [region : STRING, endpoint : STRING, host : STRING, token : STRING, creds : STRING]
  /\ call \in {"config", "own", "role", "attempt", "auth", "send", "done", "failed", "panicked"}
  /\ body.error \/ body.tools.schemas \in Seq({"object", "empty"})
  /\ now \in 1..Len(Dates) /\ Len(sent) <= MaxAttempts
  /\ req.reader \in {"full", "drained", "broken"}

\* The transport asks for "/" where there is no path.
OnWire(path) == IF path = <<>> THEN <<"/">> ELSE path

\* What the service sees of a request: the Host header is the transport's, and
\* the body is what its reader yields.
Received(r) ==
  [r EXCEPT !.headers = With(@, "host", r.host), !.escaped = OnWire(@),
            !.body = IF r.reader = "full" THEN @ ELSE <<>>]

Solid(s, k) == ~IsBlank(s[k])

\* How the service writes a header value: the words, one space between them.
OneSpace(s) ==
  FlattenSeq([k \in 1..Len(s) |->
    IF Solid(s, k) THEN <<s[k]>>
    ELSE IF k > 1 /\ Solid(s, k - 1) /\ \E j \in k..Len(s) : Solid(s, j) THEN <<" ">> ELSE <<>>])

\* The parameters of a query as they stand on the wire, each part one of them.
Chars(t) == [k \in 1..Len(t) |-> t[k].char]
Meant(query) == [k \in 1..Len(query) |-> <<Chars(query[k].key), Chars(query[k].value)>>]

Encoded(s) ==
  FlattenSeq([k \in 1..Len(s) |->
    IF s[k] \in DOMAIN Reserved THEN <<"%", Reserved[s[k]]>> ELSE <<s[k]>>])

\* The order of the encoded texts: the "%" of an escape comes before all that
\* needs none.
CodeBefore(c, d) ==
  IF c \in DOMAIN Reserved <=> d \in DOMAIN Reserved THEN Ranks[c] < Ranks[d]
  ELSE c \in DOMAIN Reserved

EncodedBefore(s, t) ==
  \/ IsStrictPrefix(s, t)
  \/ \E k \in 1..Len(s) : /\ k <= Len(t) /\ CodeBefore(s[k], t[k])
                          /\ \A j \in 1..(k - 1) : s[j] = t[j]

\* The service makes this text of the query that has arrived: the parameters
\* encoded, and then sorted by name and value.
Recomputed(query, text) ==
  LET places == 1..Len(query)
      pairs == Meant(query)
      before(p, q) == EncodedBefore(p[1], q[1]) \/ (p[1] = q[1] /\ EncodedBefore(p[2], q[2]))
  IN \E f \in [places -> places] :
       /\ \A j, k \in places : j < k => f[j] # f[k] /\ ~before(pairs[f[k]], pairs[f[j]])
       /\ text = FlattenSeq([k \in places |->
                    (IF k = 1 THEN <<>> ELSE <<"&">>)
                      \o Encoded(pairs[f[k]][1]) \o <<"=">> \o Encoded(pairs[f[k]][2])])

\* The service computes the signature again, from what it has received: every
\* header the request names as signed, with the path escaped a second time.
RestVerifies(r) ==
  LET g == Received(r)
      a == g.auth
      amz == {"x-amz-date", "x-amz-content-sha256", "x-amz-security-token"}
  IN /\ a.signed \subseteq DOMAIN g.headers
     /\ {"host"} \cup (amz \cap DOMAIN g.headers) \subseteq a.signed
     /\ a.headers = [n \in a.signed |-> OneSpace(g.headers[n])]
     /\ a.date = g.headers["x-amz-date"]
     /\ a.payload = g.body /\ g.headers["x-amz-content-sha256"] = g.body
     /\ a.uri = FlattenSeq([k \in 1..Len(g.escaped) |->
                  CASE g.escaped[k] = "%" -> <<"%", "25">>
                    [] g.escaped[k] \in PathKept -> <<"%", Reserved[g.escaped[k]]>>
                    [] OTHER -> <<g.escaped[k]>>])
     /\ \E c \in Credentials :
          /\ c.key = a.key
          /\ c.token = IF "x-amz-security-token" \in DOMAIN g.headers
                         THEN g.headers["x-amz-security-token"] ELSE <<>>

Verifies(r) == RestVerifies(r) /\ Recomputed(r.query, r.auth.query)

\* url.ParseQuery keeps every part of such a query, and all its characters.
Whole(query) ==
  \A p \in ToSet(query) :
    /\ p.key # <<>> \/ p.equals
    /\ {Raw("%"), Raw(";"), Raw("+")} \cap ToSet(p.key \o p.value) = {}

\* In the order of characters, those that are escaped come before those that are
\* not, as they do once they are escaped.
Aligned(query) ==
  \A p, q \in ToSet(query) :
    \A u \in ToSet(p.key \o p.value), v \in ToSet(q.key \o q.value) :
      u.char \in DOMAIN Reserved /\ v.char \notin DOMAIN Reserved => Ranks[u.char] < Ranks[v.char]

\* Whatever the attempt, the credentials and the time, a request that leaves is
\* one whose signature the service finds right: nothing that is signed changes
\* between Sign and the wire, no x-amz header escapes the signature, and the
\* region that signs is the one the host was derived from.  The query is right as
\* well, if it is Whole and Aligned (ConverseStream and callAssumeRole send none).
\* With a bearer token the request is not signed at all.
SentVerifies ==
  \A k \in 1..Len(sent) :
    IF caller = "client" /\ client.token # ""
      THEN sent[k].auth = NoAuth /\ sent[k].headers["authorization"] = <<"Bearer ", client.token>>
      ELSE /\ RestVerifies(sent[k])
           /\ Whole(sent[k].query) /\ Aligned(sent[k].query) => Verifies(sent[k])
           /\ caller = "client" /\ client.endpoint = "" =>
                sent[k].host = <<"bedrock-runtime.", sent[k].auth.region, ".amazonaws.com">>
           /\ caller = "role" /\ own.endpoint = "" =>
                sent[k].host = <<"sts.", sent[k].auth.region, ".amazonaws.com">>

SignedSent == {k \in 1..Len(sent) : sent[k].auth # NoAuth}

Queries == {w.request.query : w \in Worlds}
URLs == {[plain |-> w.request.plain, escaped |-> w.request.escaped] : w \in Worlds}

\* A canonical query is that of one set of parameters: in whatever order and with
\* whatever escapes they come the text is the same, and no two sets of them look
\* alike.  Queries with parts that url.ParseQuery passes over or reads otherwise
\* than they stand are left out: those do look alike.
QueryUnambiguous ==
  caller = "other" =>
    \A k \in SignedSent : \A q \in Queries :
      Whole(q) /\ Whole(sent[k].query) =>
        (CanonicalQuery(q) = sent[k].auth.query <=> ToBag(Meant(q)) = ToBag(Meant(sent[k].query)))

\* The package doc of sigv4: it "implements AWS Signature Version 4 request
\* signing", so that the service finds right what it signs, whatever the query.
EverySignatureVerifies ==
  \A k \in SignedSent : Verifies(sent[k])

\* A signature for one path is good for no other: an ARN whose "/" is escaped is
\* a single segment, and is not signed like the path that has the "/".
PathUnambiguous ==
  \A k \in SignedSent : \A url \in URLs :
    CanonicalURI(url) = sent[k].auth.uri <=> OnWire(url.escaped) = OnWire(sent[k].escaped)

\* A body that is built says what the input says: each block has become the one
\* pointer field it has, or its text, and none is dropped; each tool is there, with
\* its schema if that is an object; the choice of a tool and the caller's JSON are
\* those of the input.  An input is refused only for a reason.  A text beside a
\* pointer field is no such reason: it is left out.
BodySaysInput ==
  call # "config" /\ caller = "client" =>
    IF body.error
      THEN \/ input.model = <<>> \/ input.messages = <<>> \/ input.raw = "invalid"
           \/ \E m \in ToSet(input.messages) : \E b \in ToSet(m) : Cardinality(b.fields) > 1
           \/ input.choice.type = "unknown"
           \/ input.choice.type = "tool" /\ ~input.choice.named
      ELSE /\ Len(body.messages) = Len(input.messages) /\ input.messages # <<>>
           /\ \A k \in 1..Len(input.messages) :
                /\ Len(body.messages[k]) = Len(input.messages[k])
                /\ \A j \in 1..Len(input.messages[k]) :
                     LET b == input.messages[k][j]  m == body.messages[k][j]
                     IN \/ b.fields = {} /\ m = [member |-> "text", text |-> b.text]
                        \/ b.fields = {m.member} /\ ~m.text
           /\ Len(body.tools.schemas) = Len(input.schemas)
           /\ \A k \in 1..Len(input.schemas) :
                body.tools.schemas[k] = "object" <=> input.schemas[k] = "object"
           /\ body.tools.present <=> (input.schemas # <<>> \/ input.choice # NoChoice)
           /\ body.tools.choice = input.choice /\ body.raw = input.raw
           /\ input.choice.type # "unknown"
           /\ input.choice.type = "tool" => input.choice.named
==============================================================================
