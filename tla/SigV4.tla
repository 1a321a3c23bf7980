-------------------------------- MODULE SigV4 --------------------------------
(***************************************************************************)
(* sigv4.Signer: the canonical form of a request and the headers that Sign *)
(* adds.  Texts are sequences of characters, since which texts come out    *)
(* alike is the question; "2F" and its like stand for the two hex digits   *)
(* of an escape.  Hashes and HMACs are taken to be free of collisions: a   *)
(* signature is the record of what it was made from.                       *)
(*                                                                         *)
(* A request is a record: host, the URL's path in its two forms (escaped,  *)
(* as it is sent, and plain), query (the parts between its "&", as they    *)
(* are sent), headers (name -> text), body, and reader, what its Body      *)
(* still yields.                                                           *)
(***************************************************************************)
EXTENDS Naturals, Sequences, FiniteSets, TLC, SequencesExt

CONSTANTS
  Ranks,     \* the characters that texts are made of, with their order
  Reserved   \* those that are escaped, each with its two hex digits

ASSUME TextAssumption ==
  /\ DOMAIN Ranks \subseteq STRING
  /\ \A c \in DOMAIN Ranks : /\ Ranks[c] \in Nat
                             /\ \A d \in DOMAIN Ranks : Ranks[c] = Ranks[d] => c = d
  /\ DOMAIN Reserved \subseteq DOMAIN Ranks
  /\ {" ", "%", "/", "&", "="} \subseteq DOMAIN Reserved /\ Reserved["%"] = "25"
  /\ \A c \in DOMAIN Reserved :
       /\ Reserved[c] \in STRING \ DOMAIN Reserved
       /\ \A d \in DOMAIN Reserved : Reserved[c] = Reserved[d] => c = d

\* awsPathEscape.
Escape(s) ==
  FlattenSeq([k \in 1..Len(s) |->
    IF s[k] \in DOMAIN Reserved THEN <<"%", Reserved[s[k]]>> ELSE <<s[k]>>])

\* A faulty canonicalURI that starts from the decoded path.
CanonicalURIPlain(url) ==
  FlattenSeq([k \in 1..Len(url.plain) |->
    IF url.plain[k] = "/" THEN <<"/">> ELSE Escape(<<url.plain[k]>>)])

\* The segments of the escaped path are escaped again; the "/" between them stay.
CanonicalURI(url) ==
  IF url.escaped = <<>> THEN <<"/">>
  ELSE FlattenSeq([k \in 1..Len(url.escaped) |->
         IF url.escaped[k] = "/" THEN <<"/">> ELSE Escape(<<url.escaped[k]>>)])

\* A character of a query, as it is or as an escape.
Unit == [char : DOMAIN Ranks, escaped : BOOLEAN]

Raw(c) == [char |-> c, escaped |-> FALSE]

\* A part of a query is a key and, behind its first "=", a value.  A "%" that
\* begins no escape ends its text.
Part ==
  {p \in [key : Seq(Unit), value : Seq(Unit), equals : BOOLEAN] :
     /\ p.equals \/ p.value = <<>>
     /\ Raw("=") \notin ToSet(p.key)
     /\ {Raw(" "), Raw("&")} \cap ToSet(p.key \o p.value) = {}
     /\ \A t \in {p.key, p.value} : \A k \in 1..Len(t) : t[k] = Raw("%") => k = Len(t)}

\* url.QueryUnescape: a "+" is a space.
Unescaped(t) == [k \in 1..Len(t) |-> IF t[k] = Raw("+") THEN " " ELSE t[k].char]

\* url.ParseQuery passes over a part that is empty, has a ";" or cannot be
\* unescaped; URL.Query leaves out the error.
PassedOver(p) ==
  \/ p.key = <<>> /\ ~p.equals
  \/ \E u \in ToSet(p.key \o p.value) : u \in {Raw(";"), Raw("%")}

Parameters(query) ==
  FlattenSeq([k \in 1..Len(query) |->
    IF PassedOver(query[k]) THEN <<>>
    ELSE <<<<Unescaped(query[k].key), Unescaped(query[k].value)>>>>])

\* sort.Strings: what is sorted is not yet escaped.
TextBefore(s, t) ==
  \/ IsStrictPrefix(s, t)
  \/ \E k \in 1..Len(s) :
       /\ k <= Len(t) /\ Ranks[s[k]] < Ranks[t[k]]
       /\ \A j \in 1..(k - 1) : s[j] = t[j]

\* By key alone, a faulty order that leaves the values of a key as they came.
KeyBefore(p, q) == TextBefore(p[1], q[1])

\* By key, then by value.
PairBefore(p, q) == KeyBefore(p, q) \/ (p[1] = q[1] /\ TextBefore(p[2], q[2]))

\* Which of two positions the sort puts first.
Sooner(pairs, i, j) ==
  \/ PairBefore(pairs[i], pairs[j])
  \/ ~PairBefore(pairs[j], pairs[i]) /\ i < j

SortedPairs(pairs) ==
  LET places == 1..Len(pairs)
      order == CHOOSE f \in [places -> places] :
                 \A j, k \in places : j < k => Sooner(pairs, f[j], f[k])
  IN [k \in places |-> pairs[order[k]]]

\* key=value&key=value.
WrittenQuery(pairs) ==
  FlattenSeq([k \in 1..Len(pairs) |->
    (IF k = 1 THEN <<>> ELSE <<"&">>) \o Escape(pairs[k][1]) \o <<"=">> \o Escape(pairs[k][2])])

CanonicalQuery(query) == WrittenQuery(SortedPairs(Parameters(query)))

IsBlank(c) == c \in {" ", "\t"}

TrimSpace(s) ==
  LET solid == {k \in 1..Len(s) : ~IsBlank(s[k])}
  IN IF solid = {} THEN <<>>
     ELSE SubSeq(s, SelectInSeq(s, LAMBDA c : ~IsBlank(c)),
                    SelectLastInSeq(s, LAMBDA c : ~IsBlank(c)))

\* A run of blanks becomes one space.
TrimSequentialSpaces(s) ==
  LET t == TrimSpace(s)
  IN FlattenSeq([k \in 1..Len(t) |->
       IF ~IsBlank(t[k]) THEN <<t[k]>> ELSE IF IsBlank(t[k - 1]) THEN <<>> ELSE <<" ">>])

\* All headers are signed, in the order of their names.
CanonicalHeaders(headers) ==
  [n \in DOMAIN headers |-> TrimSequentialSpaces(headers[n])]

With(headers, n, text) ==
  [h \in DOMAIN headers \cup {n} |-> IF h = n THEN text ELSE headers[h]]

WithToken(headers, token) ==
  IF token = <<>> THEN headers ELSE With(headers, "x-amz-security-token", token)

\* The headers that Sign sets before it looks at them.
Prepared(req, cred, date) ==
  WithToken(
    With(With(With(req.headers, "host", req.host), "x-amz-date", date),
         "x-amz-content-sha256", req.body),
    cred.token)

\* Sign fails without keys, region, service or host, and if the body cannot be
\* read or closed.
CanSign(req, cred, region) ==
  cred.key # "" /\ region # "" /\ req.host # <<>> /\ req.reader # "broken"

Signature(req, headers, cred, date, region) ==
  [key |-> cred.key, date |-> date, region |-> region, signed |-> DOMAIN headers,
   uri |-> CanonicalURI(req), query |-> CanonicalQuery(req.query),
   headers |-> CanonicalHeaders(headers), payload |-> req.body]

\* The request as Sign leaves it: the body can be read again, and the header
\* Authorization (here, the date that tells signatures apart) is set last.
Sign(req, cred, date, region) ==
  LET headers == Prepared(req, cred, date)
  IN [req EXCEPT !.headers = With(headers, "authorization", date),
                 !.auth = Signature(req, headers, cred, date, region),
                 !.reader = "full"]
==============================================================================
