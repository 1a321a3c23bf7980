------------------------------ MODULE MCRequest ------------------------------
(* Instances of Request for TLC. *)
EXTENDS Request

\* The order is that of ASCII; "0", "a" and "b" are what needs no escape.
MCRanks == (" " :> 1) @@ ("%" :> 2) @@ ("&" :> 3) @@ ("+" :> 4) @@ ("/" :> 5) @@ ("0" :> 6)
             @@ (":" :> 7) @@ (";" :> 8) @@ ("=" :> 9) @@ ("a" :> 10) @@ ("b" :> 11)
MCReserved == (" " :> "20") @@ ("%" :> "25") @@ ("&" :> "26") @@ ("+" :> "2B") @@ ("/" :> "2F")
                @@ (":" :> "3A") @@ (";" :> "3B") @@ ("=" :> "3D")

MCCredentials == {[key |-> "AKIA", token |-> <<>>], [key |-> "ASIA", token |-> <<"token">>],
                  [key |-> "", token |-> <<>>]}
MCDates == <<<<"day 1">>, <<"day 2">>>>

Opt(f, x) == [field |-> f, value |-> x]
Options == {Opt("region", "r1"), Opt("region", "r2"), Opt("endpoint", "e1"),
            Opt("token", "t1"), Opt("creds", "static"), Opt("region", "")}
NoEnv == [region |-> "", defaultRegion |-> "", profile |-> "", endpoint |-> "", token |-> ""]
Envs == [region : {"", "r3"}, defaultRegion : {"", "r4"}, profile : {"", "q"},
         endpoint : {"", "e2"}, token : {"", "t2"}]
\* ~/.aws/config: unreadable, with two regions, with one that is empty.
Configs == {<<>>, ("default" :> "r5") @@ ("q" :> "r6"), ("default" :> "") @@ ("q" :> "r6")}

Setup(o, e, c) == [options |-> o, env |-> e, config |-> c]
PlainSetup == Setup(<<>>, NoEnv, <<>>)
\* A space makes no URL, and an endpoint without a scheme has no host.
MCNoURL == {"us east", "//us east"}
MCNoHost == {"sts.local"}
BadSetups == {Setup(<<o>>, e, <<>>) : e \in {NoEnv, [NoEnv EXCEPT !.token = "t2"]},
                o \in {Opt("region", "us east"), Opt("endpoint", "//us east"), Opt("endpoint", "sts.local")}}
\* Every way to a region, and every way to an endpoint and a token.
RegionSetups ==
  {Setup(o, e, c) : o \in BoundedSeq({x \in Options : x.field = "region"}, 2),
                    e \in {e \in Envs : e.endpoint = "" /\ e.token = ""}, c \in Configs}
AccessSetups ==
  {Setup(o, e, <<>>) : o \in BoundedSeq(Options, 2), e \in {e \in Envs : e.profile = "" /\ e.defaultRegion = ""}}
MCSetups == BadSetups \cup RegionSetups \cup AccessSetups

Text(s) == [fields |-> s, text |-> FALSE]
Blocks == [fields : {f \in SUBSET ToSet(PointerFields) : Cardinality(f) <= 2}, text : BOOLEAN]
PlainInput == [model |-> <<"a">>, messages |-> <<<<[fields |-> {}, text |-> TRUE]>>>>,
               schemas |-> <<>>, choice |-> NoChoice, raw |-> "none"]
Models == {<<>>, <<"a">>, <<"a", ":", "b">>, <<"a", "/", "b">>, <<"a", "%", "b">>}
Messages == {<<>>} \cup {<<<<x>>>> : x \in Blocks}
              \cup {<<<<x>>, <<y, x>>>> : x, y \in {Text({}), Text({"toolUse"}), Text({"image", "toolUse"})}}
Inputs ==
  {[PlainInput EXCEPT !.model = m, !.messages = ms] : m \in Models, ms \in Messages}
    \cup {[PlainInput EXCEPT !.schemas = s, !.choice = c, !.raw = r] :
            s \in BoundedSeq(Schema, 2), c \in ToolChoice \cup {NoChoice},
            r \in {"none", "valid", "invalid"}}

\* Requests of other callers: the path of a model whose ID has a "/" and the same
\* with the "/" unescaped, two parameters, and a header with blanks.
PlainRequest ==
  [host |-> <<"h">>, plain |-> Path(<<"a", "/", "b">>), escaped |-> Path(<<"a", "/", "b">>),
   query |-> <<>>, body |-> <<>>, reader |-> "full", auth |-> NoAuth,
   headers |-> [n \in {"x-own"} |-> <<"a">>]]
Esc(c) == [char |-> c, escaped |-> TRUE]
Assigned(key, value) == [key |-> key, value |-> value, equals |-> TRUE]
Alone(key) == [key |-> key, value |-> <<>>, equals |-> FALSE]
\* "a" and an escaped "=" as keys, with values that have to be escaped or are not.
Parts == {Assigned(k, v) : k \in {<<Raw("a")>>, <<Raw("a"), Esc("=")>>},
                           v \in {<<>>, <<Raw("a")>>, <<Esc("&")>>}}
\* Without "="; with an escape that is not needed; empty, with one that is broken,
\* with a ";" and with a "+": the last four are not read as they stand.
OddParts == {Alone(<<Raw("a")>>), Assigned(<<Esc("a")>>, <<Raw("=")>>), Alone(<<>>),
             Assigned(<<Raw("a")>>, <<Raw("%")>>), Assigned(<<Raw("a"), Raw(";")>>, <<>>),
             Assigned(<<Raw("a")>>, <<Raw("+")>>)}
\* Parts whose order is another when they are escaped.
TurnedParts == {Assigned(<<c>>, <<>>) : c \in {Esc(":"), Raw("0"), Raw("a")}}
OwnRequests ==
  {[PlainRequest EXCEPT !.query = q] :
     q \in BoundedSeq(Parts, 3) \cup BoundedSeq(OddParts, 2) \cup BoundedSeq(TurnedParts, 2)}
    \cup {[PlainRequest EXCEPT !.headers = [n \in {"x-own"} |-> t]] : t \in BoundedSeq({"a", " ", "\t"}, 5)}
    \cup {[PlainRequest EXCEPT !.escaped = e] :
            e \in {Path(PathEscape(<<"a", "/", "b">>)), Path(<<"a">>), <<>>, <<"/">>}}
    \cup {[PlainRequest EXCEPT !.body = <<"json">>, !.reader = r] : r \in {"full", "broken"}}
    \cup {[PlainRequest EXCEPT !.host = <<>>]}

\* Regions and endpoints of the other callers.
NoOwn == [region |-> "r1", profile |-> "", endpoint |-> ""]
Owns == [region : {"", "r1", "us east"}, profile : {"", "r7"},
         endpoint : {"", "e3", "sts.local", "//us east"}]
World(c, s, o, i, r) == [caller |-> c, setup |-> s, own |-> o, input |-> i, request |-> r]
\* With setups that differ in the two variables that name a region.
FewSetups == {Setup(<<>>, [NoEnv EXCEPT !.region = r, !.defaultRegion = d], <<>>) :
                r \in {"", "r3"}, d \in {"", "r4"}}
RoleWorlds == {World("role", s, o, PlainInput, PlainRequest) : s \in FewSetups, o \in Owns}
OtherWorlds(requests) == {World("other", PlainSetup, NoOwn, PlainInput, r) : r \in requests}
MCWorlds ==
  {World("client", s, NoOwn, PlainInput, PlainRequest) : s \in MCSetups}
    \cup {World("client", PlainSetup, NoOwn, i, PlainRequest) : i \in Inputs}
    \cup RoleWorlds
    \cup OtherWorlds(OwnRequests)
    \cup {World("other", PlainSetup, [NoOwn EXCEPT !.region = ""], PlainInput, PlainRequest)}

\* A query of which url.ParseQuery leaves out a part.
DroppedWorlds ==
  OtherWorlds({[PlainRequest EXCEPT !.query = <<Assigned(<<Raw("b")>>, <<Raw("a")>>), p>>] : p \in Parts \cup OddParts})
==============================================================================
