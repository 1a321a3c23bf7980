----------------------------- MODULE RequestProofs -----------------------------
(***************************************************************************)
(* Proofs about Request, for any setups, inputs and requests, any set of   *)
(* characters and any number of attempts.                                  *)
(***************************************************************************)
EXTENDS Request, SetInduction

Fields == {"region", "endpoint", "token", "creds"}

-----------------------------------------------------------------------------
(* NewClient.                                                              *)

\* v is what the first n options of a setup say of a field.
Says(s, f, n, v) ==
  \/ v = "" /\ \A k \in 1..n : s.options[k].field # f
  \/ \E k \in 1..n : /\ s.options[k].field = f /\ v = s.options[k].value
                     /\ \A j \in (k + 1)..n : s.options[j].field # f

\* The options make a sequence, and what they and the environment say is text.
SetupInv ==
  /\ setup.options \in Seq(Option)
  /\ setup.env \in [region : STRING, defaultRegion : STRING, profile : STRING,
                    endpoint : STRING, token : STRING]
  /\ \A p \in DOMAIN setup.config : setup.config[p] \in STRING

ConfigTypeOK ==
  /\ phase \in {"options", "endpoint", "auth", "ready"} /\ applied \in 0..Len(setup.options)
  /\ client \in [region : STRING, endpoint : STRING, host : STRING, token : STRING, creds : STRING]

\* What each field is made from, as far as NewClient has come.
FromRegion ==
  IF phase = "options" THEN Says(setup, "region", applied, client.region)
  ELSE \E v \in STRING : /\ Says(setup, "region", Len(setup.options), v)
                         /\ client.region = FirstSet(<<v, ResolveRegion>>)

FromEndpoint ==
  IF phase \in {"options", "endpoint"}
    THEN /\ Says(setup, "endpoint", applied, client.endpoint) /\ client.host = ""
         /\ phase = "endpoint" => applied = Len(setup.options)
    ELSE \E v \in STRING :
           /\ Says(setup, "endpoint", Len(setup.options), v)
           /\ client.endpoint = FirstSet(<<v, setup.env.endpoint>>)
           /\ client.endpoint = "" => client.host = client.region

FromToken ==
  IF phase # "ready"
    THEN /\ Says(setup, "token", applied, client.token)
         /\ Says(setup, "creds", applied, client.creds)
         /\ phase # "options" => applied = Len(setup.options)
    ELSE /\ \E v \in STRING : /\ Says(setup, "token", Len(setup.options), v)
                              /\ client.token = FirstSet(<<v, setup.env.token>>)
         /\ \E v \in STRING : /\ Says(setup, "creds", Len(setup.options), v)
                              /\ client.creds = FirstSet(<<v, "chain">>)

ConfigInv == SetupInv /\ ConfigTypeOK /\ FromRegion /\ FromEndpoint /\ FromToken

\* The least member of a set of integers is its Min, the greatest its Max.
LEMMA MinMax ==
  ASSUME NEW T, T \subseteq Int, NEW m \in T
  PROVE  ((\A j \in T : m <= j) => Min(T) = m) /\ ((\A j \in T : j <= m) => Max(T) = m)
<1>1. ASSUME \A j \in T : m <= j PROVE Min(T) = m
  <2>1. \E x \in T : \A y \in T : x =< y
    BY <1>1
  <2>2. PICK x : x = Min(T)
    OBVIOUS
  <2>3. x \in T /\ \A y \in T : x =< y
    BY <2>1, <2>2 DEF Min
  <2>4. x = m
    BY <1>1, <2>3
  <2> QED BY <2>2, <2>4
<1>2. ASSUME \A j \in T : j <= m PROVE Max(T) = m
  <2>1. \E x \in T : \A y \in T : x >= y
    BY <1>2
  <2>2. PICK x : x = Max(T)
    OBVIOUS
  <2>3. x \in T /\ \A y \in T : x >= y
    BY <2>1, <2>2 DEF Max
  <2>4. x = m
    BY <1>2, <2>3
  <2> QED BY <2>2, <2>4
<1> QED BY <1>1, <1>2

\* Of two values the first counts if it is set.
LEMMA FirstOfTwo ==
  ASSUME NEW x, NEW y
  PROVE  FirstSet(<<x, y>>) = IF x # "" THEN x ELSE y
<1> DEFINE s == <<x, y>>
           I == {i \in 1..2 : s[i] # ""}
<1>1. Len(s) = 2 /\ s[1] = x /\ s[2] = y /\ 1..2 = {1, 2}
  OBVIOUS
<1>2. FirstSet(s) = IF I # {} THEN s[Min(I)] ELSE ""
  <2> HIDE DEF s
  <2> QED BY <1>1 DEF FirstSet, SelectInSeq
<1> HIDE DEF s
<1>3. \A i \in 1..2 : i \in I <=> s[i] # ""
  OBVIOUS
<1>4. I \subseteq 1..2
  OBVIOUS
<1> HIDE DEF I
<1>5. \A i \in I : (\A j \in I : i <= j) => Min(I) = i
  <2>1. I \subseteq Int
    BY <1>4
  <2> QED BY <2>1, MinMax, Zenon
<1>6. CASE x # ""
  <2>1. 1 \in I
    BY <1>1, <1>3, <1>6
  <2>2. Min(I) = 1
    BY <1>1, <1>4, <1>5, <2>1
  <2> QED BY <1>1, <1>2, <1>6, <2>1, <2>2 DEF s
<1>7. CASE x = "" /\ y # ""
  <2>1. 2 \in I /\ 1 \notin I
    BY <1>1, <1>3, <1>7
  <2>2. Min(I) = 2
    BY <1>1, <1>4, <1>5, <2>1
  <2> QED BY <1>1, <1>2, <1>7, <2>1, <2>2 DEF s
<1>8. CASE x = "" /\ y = ""
  <2>1. 1 \notin I /\ 2 \notin I
    BY <1>1, <1>3, <1>8
  <2>2. I = {}
    BY <1>1, <1>4, <2>1
  <2> QED BY <1>2, <1>8, <2>2 DEF s
<1> QED BY <1>6, <1>7, <1>8

OfFour(x, y, z, w) == IF x # "" THEN x ELSE IF y # "" THEN y ELSE IF z # "" THEN z ELSE w

\* Of four values the first that is set counts.
LEMMA FirstOfFour == \A x, y, z, w : FirstSet(<<x, y, z, w>>) = OfFour(x, y, z, w)
<1> TAKE x, y, z, w
<1> DEFINE s == <<x, y, z, w>>
           I == {i \in 1..4 : s[i] # ""}
<1>1. Len(s) = 4 /\ s[1] = x /\ s[2] = y /\ s[3] = z /\ s[4] = w /\ 1..4 = {1, 2, 3, 4}
  OBVIOUS
<1>2. FirstSet(s) = IF I # {} THEN s[Min(I)] ELSE ""
  <2> HIDE DEF s
  <2> QED BY <1>1 DEF FirstSet, SelectInSeq
<1> HIDE DEF s
<1>3. \A i \in 1..4 : i \in I <=> s[i] # ""
  OBVIOUS
<1>4. I \subseteq 1..4
  OBVIOUS
<1> HIDE DEF I
<1>5. \A i \in I : (\A j \in I : i <= j) => Min(I) = i
  <2>1. I \subseteq Int
    BY <1>4
  <2> QED BY <2>1, MinMax, Zenon
<1>6. CASE x # ""
  <2>1. 1 \in I
    BY <1>1, <1>3, <1>6
  <2>2. Min(I) = 1
    BY <1>1, <1>5, <1>4, <2>1
  <2> QED BY <1>1, <1>2, <1>6, <2>1, <2>2 DEF s, OfFour
<1>7. CASE x = "" /\ y # ""
  <2>1. 2 \in I /\ 1 \notin I
    BY <1>1, <1>3, <1>7
  <2>2. Min(I) = 2
    BY <1>1, <1>5, <1>4, <2>1
  <2> QED BY <1>1, <1>2, <1>7, <2>1, <2>2 DEF s, OfFour
<1>8. CASE x = "" /\ y = "" /\ z # ""
  <2>1. 3 \in I /\ 1 \notin I /\ 2 \notin I
    BY <1>1, <1>3, <1>8
  <2>2. Min(I) = 3
    BY <1>1, <1>5, <1>4, <2>1
  <2> QED BY <1>1, <1>2, <1>8, <2>1, <2>2 DEF s, OfFour
<1>9. CASE x = "" /\ y = "" /\ z = ""
  <2>1. 1 \notin I /\ 2 \notin I /\ 3 \notin I
    BY <1>1, <1>3, <1>9
  <2>2. CASE w = ""
    <3>1. I = {}
      BY <1>1, <1>3, <1>4, <2>1, <2>2
    <3> QED BY <1>2, <1>9, <2>2, <3>1 DEF s, OfFour
  <2>3. CASE w # ""
    <3>1. 4 \in I /\ I # {}
      BY <1>1, <1>3, <2>3
    <3>2. Min(I) = 4
      BY <1>1, <1>5, <1>4, <2>1, <3>1
    <3> QED BY <1>1, <1>2, <1>9, <3>1, <3>2 DEF s, OfFour
  <2> QED BY <2>2, <2>3
<1> QED BY <1>6, <1>7, <1>8, <1>9

\* What all the options say of a field is what Given reads from them.
LEMMA SaysGiven ==
  ASSUME SetupInv, NEW f, NEW v, Says(setup, f, Len(setup.options), v)
  PROVE  Given(f) = v
<1> DEFINE n == Len(setup.options)
           I == {i \in 1..n : setup.options[i].field = f}
           k == SelectLastInSeq(setup.options, LAMBDA o : o.field = f)
<1>1. n \in Nat
  BY LenProperties DEF SetupInv
<1>2. k = IF I # {} THEN Max(I) ELSE 0
  BY DEF SelectLastInSeq
<1>3. Given(f) = IF k = 0 THEN "" ELSE setup.options[k].value
  BY DEF Given
<1> HIDE DEF k
<1>4. CASE v = "" /\ \A i \in 1..n : setup.options[i].field # f
  <2>1. I = {}
    BY <1>4
  <2> QED BY <1>2, <1>3, <1>4, <2>1
<1>5. CASE \E i \in 1..n : /\ setup.options[i].field = f /\ v = setup.options[i].value
                           /\ \A j \in (i + 1)..n : setup.options[j].field # f
  <2>1. PICK i \in 1..n : /\ setup.options[i].field = f /\ v = setup.options[i].value
                          /\ \A j \in (i + 1)..n : setup.options[j].field # f
    BY <1>5
  <2>2. i \in I /\ I \subseteq 1..n
    BY <2>1
  <2>3. \A j \in I : i >= j
    <3> SUFFICES ASSUME NEW j \in I, ~(i >= j) PROVE FALSE
      OBVIOUS
    <3>1. j \in (i + 1)..n /\ setup.options[j].field = f
      BY <1>1
    <3> QED BY <2>1, <3>1
  <2> HIDE DEF I, n
  <2>4. I \subseteq Int /\ \A j \in I : j <= i
    BY <1>1, <2>2, <2>3
  <2>5. Max(I) = i
    BY <2>2, <2>4, MinMax
  <2>6. k = i /\ k # 0
    BY <1>1, <1>2, <2>1, <2>2, <2>5
  <2> QED BY <1>3, <2>1, <2>6
<1> QED BY <1>4, <1>5 DEF Says

\* One more option says its value of the field it names, and nothing of others.
LEMMA SaysMore ==
  ASSUME SetupInv, NEW n \in Nat, n + 1 \in 1..Len(setup.options), NEW f, NEW v, Says(setup, f, n, v)
  PROVE  LET o == setup.options[n + 1]
         IN Says(setup, f, n + 1, IF o.field = f THEN o.value ELSE v)
<1>1. CASE setup.options[n + 1].field = f
  <2>1. n + 1 \in 1..(n + 1) /\ \A j \in ((n + 1) + 1)..(n + 1) : FALSE
    OBVIOUS
  <2> QED BY <1>1, <2>1 DEF Says
<1>2. CASE setup.options[n + 1].field # f
  <2>1. \A k \in 1..(n + 1) : k \in 1..n \/ k = n + 1
    OBVIOUS
  <2>2. CASE v = "" /\ \A k \in 1..n : setup.options[k].field # f
    BY <1>2, <2>1, <2>2 DEF Says
  <2>3. CASE \E k \in 1..n : /\ setup.options[k].field = f /\ v = setup.options[k].value
                             /\ \A j \in (k + 1)..n : setup.options[j].field # f
    <3>1. PICK k \in 1..n : /\ setup.options[k].field = f /\ v = setup.options[k].value
                            /\ \A j \in (k + 1)..n : setup.options[j].field # f
      BY <2>3
    <3>2. \A j \in (k + 1)..(n + 1) : j \in (k + 1)..n \/ j = n + 1
      OBVIOUS
    <3>3. k \in 1..(n + 1) /\ \A j \in (k + 1)..(n + 1) : setup.options[j].field # f
      BY <1>2, <3>1, <3>2
    <3> QED BY <1>2, <3>1, <3>3 DEF Says
  <2> QED BY <2>2, <2>3 DEF Says
<1> QED BY <1>1, <1>2

\* Before the first option no field of the client is set.
LEMMA ConfigStarts == ConfigInit => ConfigInv
<1> SUFFICES ASSUME ConfigInit PROVE ConfigInv
  OBVIOUS
<1>1. SetupInv
  BY ConfigAssumption DEF ConfigInit, SetupInv
<1>2. Len(setup.options) \in Nat
  BY <1>1, LenProperties DEF SetupInv
<1>3. ConfigTypeOK
  <2>1. client = [region |-> "", endpoint |-> "", host |-> "", token |-> "", creds |-> ""]
    BY DEF ConfigInit
  <2>2. client \in [region : STRING, endpoint : STRING, host : STRING, token : STRING, creds : STRING]
    BY <2>1, QuotedAreStrings
  <2>3. phase = "options" /\ applied = 0
    BY DEF ConfigInit
  <2> QED BY <1>2, <2>2, <2>3 DEF ConfigTypeOK
<1>4. 1..0 = {}
  OBVIOUS
<1>5. \A f : Says(setup, f, 0, "")
  BY <1>4 DEF Says
<1>6. /\ applied = 0 /\ phase = "options" /\ client.region = "" /\ client.endpoint = ""
      /\ client.host = "" /\ client.token = "" /\ client.creds = ""
  BY DEF ConfigInit
<1> QED BY <1>1, <1>3, <1>5, <1>6 DEF ConfigInv, FromRegion, FromEndpoint, FromToken

\* What the environment and the file answer is text, and the region is never "".
LEMMA RegionIsText ==
  ASSUME SetupInv
  PROVE  ResolveRegion \in STRING \ {""} /\ \A v, w \in STRING : FirstSet(<<v, w>>) \in STRING
<1>1. RegionFromProfile \in STRING
  <2> DEFINE p == FirstSet(<<setup.env.profile, DefaultProfile>>)
  <2>1. RegionFromProfile = IF p \in DOMAIN setup.config THEN setup.config[p] ELSE ""
    BY DEF RegionFromProfile
  <2>2. p \in DOMAIN setup.config => setup.config[p] \in STRING
    BY DEF SetupInv
  <2>3. "" \in STRING
    BY QuotedAreStrings
  <2> HIDE DEF p
  <2> QED BY <2>1, <2>2, <2>3
<1>2. DefaultRegion \in STRING \ {""}
  BY ConfigAssumption
<1>3. setup.env.region \in STRING /\ setup.env.defaultRegion \in STRING
  BY DEF SetupInv
<1>4. \A v, w \in STRING : FirstSet(<<v, w>>) \in STRING
  <2> SUFFICES ASSUME NEW v \in STRING, NEW w \in STRING PROVE FirstSet(<<v, w>>) \in STRING
    OBVIOUS
  <2>1. FirstSet(<<v, w>>) = IF v # "" THEN v ELSE w
    BY FirstOfTwo
  <2> QED BY <2>1
<1>5. ResolveRegion = IF setup.env.region # "" THEN setup.env.region
                      ELSE IF setup.env.defaultRegion # "" THEN setup.env.defaultRegion
                      ELSE IF RegionFromProfile # "" THEN RegionFromProfile ELSE DefaultRegion
  <2>1. ResolveRegion =
          FirstSet(<<setup.env.region, setup.env.defaultRegion, RegionFromProfile, DefaultRegion>>)
    BY DEF ResolveRegion
  <2>2. ResolveRegion =
          OfFour(setup.env.region, setup.env.defaultRegion, RegionFromProfile, DefaultRegion)
    BY <2>1, FirstOfFour
  <2> QED BY <2>2 DEF OfFour
<1> QED BY <1>1, <1>2, <1>3, <1>4, <1>5

\* An option is the last one so far to say something of its field.
LEMMA OptionStep == ASSUME ConfigInv, ApplyOption PROVE ConfigInv'
<1> DEFINE o == setup.options[applied + 1]
           n == applied
<1>1. /\ phase = "options" /\ phase' = phase /\ setup' = setup
      /\ client' = [client EXCEPT ![o.field] = o.value]
      /\ n < Len(setup.options) /\ applied' = n + 1
  BY DEF ApplyOption
<1>2. n \in Nat /\ Len(setup.options) \in Nat /\ n + 1 \in 1..Len(setup.options)
  <2>1. applied \in 0..Len(setup.options) /\ Len(setup.options) \in Nat
    BY LenProperties DEF ConfigInv, ConfigTypeOK, SetupInv
  <2> QED BY <1>1, <2>1
<1>3. o \in Option
  BY <1>2, ElementOfSeq DEF ConfigInv, SetupInv
<1> HIDE DEF o
<1>4. o.field \in Fields /\ o.value \in STRING
  BY <1>3 DEF Option, Fields
<1>5. client \in [region : STRING, endpoint : STRING, host : STRING, token : STRING, creds : STRING]
  BY DEF ConfigInv, ConfigTypeOK
<1>6. /\ client' \in [region : STRING, endpoint : STRING, host : STRING, token : STRING, creds : STRING]
      /\ client'.host = client.host
      /\ client'.region = IF o.field = "region" THEN o.value ELSE client.region
      /\ client'.endpoint = IF o.field = "endpoint" THEN o.value ELSE client.endpoint
      /\ client'.token = IF o.field = "token" THEN o.value ELSE client.token
      /\ client'.creds = IF o.field = "creds" THEN o.value ELSE client.creds
  <2>1. CASE o.field = "region"
    BY <1>1, <1>4, <1>5, <2>1
  <2>2. CASE o.field = "endpoint"
    BY <1>1, <1>4, <1>5, <2>2
  <2>3. CASE o.field = "token"
    BY <1>1, <1>4, <1>5, <2>3
  <2>4. CASE o.field = "creds"
    BY <1>1, <1>4, <1>5, <2>4
  <2> QED BY <1>4, <2>1, <2>2, <2>3, <2>4 DEF Fields
<1>7. SetupInv
  BY DEF ConfigInv
<1>8. /\ Says(setup, "region", n, client.region) /\ Says(setup, "endpoint", n, client.endpoint)
      /\ Says(setup, "token", n, client.token) /\ client.host = ""
      /\ Says(setup, "creds", n, client.creds)
  BY <1>1 DEF ConfigInv, FromRegion, FromEndpoint, FromToken
<1>9. \A f, v : Says(setup, f, n, v) => Says(setup, f, n + 1, IF o.field = f THEN o.value ELSE v)
  BY <1>2, <1>7, SaysMore DEF o
<1>10. /\ Says(setup, "region", n + 1, client'.region) /\ Says(setup, "endpoint", n + 1, client'.endpoint)
       /\ Says(setup, "token", n + 1, client'.token)
       /\ Says(setup, "creds", n + 1, client'.creds)
  BY <1>6, <1>8, <1>9, Zenon
<1>11. SetupInv' /\ ConfigTypeOK'
  <2>1. SetupInv'
    BY <1>1, <1>7 DEF SetupInv
  <2>2. applied' \in 0..Len(setup.options)
    BY <1>1, <1>2
  <2> QED BY <1>1, <1>6, <2>1, <2>2 DEF ConfigTypeOK
<1>12. FromRegion'
  BY <1>1, <1>10 DEF FromRegion
<1>13. FromEndpoint'
  BY <1>1, <1>6, <1>8, <1>10 DEF FromEndpoint
<1>14. FromToken'
  BY <1>1, <1>10 DEF FromToken
<1> QED BY <1>11, <1>12, <1>13, <1>14 DEF ConfigInv

\* The region is what the options say or, for want of that, what is resolved.
LEMMA RegionStep == ASSUME ConfigInv, SetRegion PROVE ConfigInv'
<1> DEFINE v == client.region
           n == Len(setup.options)
<1>1. /\ phase = "options" /\ phase' = "endpoint" /\ setup' = setup
      /\ applied = n /\ applied' = applied
      /\ client' = [client EXCEPT !.region = FirstSet(<<v, ResolveRegion>>)]
  BY DEF SetRegion
<1>2. SetupInv /\ ConfigTypeOK
  BY DEF ConfigInv
<1>3. v \in STRING /\ FirstSet(<<v, ResolveRegion>>) \in STRING
  <2>1. v \in STRING
    BY <1>2 DEF ConfigTypeOK
  <2> QED BY <1>2, <2>1, RegionIsText
<1>4. /\ client' \in [region : STRING, endpoint : STRING, host : STRING, token : STRING, creds : STRING]
      /\ client'.region = FirstSet(<<v, ResolveRegion>>) /\ client'.host = client.host
      /\ client'.endpoint = client.endpoint /\ client'.token = client.token
      /\ client'.creds = client.creds
  BY <1>1, <1>2, <1>3 DEF ConfigTypeOK
<1>5. /\ Says(setup, "region", n, v) /\ Says(setup, "endpoint", n, client.endpoint)
      /\ Says(setup, "token", n, client.token) /\ client.host = ""
      /\ Says(setup, "creds", n, client.creds)
  BY <1>1 DEF ConfigInv, FromRegion, FromEndpoint, FromToken
<1>6. ResolveRegion' = ResolveRegion
  BY <1>1 DEF ResolveRegion, RegionFromProfile
<1>7. SetupInv' /\ ConfigTypeOK'
  <2>1. SetupInv'
    BY <1>1, <1>2 DEF SetupInv
  <2>2. applied' \in 0..Len(setup'.options)
    BY <1>1, <1>2 DEF ConfigTypeOK
  <2> QED BY <1>1, <1>4, <2>1, <2>2 DEF ConfigTypeOK
<1>8. FromRegion'
  <2>1. phase' # "options" /\ Says(setup', "region", Len(setup'.options), v)
    BY <1>1, <1>5
  <2>2. client'.region = FirstSet(<<v, ResolveRegion'>>)
    BY <1>4, <1>6
  <2> HIDE DEF v
  <2> QED BY <1>3, <2>1, <2>2 DEF FromRegion
<1>9. FromEndpoint'
  BY <1>1, <1>4, <1>5 DEF FromEndpoint
<1>10. FromToken'
  BY <1>1, <1>4, <1>5 DEF FromToken
<1> QED BY <1>7, <1>8, <1>9, <1>10 DEF ConfigInv

\* The endpoint is what is given, and without one the host has the region's name.
LEMMA EndpointStep == ASSUME ConfigInv, SetEndpoint PROVE ConfigInv'
<1> DEFINE v == client.endpoint
           n == Len(setup.options)
           given == FirstSet(<<v, setup.env.endpoint>>)
<1>1. /\ phase = "endpoint" /\ phase' = "auth" /\ setup' = setup /\ applied' = applied
      /\ client' = [client EXCEPT !.endpoint = given,
                                  !.host = IF given = "" THEN client.region ELSE ""]
  BY DEF SetEndpoint, Derived
<1>2. SetupInv /\ ConfigTypeOK
  BY DEF ConfigInv
<1>3. v \in STRING /\ given \in STRING /\ client.region \in STRING /\ "" \in STRING
  <2>1. v \in STRING /\ client.region \in STRING
    BY <1>2 DEF ConfigTypeOK
  <2>2. setup.env.endpoint \in STRING
    BY <1>2 DEF SetupInv
  <2> QED BY <1>2, <2>1, <2>2, RegionIsText, QuotedAreStrings
<1> HIDE DEF given
<1>4. /\ client' \in [region : STRING, endpoint : STRING, host : STRING, token : STRING, creds : STRING]
      /\ client'.region = client.region /\ client'.token = client.token
      /\ client'.creds = client.creds
      /\ client'.endpoint = given /\ (given = "" => client'.host = client.region)
  <2>1. client \in [region : STRING, endpoint : STRING, host : STRING, token : STRING, creds : STRING]
    BY <1>2 DEF ConfigTypeOK
  <2>2. CASE given = ""
    BY <1>1, <1>3, <2>1, <2>2
  <2>3. CASE given # ""
    BY <1>1, <1>3, <2>1, <2>3
  <2> QED BY <2>2, <2>3
<1>5. /\ \E w \in STRING : /\ Says(setup, "region", n, w)
                           /\ client.region = FirstSet(<<w, ResolveRegion>>)
      /\ Says(setup, "endpoint", n, v) /\ Says(setup, "token", n, client.token)
      /\ Says(setup, "creds", n, client.creds) /\ applied = n
  BY <1>1 DEF ConfigInv, FromRegion, FromEndpoint, FromToken
<1>6. ResolveRegion' = ResolveRegion
  BY <1>1 DEF ResolveRegion, RegionFromProfile
<1>7. SetupInv' /\ ConfigTypeOK'
  <2>1. SetupInv'
    BY <1>1, <1>2 DEF SetupInv
  <2>2. applied' \in 0..Len(setup'.options)
    BY <1>1, <1>2 DEF ConfigTypeOK
  <2> QED BY <1>1, <1>4, <2>1, <2>2 DEF ConfigTypeOK
<1>8. FromRegion'
  <2>1. PICK w \in STRING : /\ Says(setup, "region", n, w)
                            /\ client.region = FirstSet(<<w, ResolveRegion>>)
    BY <1>5
  <2>2. phase' # "options" /\ Says(setup', "region", Len(setup'.options), w)
    BY <1>1, <2>1
  <2>3. client'.region = FirstSet(<<w, ResolveRegion'>>)
    BY <1>4, <1>6, <2>1
  <2> QED BY <2>2, <2>3 DEF FromRegion
<1>9. FromEndpoint'
  <2>1. Says(setup', "endpoint", Len(setup'.options), v) /\ phase' = "auth"
    BY <1>1, <1>5
  <2>2. client'.endpoint = FirstSet(<<v, setup'.env.endpoint>>)
    BY <1>1, <1>4 DEF given
  <2>3. client'.endpoint = "" => client'.host = client'.region
    BY <1>4
  <2> HIDE DEF v
  <2> QED BY <1>3, <2>1, <2>2, <2>3 DEF FromEndpoint
<1>10. FromToken'
  BY <1>1, <1>4, <1>5 DEF FromToken
<1> QED BY <1>7, <1>8, <1>9, <1>10 DEF ConfigInv

\* The token is that of the options or the environment.
LEMMA AuthStep == ASSUME ConfigInv, SetAuth PROVE ConfigInv'
<1> DEFINE v == client.token
           u == client.creds
           n == Len(setup.options)
           token == FirstSet(<<v, setup.env.token>>)
           creds == FirstSet(<<u, "chain">>)
<1>1. /\ phase = "auth" /\ phase' = "ready" /\ setup' = setup /\ applied' = applied
      /\ client' = [client EXCEPT !.token = token, !.creds = creds]
  BY DEF SetAuth
<1>2. SetupInv /\ ConfigTypeOK
  BY DEF ConfigInv
<1>3. v \in STRING /\ u \in STRING /\ token \in STRING /\ creds \in STRING
  <2>1. v \in STRING /\ u \in STRING /\ "chain" \in STRING
    BY <1>2, QuotedAreStrings DEF ConfigTypeOK
  <2>2. setup.env.token \in STRING
    BY <1>2 DEF SetupInv
  <2> QED BY <1>2, <2>1, <2>2, RegionIsText
<1> HIDE DEF token, creds
<1>4. /\ client' \in [region : STRING, endpoint : STRING, host : STRING, token : STRING, creds : STRING]
      /\ client'.region = client.region /\ client'.endpoint = client.endpoint
      /\ client'.host = client.host /\ client'.token = token /\ client'.creds = creds
  BY <1>1, <1>2, <1>3 DEF ConfigTypeOK
<1>5. /\ \E w \in STRING : /\ Says(setup, "region", n, w)
                           /\ client.region = FirstSet(<<w, ResolveRegion>>)
      /\ \E w \in STRING : /\ Says(setup, "endpoint", n, w)
                           /\ client.endpoint = FirstSet(<<w, setup.env.endpoint>>)
      /\ client.endpoint = "" => client.host = client.region
      /\ Says(setup, "token", n, v) /\ Says(setup, "creds", n, u)
  BY <1>1 DEF ConfigInv, FromRegion, FromEndpoint, FromToken
<1>6. ResolveRegion' = ResolveRegion
  BY <1>1 DEF ResolveRegion, RegionFromProfile
<1>7. SetupInv' /\ ConfigTypeOK'
  <2>1. SetupInv'
    BY <1>1, <1>2 DEF SetupInv
  <2>2. applied' \in 0..Len(setup'.options)
    BY <1>1, <1>2 DEF ConfigTypeOK
  <2> QED BY <1>1, <1>4, <2>1, <2>2 DEF ConfigTypeOK
<1>8. FromRegion'
  <2>1. PICK w \in STRING : /\ Says(setup, "region", n, w)
                            /\ client.region = FirstSet(<<w, ResolveRegion>>)
    BY <1>5
  <2>2. phase' # "options" /\ Says(setup', "region", Len(setup'.options), w)
    BY <1>1, <2>1
  <2>3. client'.region = FirstSet(<<w, ResolveRegion'>>)
    BY <1>4, <1>6, <2>1
  <2> QED BY <2>2, <2>3 DEF FromRegion
<1>9. FromEndpoint'
  <2>1. PICK w \in STRING : /\ Says(setup, "endpoint", n, w)
                            /\ client.endpoint = FirstSet(<<w, setup.env.endpoint>>)
    BY <1>5
  <2>2. Says(setup', "endpoint", Len(setup'.options), w) /\ phase' = "ready"
    BY <1>1, <2>1
  <2>3. client'.endpoint = FirstSet(<<w, setup'.env.endpoint>>)
    BY <1>1, <1>4, <2>1
  <2>4. client'.endpoint = "" => client'.host = client'.region
    BY <1>4, <1>5
  <2> QED BY <2>2, <2>3, <2>4 DEF FromEndpoint
<1>10. FromToken'
  <2>1. Says(setup', "token", Len(setup'.options), v) /\ phase' = "ready"
    BY <1>1, <1>5
  <2>2. client'.token = FirstSet(<<v, setup'.env.token>>)
    BY <1>1, <1>4 DEF token
  <2>3. Says(setup', "creds", Len(setup'.options), u) /\ client'.creds = FirstSet(<<u, "chain">>)
    BY <1>1, <1>4, <1>5 DEF creds
  <2> HIDE DEF v, u
  <2> QED BY <1>3, <2>1, <2>2, <2>3 DEF FromToken
<1> QED BY <1>7, <1>8, <1>9, <1>10 DEF ConfigInv

\* Nothing else touches what NewClient works on.
LEMMA ConfigStep == ConfigInv /\ [RequestNext]_requestVars => ConfigInv'
<1> SUFFICES ASSUME ConfigInv, [RequestNext]_requestVars PROVE ConfigInv'
  OBVIOUS
<1>1. ASSUME UNCHANGED configVars PROVE ConfigInv'
  <2>1. setup' = setup /\ applied' = applied /\ client' = client /\ phase' = phase
    BY <1>1 DEF configVars
  <2>2. ResolveRegion' = ResolveRegion
    BY <2>1 DEF ResolveRegion, RegionFromProfile
  <2>3. SetupInv' /\ ConfigTypeOK' /\ FromEndpoint' /\ FromToken'
    BY <2>1 DEF ConfigInv, SetupInv, ConfigTypeOK, FromEndpoint, FromToken
  <2>4. FromRegion'
    BY <2>1, <2>2 DEF ConfigInv, FromRegion
  <2> QED BY <2>3, <2>4 DEF ConfigInv
<1>2. CASE Configure
  BY <1>2, OptionStep, RegionStep, EndpointStep, AuthStep DEF Configure, NewClient
<1>3. CASE UNCHANGED requestVars
  BY <1>1, <1>3 DEF requestVars
<1>4. CASE \/ BuildBody \/ NewAttempt \/ BearAuth \/ SignAuth \/ Send \/ Unsendable
           \/ SignOwn \/ AssumeRole
  BY <1>1, <1>4 DEF BuildBody, NewAttempt, BearAuth, SignAuth, Send, Unsendable, SignOwn, AssumeRole
<1> QED BY <1>2, <1>3, <1>4 DEF RequestNext

\* As far as NewClient has come, each field of the client is what the options
\* and the environment say of it.
THEOREM ConfigInvariance == RequestSpec => []ConfigInv
<1>1. RequestInit => ConfigInv
  BY ConfigStarts DEF RequestInit
<1> QED BY <1>1, ConfigStep, PTL DEF RequestSpec

\* NewClient takes each value from the first of the documented places that has
\* one, whatever the options, the environment and the file.
THEOREM DocumentedOrder == RequestSpec => []ClientAsDocumented
<1>1. ASSUME ConfigInv, phase = "ready" PROVE ClientAsDocumented
  <2>1. SetupInv
    BY <1>1 DEF ConfigInv
  <2>2. PICK r \in STRING : /\ Says(setup, "region", Len(setup.options), r)
                            /\ client.region = FirstSet(<<r, ResolveRegion>>)
    BY <1>1 DEF ConfigInv, FromRegion
  <2>3. PICK x \in STRING : /\ Says(setup, "endpoint", Len(setup.options), x)
                            /\ client.endpoint = FirstSet(<<x, setup.env.endpoint>>)
                            /\ client.endpoint = "" => client.host = client.region
    BY <1>1 DEF ConfigInv, FromEndpoint
  <2>4. PICK t \in STRING : /\ Says(setup, "token", Len(setup.options), t)
                            /\ client.token = FirstSet(<<t, setup.env.token>>)
    BY <1>1 DEF ConfigInv, FromToken
  <2>13. PICK c \in STRING : /\ Says(setup, "creds", Len(setup.options), c)
                             /\ client.creds = FirstSet(<<c, "chain">>)
    BY <1>1 DEF ConfigInv, FromToken
  <2>5. /\ Given("region") = r /\ Given("endpoint") = x /\ Given("token") = t
        /\ Given("creds") = c
    BY <2>1, <2>2, <2>3, <2>4, <2>13, SaysGiven
  <2> DEFINE e == setup.env
             p == IF e.profile = "" THEN DefaultProfile ELSE e.profile
             ofProfile == IF p \in DOMAIN setup.config THEN setup.config[p] ELSE ""
             first(y) == y # "" /\ client.region = y
  <2>6. FirstSet(<<e.profile, DefaultProfile>>) = p
    <3>1. FirstSet(<<e.profile, DefaultProfile>>) = IF e.profile # "" THEN e.profile ELSE DefaultProfile
      BY FirstOfTwo
    <3> QED BY <3>1
  <2>7. RegionFromProfile = ofProfile
    BY <2>6 DEF RegionFromProfile
  <2> HIDE DEF ofProfile
  <2>8. ResolveRegion = IF e.region # "" THEN e.region
                        ELSE IF e.defaultRegion # "" THEN e.defaultRegion
                        ELSE IF ofProfile # "" THEN ofProfile ELSE DefaultRegion
    <3>1. ResolveRegion = FirstSet(<<e.region, e.defaultRegion, ofProfile, DefaultRegion>>)
      BY <2>7 DEF ResolveRegion
    <3>2. ResolveRegion = OfFour(e.region, e.defaultRegion, ofProfile, DefaultRegion)
      BY <3>1, FirstOfFour
    <3> QED BY <3>2 DEF OfFour
  <2>9. /\ client.region = IF r # "" THEN r ELSE ResolveRegion
        /\ client.endpoint = IF x # "" THEN x ELSE e.endpoint
        /\ client.token = IF t # "" THEN t ELSE e.token
        /\ client.creds = IF c # "" THEN c ELSE "chain"
    BY <2>2, <2>3, <2>4, <2>13, FirstOfTwo
  <2>10. DefaultRegion # ""
    BY ConfigAssumption
  <2>11. \/ first(r)
         \/ r = "" /\ first(e.region)
         \/ r = "" /\ e.region = "" /\ first(e.defaultRegion)
         \/ /\ r = "" /\ e.region = "" /\ e.defaultRegion = ""
            /\ first(ofProfile) \/ (ofProfile = "" /\ first(DefaultRegion))
    BY <2>8, <2>9, <2>10
  <2>12. /\ \/ client.endpoint = x /\ client.endpoint # ""
            \/ x = "" /\ client.endpoint = e.endpoint /\ e.endpoint # ""
            \/ x = "" /\ e.endpoint = "" /\ client.host = client.region
         /\ client.token = IF t # "" THEN t ELSE e.token
         /\ client.creds = IF c # "" THEN c ELSE "chain"
    BY <2>3, <2>9
  <2> QED BY <2>5, <2>11, <2>12 DEF ClientAsDocumented, ofProfile
<1>2. ConfigInv => ClientAsDocumented
  BY <1>1 DEF ClientAsDocumented
<1> QED BY <1>2, ConfigInvariance, PTL

-----------------------------------------------------------------------------
(* The body.                                                               *)

\* There are finitely many pointer fields.
LEMMA FieldsFinite == IsFiniteSet(ToSet(PointerFields))
<1>1. DOMAIN PointerFields = 1..5 /\ IsFiniteSet(1..5)
  <2>1. DOMAIN PointerFields = 1..5
    BY DEF PointerFields
  <2>2. IsFiniteSet(1..5)
    <3>1. 1 \in Int /\ 5 \in Int
      OBVIOUS
    <3> QED BY <3>1, FS_Interval, Zenon
  <2> QED BY <2>1, <2>2
<1>2. PointerFields \in Surjection(1..5, ToSet(PointerFields))
  <2>1. PointerFields \in [1..5 -> ToSet(PointerFields)]
    <3>1. PointerFields = [k \in 1..5 |-> PointerFields[k]]
      BY DEF PointerFields
    <3>2. \A k \in 1..5 : PointerFields[k] \in ToSet(PointerFields)
      BY <1>1 DEF ToSet
    <3> QED BY <3>1, <3>2
  <2>2. \A t \in ToSet(PointerFields) : \E k \in 1..5 : PointerFields[k] = t
    BY <1>1 DEF ToSet
  <2> QED BY <2>1, <2>2 DEF Surjection
<1> QED BY <1>1, <1>2, FS_Surjection

\* The only field of a block is the member it becomes, alone; without a field the
\* block is its text.
LEMMA MemberIsField ==
  ASSUME NEW b \in Block, Count(b) <= 1
  PROVE  \/ b.fields = {} /\ Member(b) = [member |-> "text", text |-> b.text]
         \/ b.fields = {Member(b).member} /\ ~Member(b).text
<1>1. b.fields \subseteq ToSet(PointerFields)
  BY DEF Block
<1>2. CASE b.fields = {}
  BY <1>2 DEF Member
<1>3. CASE b.fields # {}
  <2>1. IsFiniteSet(ToSet(PointerFields))
    BY FieldsFinite
  <2>2. IsFiniteSet(b.fields) /\ Cardinality(b.fields) \in Nat /\ Cardinality(b.fields) # 0
    BY <1>1, <1>3, <2>1, FS_Subset, FS_CardinalityType, FS_EmptySet
  <2>3. Cardinality(b.fields) = 1
    BY <2>2 DEF Count
  <2>4. PICK x : b.fields = {x}
    BY <2>2, <2>3, FS_Singleton
  <2> DEFINE I == {k \in 1..Len(PointerFields) : PointerFields[k] \in b.fields}
  <2>5. /\ Member(b).member = PointerFields[IF I # {} THEN Min(I) ELSE 0]
        /\ Member(b).text = FALSE
    BY <1>3 DEF Member, SelectInSeq
  <2>6. Len(PointerFields) = 5 /\ DOMAIN PointerFields = 1..5
    BY DEF PointerFields
  <2>7. PICK i \in 1..5 : PointerFields[i] = x
    BY <1>1, <2>4, <2>6 DEF ToSet
  <2>8. \A j, k \in 1..5 : PointerFields[j] = PointerFields[k] => j = k
    BY DEF PointerFields
  <2>9. I = {i}
    BY <2>4, <2>6, <2>7, <2>8
  <2>10. Min({i}) = i
    BY MinMax
  <2>11. Member(b).member = x
    BY <2>5, <2>7, <2>9, <2>10
  <2> QED BY <2>4, <2>5, <2>11
<1> QED BY <1>2, <1>3

\* The schemas of a body that is built are objects.
LEMMA SchemasAreObjects ==
  ASSUME NEW in \in Input, ~Build(in).error
  PROVE  Build(in).tools.schemas \in Seq({"object", "empty"})
<1>1. Build(in).tools = ToolConfig(in)
  BY DEF Build, RefusedBody
<1>2. Len(in.schemas) \in Nat
  BY LenProperties DEF Input
<1>3. \A s : Normalize(s) \in {"object", "empty"}
  BY DEF Normalize
<1>4. ToolConfig(in).schemas = [k \in 1..Len(in.schemas) |-> Normalize(in.schemas[k])]
  BY DEF ToolConfig
<1> QED BY <1>1, <1>2, <1>3, <1>4

\* What buildRequestBody says of an input, as BodySaysInput asks.
BodySays(in, made) ==
  IF made.error
    THEN \/ in.model = <<>> \/ in.messages = <<>> \/ in.raw = "invalid"
         \/ \E m \in ToSet(in.messages) : \E b \in ToSet(m) : Cardinality(b.fields) > 1
         \/ in.choice.type = "unknown"
         \/ in.choice.type = "tool" /\ ~in.choice.named
    ELSE /\ Len(made.messages) = Len(in.messages) /\ in.messages # <<>>
         /\ \A k \in 1..Len(in.messages) :
              /\ Len(made.messages[k]) = Len(in.messages[k])
              /\ \A j \in 1..Len(in.messages[k]) :
                   LET b == in.messages[k][j]  m == made.messages[k][j]
                   IN \/ b.fields = {} /\ m = [member |-> "text", text |-> b.text]
                      \/ b.fields = {m.member} /\ ~m.text
         /\ Len(made.tools.schemas) = Len(in.schemas)
         /\ \A k \in 1..Len(in.schemas) :
              made.tools.schemas[k] = "object" <=> in.schemas[k] = "object"
         /\ made.tools.present <=> (in.schemas # <<>> \/ in.choice # NoChoice)
         /\ made.tools.choice = in.choice /\ made.raw = in.raw
         /\ in.choice.type # "unknown"
         /\ in.choice.type = "tool" => in.choice.named

\* buildRequestBody drops no block, no tool and no choice, and refuses an input
\* only for a reason.
LEMMA BuildSays == \A in \in Input : BodySays(in, Build(in))
<1> SUFFICES ASSUME NEW in \in Input PROVE BodySays(in, Build(in))
  OBVIOUS
<1>1. /\ in.messages \in Seq(Seq(Block)) /\ in.schemas \in Seq(Schema)
      /\ in.choice \in ToolChoice \cup {NoChoice}
  BY DEF Input
<1>2. \A m \in ToSet(in.messages) : \A b \in ToSet(m) : b \in Block
  <2>1. \A m \in ToSet(in.messages) : m \in Seq(Block)
    BY <1>1, ElementOfSeq, LenProperties DEF ToSet
  <2> QED BY <2>1, ElementOfSeq, LenProperties DEF ToSet
<1>3. \A b \in Block : Count(b) <= 1 \/ Cardinality(b.fields) > 1
  <2> SUFFICES ASSUME NEW b \in Block PROVE Cardinality(b.fields) <= 1 \/ Cardinality(b.fields) > 1
    BY DEF Count
  <2>1. IsFiniteSet(ToSet(PointerFields))
    BY FieldsFinite
  <2>2. Cardinality(b.fields) \in Nat
    BY <2>1, FS_Subset, FS_CardinalityType DEF Block
  <2> QED BY <2>2
<1>4. ChoiceMarshals(in.choice) \/ in.choice.type = "unknown"
        \/ (in.choice.type = "tool" /\ ~in.choice.named)
  BY <1>1 DEF ChoiceMarshals, ToolChoice
<1>5. CASE in.model = <<>> \/ in.messages = <<>> \/ ~Marshals(in)
  <2>1. Build(in) = RefusedBody /\ RefusedBody.error
    BY <1>5 DEF Build, RefusedBody
  <2>2. ~Marshals(in) =>
          \/ in.raw = "invalid" \/ ~ChoiceMarshals(in.choice)
          \/ \E m \in ToSet(in.messages) : \E b \in ToSet(m) : Cardinality(b.fields) > 1
    BY <1>2, <1>3 DEF Marshals
  <2> QED BY <1>4, <1>5, <2>1, <2>2 DEF BodySays
<1>6. CASE ~(in.model = <<>> \/ in.messages = <<>> \/ ~Marshals(in))
  <2> DEFINE made == Build(in)
  <2>1. /\ made.error = FALSE
        /\ made.messages = [k \in 1..Len(in.messages) |->
                              [j \in 1..Len(in.messages[k]) |-> Member(in.messages[k][j])]]
        /\ made.tools = ToolConfig(in) /\ made.raw = in.raw
    BY <1>6 DEF Build
  <2> HIDE DEF made
  <2>2. Len(in.messages) \in Nat /\ Len(in.schemas) \in Nat
    BY <1>1, LenProperties
  <2>3. Len(made.messages) = Len(in.messages)
    BY <2>1, <2>2
  <2>4. ASSUME NEW k \in 1..Len(in.messages), NEW j \in 1..Len(in.messages[k])
        PROVE  LET b == in.messages[k][j]  m == made.messages[k][j]
               IN \/ b.fields = {} /\ m = [member |-> "text", text |-> b.text]
                  \/ b.fields = {m.member} /\ ~m.text
    <3>1. in.messages[k] \in ToSet(in.messages) /\ in.messages[k] \in Seq(Block)
      BY <1>1, ElementOfSeq, LenProperties DEF ToSet
    <3>2. in.messages[k][j] \in ToSet(in.messages[k])
      BY <3>1, LenProperties DEF ToSet
    <3>3. in.messages[k][j] \in Block /\ Count(in.messages[k][j]) <= 1
      BY <1>2, <1>6, <3>1, <3>2 DEF Marshals
    <3>4. made.messages[k][j] = Member(in.messages[k][j])
      BY <2>1
    <3> QED BY <3>3, <3>4, MemberIsField
  <2>5. /\ Len(made.tools.schemas) = Len(in.schemas) /\ made.tools.choice = in.choice
        /\ made.tools.present = (in.schemas # <<>> \/ in.choice # NoChoice)
        /\ \A k \in 1..Len(in.schemas) : made.tools.schemas[k] = Normalize(in.schemas[k])
    BY <2>1, <2>2 DEF ToolConfig
  <2>8. \A k \in 1..Len(in.schemas) :
          made.tools.schemas[k] = "object" <=> in.schemas[k] = "object"
    BY <2>5 DEF Normalize
  <2>9. ASSUME NEW k \in 1..Len(in.messages)
        PROVE  Len(made.messages[k]) = Len(in.messages[k])
    <3>1. in.messages[k] \in Seq(Block)
      BY <1>1, ElementOfSeq
    <3>2. Len(in.messages[k]) \in Nat
      BY <3>1, LenProperties
    <3>3. made.messages[k] = [j \in 1..Len(in.messages[k]) |-> Member(in.messages[k][j])]
      BY <2>1
    <3> QED BY <3>2, <3>3
  <2>6. ChoiceMarshals(in.choice)
    BY <1>6 DEF Marshals
  <2>7. in.choice.type # "unknown" /\ (in.choice.type = "tool" => in.choice.named)
    BY <2>6 DEF ChoiceMarshals, NoChoice
  <2> QED BY <1>6, <2>1, <2>3, <2>4, <2>5, <2>7, <2>8, <2>9 DEF BodySays, made
<1> QED BY <1>5, <1>6

-----------------------------------------------------------------------------
(* The attempts.                                                           *)

RequestFields == {"host", "plain", "escaped", "query", "body", "reader", "auth", "headers"}

\* Types; a body is the one that buildRequestBody makes of the input.
TypeInv ==
  /\ input \in Input
  /\ body.error \/ body = Build(input)
  /\ now \in 1..Len(Dates)
  /\ DOMAIN req = RequestFields /\ req.reader \in {"full", "drained", "broken"}
  /\ own \in Own
  /\ sent \in Seq(ToSet(sent))

\* Who does what: only a client makes attempts, with its body built and its
\* configuration complete, and one is under way only while another is allowed.
FlowInv ==
  /\ call \in {"config", "own", "role", "attempt", "auth", "send", "done", "failed", "panicked"}
  /\ caller \in {"client", "role", "other"}
  /\ caller = "other" => call \in {"own", "send", "done", "failed"}
  /\ caller = "role" => call \in {"role", "send", "done", "failed", "panicked"}
  /\ caller = "client" =>
       /\ call \notin {"own", "role", "panicked"}
       /\ (call # "config" => phase = "ready" /\ body = Build(input))
  /\ Len(sent) <= MaxAttempts
  /\ call \in {"config", "own", "role", "attempt", "auth", "send"} => Len(sent) < MaxAttempts
  /\ call \in {"config", "own", "role"} => sent = <<>>

\* A new request has all its fields, and its body has not been read.
LEMMA FreshFields == DOMAIN Fresh = RequestFields /\ Fresh.reader = "full"
BY DEF Fresh, RequestFields

\* So has the one to STS, and still if it has been signed.
LEMMA RoleFields ==
  /\ DOMAIN RoleRequest = RequestFields /\ RoleRequest.reader = "full"
  /\ \A cred, date, region :
       LET r == Sign(RoleRequest, cred, date, region)
       IN DOMAIN r = RequestFields /\ r.reader = "full"
<1>1. DOMAIN RoleRequest = RequestFields /\ RoleRequest.reader = "full"
  BY DEF RoleRequest, RequestFields
<1>2. ASSUME NEW q, DOMAIN q = RequestFields, NEW cred, NEW date, NEW region
      PROVE  LET r == Sign(q, cred, date, region)
             IN DOMAIN r = RequestFields /\ r.reader = "full"
  BY <1>2 DEF Sign, RequestFields
<1> QED BY <1>1, <1>2

\* One more request that is sent.
LEMMA SentMore ==
  ASSUME sent \in Seq(ToSet(sent)), NEW r
  PROVE  LET more == Append(sent, r)
         IN /\ more \in Seq(ToSet(more)) /\ Len(more) = Len(sent) + 1
            /\ \A k \in 1..Len(sent) : more[k] = sent[k]
            /\ more[Len(sent) + 1] = r
<1> DEFINE T == ToSet(sent) \cup {r}
           more == Append(sent, r)
<1>1. sent \in Seq(T)
  <2>1. \A k \in 1..Len(sent) : sent[k] \in T
    BY ElementOfSeq
  <2>2. sent = [k \in 1..Len(sent) |-> sent[k]] /\ Len(sent) \in Nat
    BY LenProperties
  <2> HIDE DEF T
  <2> QED BY <2>1, <2>2
<1>2. /\ more \in Seq(T) /\ Len(more) = Len(sent) + 1 /\ Len(sent) \in Nat
      /\ \A k \in 1..Len(sent) : more[k] = sent[k]
      /\ more[Len(sent) + 1] = r
  <2> HIDE DEF T
  <2> QED BY <1>1, AppendProperties, LenProperties DEF T
<1>3. more \in Seq(ToSet(more))
  <2>1. DOMAIN more = 1..Len(more) /\ Len(more) \in Nat /\ more = [k \in 1..Len(more) |-> more[k]]
    BY <1>2, LenProperties
  <2>2. \A k \in 1..Len(more) : more[k] \in ToSet(more)
    BY <2>1 DEF ToSet
  <2> HIDE DEF more
  <2> QED BY <2>1, <2>2
<1> QED BY <1>2, <1>3

\* At first nothing is built or sent.
LEMMA RequestStarts == RequestInit => TypeInv /\ FlowInv
<1> SUFFICES ASSUME RequestInit PROVE TypeInv /\ FlowInv
  OBVIOUS
<1>1. PICK w \in Worlds : /\ caller = w.caller /\ setup = w.setup /\ own = w.own
                         /\ input = w.input /\ req = w.request
  BY DEF RequestInit
<1>2. /\ w.caller \in {"client", "role", "other"} /\ w.own \in Own
      /\ w.input \in Input /\ Unsigned(w.request)
  BY RequestAssumption
<1>3. /\ body = RefusedBody /\ now = 1 /\ sent = <<>>
      /\ caller = "client" => call = "config"
      /\ caller = "role" => call = "role"
      /\ caller = "other" => call = "own"
  BY DEF RequestInit
<1>4. 1 \in 1..Len(Dates) /\ MaxAttempts \in Nat /\ 0 < MaxAttempts
  <2>1. Dates \in Seq(Texts) /\ Dates # <<>> /\ MaxAttempts \in Nat \ {0}
    BY RequestAssumption
  <2>2. Len(Dates) \in Nat /\ Len(Dates) # 0
    BY <2>1, LenProperties, EmptySeq
  <2> QED BY <2>1, <2>2
<1>5. sent \in Seq(ToSet(sent)) /\ Len(sent) = 0
  BY <1>3
<1>6. TypeInv
  BY <1>1, <1>2, <1>3, <1>4, <1>5 DEF TypeInv, Unsigned, RequestFields, RefusedBody
<1>7. FlowInv
  BY <1>1, <1>2, <1>3, <1>4, <1>5 DEF FlowInv
<1> QED BY <1>6, <1>7

\* Each step keeps the types and the order of the steps.
LEMMA FlowStep ==
  ASSUME TypeInv, FlowInv, [RequestNext]_requestVars
  PROVE  TypeInv' /\ FlowInv'
<1>1. MaxAttempts \in Nat /\ Len(Dates) \in Nat /\ Len(sent) \in Nat
  BY RequestAssumption, LenProperties DEF TypeInv
<1>2. CASE UNCHANGED requestVars
  BY <1>2 DEF requestVars, configVars, TypeInv, FlowInv
<1>10. ASSUME UNCHANGED <<configVars, caller, own, input, body, req, now, sent>>,
              \/ call = "role" /\ call' = "panicked"
              \/ call \in {"attempt", "send"} /\ call' = "failed"
       PROVE  TypeInv' /\ FlowInv'
  BY <1>10 DEF configVars, TypeInv, FlowInv
<1>3. CASE Configure
  BY <1>3 DEF Configure, TypeInv, FlowInv
<1>4. CASE BuildBody
  BY <1>4 DEF BuildBody, configVars, TypeInv, FlowInv
<1>5. CASE NewAttempt
  <2>1. CASE req' = req /\ call' = "failed"
    BY <1>5, <1>10, <2>1 DEF NewAttempt
  <2>2. CASE req' = Begun /\ call' = "auth"
    <3>1. /\ call = "attempt" /\ UNCHANGED <<configVars, caller, own, input, body, now, sent>>
          /\ req' = Fresh
      BY <1>5, <2>2 DEF NewAttempt, Begun
    <3>2. TypeInv'
      BY <3>1, FreshFields DEF TypeInv
    <3>3. FlowInv'
      BY <2>2, <3>1 DEF configVars, FlowInv
    <3> QED BY <3>2, <3>3
  <2> QED BY <1>5, <2>1, <2>2 DEF NewAttempt
<1>11. CASE Unsendable
  BY <1>10, <1>11 DEF Unsendable
<1>12. CASE AssumeRole
  <2>1. call = "role" /\ UNCHANGED <<configVars, caller, own, input, body, now, sent>>
    BY <1>12 DEF AssumeRole
  <2>2. CASE req' = req /\ call' = "panicked"
    BY <1>10, <2>1, <2>2
  <2>3. CASE call' = "send" /\ DOMAIN req' = RequestFields /\ req'.reader = "full"
    BY <2>1, <2>3 DEF configVars, TypeInv, FlowInv
  <2>4. (req' = req /\ call' = "panicked") \/ (call' = "send" /\ DOMAIN req' = RequestFields /\ req'.reader = "full")
    BY <1>12, RoleFields DEF AssumeRole
  <2> QED BY <2>2, <2>3, <2>4
<1>6. CASE BearAuth
  <2>1. /\ DOMAIN req' = DOMAIN req /\ req'.reader = req.reader
        /\ UNCHANGED <<own, input, body, now, sent>>
    BY <1>6 DEF BearAuth, TypeInv, RequestFields
  <2>2. TypeInv'
    BY <2>1 DEF TypeInv
  <2>3. FlowInv'
    BY <1>6 DEF BearAuth, configVars, FlowInv
  <2> QED BY <2>2, <2>3
<1>7. CASE SignAuth
  <2>1. /\ DOMAIN req' = DOMAIN req /\ req'.reader \in {req.reader, "full"}
        /\ UNCHANGED <<own, input, body, sent>>
    BY <1>7 DEF SignAuth, Sign, TypeInv, RequestFields
  <2>2. now' \in 1..Len(Dates)
    <3>1. now' \in now..Len(Dates) /\ now \in 1..Len(Dates)
      BY <1>7 DEF SignAuth, TypeInv
    <3> QED BY <1>1, <3>1
  <2>3. TypeInv'
    BY <2>1, <2>2 DEF TypeInv
  <2>4. call' \in {"send", "failed"} /\ call = "auth"
    BY <1>7 DEF SignAuth
  <2>5. FlowInv'
    BY <1>7, <2>4 DEF SignAuth, configVars, FlowInv
  <2> QED BY <2>3, <2>5
<1>8. CASE Send
  <2>1. /\ call = "send" /\ sent' = Append(sent, req) /\ req' = [req EXCEPT !.reader = "drained"]
        /\ call' \in IF caller = "client" /\ Len(sent') < MaxAttempts THEN {"done", "attempt"} ELSE {"done"}
        /\ UNCHANGED <<configVars, caller, own, input, body, now>>
    BY <1>8 DEF Send
  <2>2. sent' \in Seq(ToSet(sent')) /\ Len(sent') = Len(sent) + 1
    BY <2>1, SentMore DEF TypeInv
  <2>3. DOMAIN req' = DOMAIN req /\ req'.reader = "drained"
    BY <2>1 DEF TypeInv, RequestFields
  <2>4. TypeInv'
    BY <2>1, <2>2, <2>3 DEF TypeInv
  <2>5. Len(sent') <= MaxAttempts
    BY <1>1, <2>1, <2>2 DEF FlowInv
  <2>6. FlowInv'
    <3>1. CASE call' = "done"
      BY <2>1, <2>5, <3>1 DEF FlowInv, configVars
    <3>2. CASE call' # "done"
      BY <2>1, <2>5, <3>2 DEF FlowInv, configVars
    <3> QED BY <3>1, <3>2
  <2> QED BY <2>4, <2>6
<1>9. CASE SignOwn
  <2>1. /\ DOMAIN req' = DOMAIN req /\ req'.reader \in {req.reader, "full"}
        /\ UNCHANGED <<own, input, body, now, sent>>
    BY <1>9 DEF SignOwn, Sign, TypeInv, RequestFields
  <2>2. TypeInv'
    BY <2>1 DEF TypeInv
  <2>3. call' \in {"send", "failed"} /\ call = "own"
    BY <1>9 DEF SignOwn
  <2>4. FlowInv'
    BY <1>9, <2>3 DEF SignOwn, configVars, FlowInv
  <2> QED BY <2>2, <2>4
<1> QED BY <1>2, <1>3, <1>4, <1>5, <1>6, <1>7, <1>8, <1>9, <1>11, <1>12 DEF RequestNext

\* The types, and who may take which step when, hold throughout.
THEOREM FlowInvariance == RequestSpec => [](TypeInv /\ FlowInv)
<1>1. TypeInv /\ FlowInv /\ [RequestNext]_requestVars => (TypeInv /\ FlowInv)'
  BY FlowStep
<1> QED BY <1>1, RequestStarts, PTL DEF RequestSpec

\* The variables have their types: a body's schemas are objects, and no call
\* sends more than MaxAttempts requests.
THEOREM RequestTyped == RequestSpec => []RequestTypeOK
<1>1. ConfigInv /\ TypeInv /\ FlowInv => RequestTypeOK
  <2> SUFFICES ASSUME ConfigInv, TypeInv, FlowInv PROVE RequestTypeOK
    OBVIOUS
  <2>1. body.error \/ body.tools.schemas \in Seq({"object", "empty"})
    BY SchemasAreObjects DEF TypeInv
  <2>2. ConfigTypeOK
    BY DEF ConfigInv
  <2> QED BY <2>1, <2>2 DEF RequestTypeOK, ConfigTypeOK, TypeInv, FlowInv
<1> QED BY <1>1, ConfigInvariance, FlowInvariance, PTL

\* A body that is built says what the input says, and an input is refused only
\* for a reason, whatever the messages, the tools and the choice.
THEOREM BodyFaithful == RequestSpec => []BodySaysInput
<1>1. TypeInv /\ FlowInv => BodySaysInput
  <2> SUFFICES ASSUME TypeInv, FlowInv, call # "config", caller = "client" PROVE BodySays(input, body)
    BY DEF BodySaysInput, BodySays
  <2>1. body = Build(input) /\ input \in Input
    BY DEF TypeInv, FlowInv
  <2> QED BY <2>1, BuildSays
<1> QED BY <1>1, FlowInvariance, PTL

-----------------------------------------------------------------------------
(* What escapes leave of a text.                                           *)

\* What is made of a character if those in K are left alone.
Code(K, c) == IF c \in DOMAIN Reserved \ K THEN <<"%", Reserved[c]>> ELSE <<c>>

Coded(K, s) == [k \in 1..Len(s) |-> Code(K, s[k])]

\* What is made of the first n.
CodeOf(K, s, n) == FlattenSeq(FirstOf(Coded(K, s), n))

\* The percent sign and the slash are reserved, and the digits that stand for
\* a reserved character are its own.
LEMMA Digits ==
  /\ "%" \in Letters /\ "/" \in Letters /\ "%" \in DOMAIN Reserved /\ "/" \in DOMAIN Reserved
  /\ "%" # "/" /\ Reserved["%"] = "25"
  /\ \A c \in DOMAIN Reserved : Reserved[c] \in Letters /\ Reserved[c] \notin DOMAIN Reserved
  /\ \A c, d \in DOMAIN Reserved : Reserved[c] = Reserved[d] => c = d
BY TextAssumption, QuotedAreStrings DEF Letters

\* A character behind a text, and what is left of a character behind a text.
Ending(u, c) == u \o <<c>>
After(K, u, c) == u \o Code(K, c)

\* What stands before the last character is the rest.
LEMMA Ends ==
  ASSUME NEW u \in Texts, NEW v \in Texts, NEW c \in Letters, NEW d \in Letters
  PROVE  /\ Ending(u, c) \in Texts /\ Ending(u, c) # <<>>
         /\ Ending(u, c) = Ending(v, d) => u = v /\ c = d
<1>1. ASSUME NEW w \in Texts, NEW e \in Letters
      PROVE  /\ Ending(w, e) \in Texts /\ Len(Ending(w, e)) = Len(w) + 1 /\ Len(w) \in Nat
             /\ Ending(w, e)[Len(w) + 1] = e
             /\ \A k \in 1..Len(w) : Ending(w, e)[k] = w[k]
  <2>1. <<e>> \in Seq(Letters) /\ Len(<<e>>) = 1 /\ <<e>>[1] = e
    OBVIOUS
  <2>2. /\ w \o <<e>> \in Texts /\ Len(w \o <<e>>) = Len(w) + 1 /\ Len(w) \in Nat
        /\ \A i \in 1..(Len(w) + 1) : (w \o <<e>>)[i] = IF i <= Len(w) THEN w[i] ELSE <<e>>[i - Len(w)]
    BY <2>1, ConcatProperties, LenProperties DEF Texts
  <2> QED BY <2>1, <2>2 DEF Ending
<1>2. ASSUME Ending(u, c) = Ending(v, d) PROVE u = v /\ c = d
  <2>1. /\ Len(Ending(u, c)) = Len(u) + 1 /\ Len(Ending(v, d)) = Len(v) + 1
        /\ Len(u) \in Nat /\ Len(v) \in Nat
    BY <1>1
  <2>2. Len(u) = Len(v)
    BY <1>2, <2>1
  <2>3. ASSUME NEW k \in 1..Len(u) PROVE u[k] = v[k]
    <3>1. k \in 1..Len(v)
      BY <2>2
    <3>2. Ending(u, c)[k] = u[k]
      BY <1>1
    <3>3. Ending(v, d)[k] = v[k]
      BY <1>1, <3>1
    <3> QED BY <1>2, <3>2, <3>3
  <2>4. u = v
    BY <2>2, <2>3, SeqEqual DEF Texts
  <2>5. c = d
    BY <1>1, <1>2, <2>4
  <2> QED BY <2>4, <2>5
<1>3. Ending(u, c) # <<>>
  <2>1. Len(Ending(u, c)) = Len(u) + 1 /\ Len(u) \in Nat
    BY <1>1
  <2>2. Len(Ending(u, c)) # 0
    BY <2>1
  <2>3. Len(<<>>) = 0
    BY EmptySeq
  <2> QED BY <2>2, <2>3
<1> QED BY <1>1, <1>2, <1>3

\* One or two characters are a text.
LEMMA OneLetter ==
  ASSUME NEW c \in Letters, NEW d \in Letters
  PROVE  /\ <<c>> \in Texts /\ Len(<<c>>) = 1 /\ <<c>>[1] = c
         /\ <<d, c>> \in Texts /\ <<c>> # <<>> /\ <<d, c>> # <<>>
<1>1. <<c>> \in Seq(Letters) /\ Len(<<c>>) = 1 /\ <<c>>[1] = c
  OBVIOUS
<1>2. <<d, c>> \in Seq(Letters) /\ <<c>> # <<>> /\ <<d, c>> # <<>>
  OBVIOUS
<1> QED BY <1>1, <1>2 DEF Texts

\* A character leaves itself behind, or a percent sign and two digits.
LEMMA AfterForms ==
  ASSUME NEW K, "%" \notin K, NEW u \in Texts, NEW c \in Letters
  PROVE  /\ After(K, u, c) \in Texts /\ After(K, u, c) # <<>>
         /\ \/ After(K, u, c) = Ending(u, c) /\ c # "%" /\ (c \in K \/ c \notin DOMAIN Reserved)
            \/ /\ After(K, u, c) = Ending(Ending(u, "%"), Reserved[c])
               /\ c \in DOMAIN Reserved /\ c \notin K
<1>1. CASE c \in K \/ c \notin DOMAIN Reserved
  <2>1. Code(K, c) = <<c>> /\ c # "%"
    BY <1>1, Digits DEF Code
  <2>2. After(K, u, c) = Ending(u, c)
    BY <2>1 DEF After, Ending
  <2> QED BY <1>1, <2>1, <2>2, Ends
<1>2. CASE c \notin K /\ c \in DOMAIN Reserved
  <2> DEFINE h == Reserved[c]
  <2>1. Code(K, c) = <<"%", h>> /\ h \in Letters /\ "%" \in Letters
    BY <1>2, Digits DEF Code
  <2> HIDE DEF h
  <2>2. <<"%">> \in Texts /\ <<h>> \in Texts /\ <<"%", h>> = <<"%">> \o <<h>>
    <3>1. ASSUME NEW x \in Letters, NEW y \in Letters PROVE <<x, y>> = <<x>> \o <<y>>
      <4>1. <<x>> \in Seq(Letters) /\ <<y>> \in Seq(Letters) /\ Len(<<x>>) = 1 /\ Len(<<y>>) = 1
            /\ <<x>>[1] = x /\ <<y>>[1] = y
        OBVIOUS
      <4>2. <<x, y>> \in Seq(Letters) /\ Len(<<x, y>>) = 2 /\ <<x, y>>[1] = x /\ <<x, y>>[2] = y
        OBVIOUS
      <4> DEFINE p == <<x>>
                 q == <<y>>
                 r == <<x, y>>
      <4> HIDE DEF p, q, r
      <4>3. /\ p \o q \in Seq(Letters) /\ Len(p \o q) = 2
            /\ \A i \in 1..2 : (p \o q)[i] = IF i <= 1 THEN p[i] ELSE q[i - 1]
        BY <4>1, ConcatProperties DEF p, q
      <4>4. (p \o q)[1] = x /\ (p \o q)[2] = y
        BY <4>1, <4>3 DEF p, q
      <4>5. \A i \in 1..2 : i = 1 \/ i = 2
        OBVIOUS
      <4>6. \A i \in 1..2 : r[i] = (p \o q)[i]
        BY <4>2, <4>4, <4>5 DEF r
      <4>7. r \in Seq(Letters) /\ Len(r) = 2
        BY <4>2 DEF r
      <4>8. r = p \o q
        BY <4>3, <4>6, <4>7, SeqEqual
      <4> QED BY <4>8 DEF p, q, r
    <3> QED BY <2>1, <3>1, OneLetter
  <2>3. (u \o <<"%">>) \o <<h>> = u \o (<<"%">> \o <<h>>)
    BY <2>2, ConcatAssociative DEF Texts
  <2>4. After(K, u, c) = (u \o <<"%">>) \o <<h>>
    BY <2>1, <2>2, <2>3 DEF After
  <2>5. After(K, u, c) = Ending(Ending(u, "%"), h)
    BY <2>4 DEF Ending
  <2> QED BY <1>2, <2>1, <2>5, Ends DEF h
<1> QED BY <1>1, <1>2

\* The pieces of a text are texts.
LEMMA CodedType ==
  ASSUME NEW K, NEW s \in Texts
  PROVE  /\ Coded(K, s) \in Seq(Texts) /\ Len(Coded(K, s)) = Len(s) /\ Len(s) \in Nat
         /\ \A k \in 1..Len(s) : Coded(K, s)[k] = Code(K, s[k]) /\ s[k] \in Letters
<1>1. Len(s) \in Nat /\ \A k \in 1..Len(s) : s[k] \in Letters
  BY LenProperties, ElementOfSeq DEF Texts
<1>2. \A c \in Letters : Code(K, c) \in Texts
  <2> SUFFICES ASSUME NEW c \in Letters PROVE Code(K, c) \in Texts
    OBVIOUS
  <2>1. CASE c \in DOMAIN Reserved \ K
    BY <2>1, Digits, OneLetter DEF Code
  <2>2. CASE c \notin DOMAIN Reserved \ K
    BY <2>2, OneLetter DEF Code
  <2> QED BY <2>1, <2>2
<1>3. \A k \in 1..Len(s) : Code(K, s[k]) \in Texts
  BY <1>1, <1>2
<1> QED BY <1>1, <1>3 DEF Coded

\* One more character leaves one more piece behind.
LEMMA CodeNext ==
  ASSUME NEW K, "%" \notin K, NEW s \in Texts
  PROVE  /\ CodeOf(K, s, 0) = <<>>
         /\ CodeOf(K, s, Len(s)) = FlattenSeq(Coded(K, s))
         /\ \A n \in 0..Len(s) : CodeOf(K, s, n) \in Texts
         /\ \A n \in Nat : n + 1 <= Len(s) => CodeOf(K, s, n + 1) = After(K, CodeOf(K, s, n), s[n + 1])
<1>1. /\ Coded(K, s) \in Seq(Texts) /\ Len(Coded(K, s)) = Len(s) /\ Len(s) \in Nat
      /\ \A k \in 1..Len(s) : Coded(K, s)[k] = Code(K, s[k])
  BY CodedType
<1>2. CodeOf(K, s, 0) = <<>>
  <2>1. FirstOf(Coded(K, s), 0) = <<>>
    BY <1>1, FirstOfNext
  <2> QED BY <2>1, Flatten DEF CodeOf
<1>3. CodeOf(K, s, Len(s)) = FlattenSeq(Coded(K, s))
  BY <1>1, FirstOfNext DEF CodeOf
<1>4. \A n \in 0..Len(s) :
        /\ CodeOf(K, s, n) \in Texts
        /\ n + 1 <= Len(s) => CodeOf(K, s, n + 1) = CodeOf(K, s, n) \o Coded(K, s)[n + 1]
  BY <1>1, FlattenNext DEF CodeOf, Texts
<1>5. ASSUME NEW n \in Nat, n + 1 <= Len(s)
      PROVE  CodeOf(K, s, n + 1) = After(K, CodeOf(K, s, n), s[n + 1])
  <2>1. n \in 0..Len(s) /\ n + 1 \in 1..Len(s)
    BY <1>1, <1>5
  <2>2. CodeOf(K, s, n + 1) = CodeOf(K, s, n) \o Code(K, s[n + 1])
    BY <1>1, <1>4, <1>5, <2>1
  <2> QED BY <2>2 DEF After
<1> QED BY <1>2, <1>3, <1>4, <1>5

\* The percent sign itself is reserved: nothing that is left ends in one.
LEMMA NoPercentAtEnd ==
  ASSUME NEW K, "%" \notin K, NEW s \in Texts, NEW n \in 0..Len(s), NEW u \in Texts
  PROVE  CodeOf(K, s, n) # Ending(u, "%")
<1>1. Len(s) \in Nat /\ "%" \in Letters
  BY CodedType, Digits
<1>2. CASE n = 0
  BY <1>1, <1>2, CodeNext, Ends
<1>3. CASE n # 0
  <2>1. PICK m \in Nat : n = m + 1 /\ m \in 0..Len(s) /\ n \in 1..Len(s)
    <3>1. n - 1 \in Nat /\ n = (n - 1) + 1 /\ n - 1 \in 0..Len(s) /\ n \in 1..Len(s)
      BY <1>1, <1>3
    <3> QED BY <3>1
  <2> DEFINE p == CodeOf(K, s, m)
             c == s[n]
  <2>2. CodeOf(K, s, n) = After(K, p, c) /\ p \in Texts /\ c \in Letters
    BY <1>1, <2>1, CodeNext, CodedType
  <2> HIDE DEF p, c
  <2>3. CASE After(K, p, c) = Ending(p, c) /\ c # "%"
    BY <1>1, <2>2, <2>3, Ends
  <2>4. CASE After(K, p, c) = Ending(Ending(p, "%"), Reserved[c]) /\ c \in DOMAIN Reserved
    <3>1. Reserved[c] \in Letters /\ Reserved[c] # "%" /\ Ending(p, "%") \in Texts
      BY <1>1, <2>2, <2>4, Digits, Ends
    <3> QED BY <1>1, <2>2, <2>4, <3>1, Ends
  <2> QED BY <2>2, <2>3, <2>4, AfterForms
<1> QED BY <1>2, <1>3

\* The same text is left only of the same text.
LEMMA LastCode ==
  ASSUME NEW K, "%" \notin K, NEW u \in Texts, NEW v \in Texts, NEW c \in Letters, NEW d \in Letters,
         After(K, u, c) = After(K, v, d),
         \A w \in Texts : u # Ending(w, "%") /\ v # Ending(w, "%")
  PROVE  u = v /\ c = d
<1>1. "%" \in Letters /\ Ending(u, "%") \in Texts /\ Ending(v, "%") \in Texts
  BY Digits, Ends
<1>2. \A e \in DOMAIN Reserved : Reserved[e] \in Letters
  BY Digits
<1>3. CASE After(K, u, c) = Ending(u, c) /\ After(K, v, d) = Ending(v, d)
  BY <1>3, Ends
<1>4. CASE After(K, u, c) = Ending(u, c) /\ After(K, v, d) = Ending(Ending(v, "%"), Reserved[d])
             /\ d \in DOMAIN Reserved
  <2>1. u = Ending(v, "%")
    BY <1>1, <1>2, <1>4, Ends
  <2> QED BY <2>1
<1>5. CASE After(K, v, d) = Ending(v, d) /\ After(K, u, c) = Ending(Ending(u, "%"), Reserved[c])
             /\ c \in DOMAIN Reserved
  <2>1. v = Ending(u, "%")
    BY <1>1, <1>2, <1>5, Ends
  <2> QED BY <2>1
<1>6. CASE /\ After(K, u, c) = Ending(Ending(u, "%"), Reserved[c]) /\ c \in DOMAIN Reserved
           /\ After(K, v, d) = Ending(Ending(v, "%"), Reserved[d]) /\ d \in DOMAIN Reserved
  <2> DEFINE g == Reserved[c]
             h == Reserved[d]
             p == Ending(u, "%")
             q == Ending(v, "%")
  <2>a. g \in Letters /\ h \in Letters /\ p \in Texts /\ q \in Texts /\ Ending(p, g) = Ending(q, h)
    BY <1>1, <1>2, <1>6
  <2>1. p = q /\ g = h
    <3> HIDE DEF g, h, p, q
    <3> QED BY <2>a, Ends
  <2>2. u = v
    BY <1>1, <2>1, Ends
  <2> QED BY <1>6, <2>1, <2>2, Digits
<1> QED BY <1>3, <1>4, <1>5, <1>6, AfterForms

\* By induction from the end: equal codes, equal texts.
LEMMA CodeInjective ==
  ASSUME NEW K, "%" \notin K, NEW s \in Texts, NEW t \in Texts,
         FlattenSeq(Coded(K, s)) = FlattenSeq(Coded(K, t))
  PROVE  s = t
<1> DEFINE A == {n \in Nat : \A m \in 0..Len(t) :
                   n <= Len(s) /\ CodeOf(K, s, n) = CodeOf(K, t, m) =>
                     n = m /\ \A k \in 1..n : s[k] = t[k]}
<1>1. Len(s) \in Nat /\ Len(t) \in Nat
  BY CodedType
<1>2. ASSUME NEW w \in Texts, NEW m \in 0..Len(w), m # 0
      PROVE  /\ m - 1 \in 0..Len(w) /\ w[m] \in Letters
             /\ CodeOf(K, w, m) = After(K, CodeOf(K, w, m - 1), w[m])
             /\ CodeOf(K, w, m - 1) \in Texts /\ CodeOf(K, w, m) # <<>>
  <2>1. Len(w) \in Nat
    BY CodedType
  <2>2. m - 1 \in Nat /\ (m - 1) + 1 = m /\ m - 1 \in 0..Len(w) /\ m \in 1..Len(w)
    BY <1>2, <2>1
  <2>3. CodeOf(K, w, (m - 1) + 1) = After(K, CodeOf(K, w, m - 1), w[(m - 1) + 1])
    BY <2>1, <2>2, CodeNext
  <2>4. CodeOf(K, w, m - 1) \in Texts /\ w[m] \in Letters
    BY <2>2, CodeNext, CodedType
  <2>5. CodeOf(K, w, m) = After(K, CodeOf(K, w, m - 1), w[m])
    BY <2>2, <2>3
  <2>6. CodeOf(K, w, m) # <<>>
    BY <2>4, <2>5, AfterForms
  <2> QED BY <2>2, <2>4, <2>5, <2>6
<1>3. 0 \in A
  <2> SUFFICES ASSUME NEW m \in 0..Len(t), CodeOf(K, s, 0) = CodeOf(K, t, m)
               PROVE  0 = m /\ \A k \in 1..0 : s[k] = t[k]
    OBVIOUS
  <2>1. CodeOf(K, s, 0) = <<>>
    BY CodeNext
  <2>2. m = 0
    BY <1>2, <2>1
  <2>3. \A k \in 1..0 : FALSE
    OBVIOUS
  <2> QED BY <2>2, <2>3
<1>4. ASSUME NEW n \in Nat, n \in A PROVE n + 1 \in A
  <2> SUFFICES ASSUME NEW m \in 0..Len(t), n + 1 <= Len(s), CodeOf(K, s, n + 1) = CodeOf(K, t, m)
               PROVE  n + 1 = m /\ \A k \in 1..(n + 1) : s[k] = t[k]
    OBVIOUS
  <2>1. /\ n + 1 \in 0..Len(s) /\ n + 1 # 0 /\ (n + 1) - 1 = n /\ n \in 0..Len(s) /\ n <= Len(s)
    BY <1>1
  <2>2. /\ CodeOf(K, s, n + 1) = After(K, CodeOf(K, s, n), s[n + 1]) /\ CodeOf(K, s, n) \in Texts
        /\ s[n + 1] \in Letters /\ CodeOf(K, s, n + 1) # <<>>
    BY <1>2, <2>1
  <2>3. m # 0
    BY <2>2, CodeNext
  <2>4. /\ m - 1 \in 0..Len(t) /\ t[m] \in Letters
        /\ CodeOf(K, t, m) = After(K, CodeOf(K, t, m - 1), t[m]) /\ CodeOf(K, t, m - 1) \in Texts
    BY <1>2, <2>3
  <2>5. \A w \in Texts : CodeOf(K, s, n) # Ending(w, "%") /\ CodeOf(K, t, m - 1) # Ending(w, "%")
    BY <2>1, <2>4, NoPercentAtEnd
  <2>6. CodeOf(K, s, n) = CodeOf(K, t, m - 1) /\ s[n + 1] = t[m]
    BY <2>2, <2>4, <2>5, LastCode
  <2>7. n = m - 1 /\ \A k \in 1..n : s[k] = t[k]
    BY <1>4, <2>1, <2>4, <2>6
  <2>8. \A k \in 1..(n + 1) : k \in 1..n \/ k = n + 1
    OBVIOUS
  <2>9. n + 1 = m
    BY <1>1, <2>7
  <2> QED BY <2>6, <2>7, <2>8, <2>9
<1> HIDE DEF A
<1>5. Nat \subseteq A
  BY <1>3, <1>4, Induction
<1>6. CodeOf(K, s, Len(s)) = CodeOf(K, t, Len(t)) /\ Len(t) \in 0..Len(t) /\ Len(s) <= Len(s)
  BY <1>1, CodeNext
<1>7. Len(s) = Len(t) /\ \A k \in 1..Len(s) : s[k] = t[k]
  <2>1. Len(s) \in A
    BY <1>1, <1>5
  <2> QED BY <1>6, <2>1 DEF A
<1> QED BY <1>7, SeqEqual DEF Texts

-----------------------------------------------------------------------------
(* Paths.                                                                  *)

\* canonicalURI leaves the separators alone.
Slash == {"/"}

\* awsPathEscape of one character.
LEMMA EscapeOne ==
  ASSUME NEW c \in Letters
  PROVE  Escape(<<c>>) = IF c \in DOMAIN Reserved THEN <<"%", Reserved[c]>> ELSE <<c>>
<1> DEFINE e == IF c \in DOMAIN Reserved THEN <<"%", Reserved[c]>> ELSE <<c>>
<1>1. Len(<<c>>) = 1 /\ <<c>>[1] = c
  OBVIOUS
<1>2. [k \in 1..Len(<<c>>) |-> IF <<c>>[k] \in DOMAIN Reserved THEN <<"%", Reserved[<<c>>[k]]>>
                              ELSE <<<<c>>[k]>>] = <<e>>
  <2> DEFINE t == [k \in 1..Len(<<c>>) |-> IF <<c>>[k] \in DOMAIN Reserved
                     THEN <<"%", Reserved[<<c>>[k]]>> ELSE <<<<c>>[k]>>]
  <2>1. t[1] = e /\ DOMAIN t = 1..1
    BY <1>1
  <2>2. t = [k \in 1..1 |-> t[k]]
    BY <1>1
  <2> HIDE DEF t, e
  <2>3. t = <<e>>
    BY <2>1, <2>2
  <2> QED BY <2>3 DEF t
<1>3. e \in Texts
  <2>1. CASE c \in DOMAIN Reserved
    BY <2>1, Digits, OneLetter
  <2>2. <<c>> \in Texts
    BY OneLetter
  <2> QED BY <2>1, <2>2
<1>4. Escape(<<c>>) = FlattenSeq(<<e>>)
  BY <1>2 DEF Escape
<1> HIDE DEF e
<1>5. Escape(<<c>>) = e
  BY <1>3, <1>4, Flatten DEF Texts
<1> QED BY <1>5 DEF e

\* canonicalURI works character by character.
LEMMA CanonicalIsCode ==
  ASSUME NEW url, url.escaped \in Texts
  PROVE  /\ OnWire(url.escaped) \in Texts \ {<<>>}
         /\ CanonicalURI(url) = FlattenSeq(Coded(Slash, OnWire(url.escaped)))
<1> DEFINE s == url.escaped
<1>1. CASE s = <<>>
  <2>1. OnWire(s) = <<"/">> /\ CanonicalURI(url) = <<"/">>
    BY <1>1 DEF OnWire, CanonicalURI
  <2>2. <<"/">> \in Texts /\ Len(<<"/">>) = 1 /\ <<"/">>[1] = "/"
    BY Digits, OneLetter
  <2>3. Coded(Slash, <<"/">>) = <<<<"/">>>>
    <3>1. Coded(Slash, <<"/">>) \in Seq(Texts) /\ Len(Coded(Slash, <<"/">>)) = 1
          /\ Coded(Slash, <<"/">>)[1] = <<"/">>
      <4> DEFINE p == <<"/">>
      <4>1. p \in Texts /\ Len(p) = 1 /\ p[1] = "/" /\ 1 \in 1..Len(p)
        BY <2>2
      <4> HIDE DEF p
      <4>2. Coded(Slash, p) \in Seq(Texts) /\ Len(Coded(Slash, p)) = 1 /\ Coded(Slash, p)[1] = Code(Slash, "/")
        BY <4>1, CodedType
      <4> QED BY <4>2 DEF p, Code, Slash
    <3>2. <<<<"/">>>> \in Seq(Texts) /\ Len(<<<<"/">>>>) = 1 /\ <<<<"/">>>>[1] = <<"/">>
      BY <2>2
    <3>3. \A i \in 1..1 : i = 1
      OBVIOUS
    <3> QED BY <3>1, <3>2, <3>3, SeqEqual
  <2>4. FlattenSeq(<<<<"/">>>>) = <<"/">>
    BY <2>2, Flatten DEF Texts
  <2> QED BY <2>1, <2>2, <2>3, <2>4
<1>2. CASE s # <<>>
  <2>1. OnWire(s) = s /\ CanonicalURI(url) =
          FlattenSeq([k \in 1..Len(s) |-> IF s[k] = "/" THEN <<"/">> ELSE Escape(<<s[k]>>)])
    BY <1>2 DEF OnWire, CanonicalURI
  <2>2. \A k \in 1..Len(s) : (IF s[k] = "/" THEN <<"/">> ELSE Escape(<<s[k]>>)) = Code(Slash, s[k])
    BY CodedType, EscapeOne, Digits DEF Code, Slash
  <2>3. [k \in 1..Len(s) |-> IF s[k] = "/" THEN <<"/">> ELSE Escape(<<s[k]>>)] = Coded(Slash, s)
    BY <2>2 DEF Coded
  <2> QED BY <1>2, <2>1, <2>3
<1> QED BY <1>1, <1>2

-----------------------------------------------------------------------------
(* Queries: how they are sorted.                                           *)

\* Texts before anything is escaped, and parameters.
Plain == Seq(DOMAIN Ranks)
Pair == Plain \X Plain

\* TextBefore and PairBefore as sets of pairs.
TextOrder == LexicalPairs(Ranks, DOMAIN Ranks)
PairOrder == {p \in Pair \X Pair : PairBefore(p[1], p[2])}

\* What is not escaped is a text, and texts are in a strict total order.
LEMMA TextsOrdered ==
  /\ Plain \subseteq Texts /\ Orders(TextOrder, Plain)
  /\ \A s, t \in Plain : TextBefore(s, t) <=> <<s, t>> \in TextOrder
<1>1. DOMAIN Ranks \subseteq Letters
  BY TextAssumption DEF Letters
<1>2. Plain \subseteq Texts
  <2> SUFFICES ASSUME NEW s \in Plain PROVE s \in Texts
    OBVIOUS
  <2>1. Len(s) \in Nat /\ s = [k \in 1..Len(s) |-> s[k]] /\ \A k \in 1..Len(s) : s[k] \in DOMAIN Ranks
    BY LenProperties, ElementOfSeq DEF Plain
  <2>2. \A k \in 1..Len(s) : s[k] \in Letters
    BY <1>1, <2>1
  <2> QED BY <2>1, <2>2 DEF Texts
<1>3. /\ \A c \in DOMAIN Ranks : Ranks[c] \in Int
      /\ \A c, d \in DOMAIN Ranks : Ranks[c] = Ranks[d] => c = d
  <2>1. \A c \in DOMAIN Ranks :
          Ranks[c] \in Nat /\ \A d \in DOMAIN Ranks : Ranks[c] = Ranks[d] => c = d
    BY TextAssumption, Zenon
  <2> QED BY <2>1
<1>4. Orders(TextOrder, Plain)
  BY <1>3, LexicalOrder DEF TextOrder, Plain
<1>5. \A s, t \in Plain : TextBefore(s, t) <=> <<s, t>> \in TextOrder
  BY DEF TextOrder, LexicalPairs, Lexical, TextBefore, Plain
<1> QED BY <1>2, <1>4, <1>5

\* So are parameters.
LEMMA PairsOrdered == Orders(PairOrder, Pair)
<1> DEFINE Less2(p, q) == <<p[1], q[1]>> \in TextOrder \/ (p[1] = q[1] /\ <<p[2], q[2]>> \in TextOrder)
<1>1. \A p \in Pair : p = <<p[1], p[2]>> /\ p[1] \in Plain /\ p[2] \in Plain
  BY DEF Pair
<1>2. \A p, q \in Pair : <<p, q>> \in PairOrder <=> Less2(p, q)
  <2>1. \A p, q \in Pair : <<p, q>> \in PairOrder <=> PairBefore(p, q)
    BY DEF PairOrder
  <2>2. \A p, q \in Pair : PairBefore(p, q) <=> Less2(p, q)
    BY <1>1, TextsOrdered DEF PairBefore, KeyBefore
  <2> QED BY <2>1, <2>2
<1>3. \A p \in Pair : ~Less2(p, p)
  BY <1>1, TextsOrdered DEF Orders
<1>4. \A p, q \in Pair : p # q => Less2(p, q) \/ Less2(q, p)
  BY <1>1, TextsOrdered DEF Orders
<1>5. \A p, q, r \in Pair : Less2(p, q) /\ Less2(q, r) => Less2(p, r)
  BY <1>1, TextsOrdered DEF Orders
<1> HIDE DEF Less2
<1> QED BY <1>2, <1>3, <1>4, <1>5 DEF Orders

\* canonicalQuery puts the parameters in order, and keeps them all.
LEMMA PairsSorted ==
  ASSUME NEW q \in Seq(Pair)
  PROVE  /\ SortedPairs(q) \in Seq(Pair) /\ Len(SortedPairs(q)) = Len(q)
         /\ Ascending(PairOrder, SortedPairs(q)) /\ SameElements(SortedPairs(q), q)
<1> DEFINE P == 1..Len(q)
           Good(f) == f \in [P -> P] /\ \A j, k \in P : j < k => Sooner(q, f[j], f[k])
           g == CHOOSE f \in [P -> P] : \A j, k \in P : j < k => Sooner(q, f[j], f[k])
<1>1. \A i \in P : q[i] \in Pair
  OBVIOUS
<1>2. \A i, j \in P : Sooner(q, i, j) <=> Earlier(PairOrder, q, i, j)
  <2>1. \A i, j \in P : PairBefore(q[i], q[j]) <=> <<q[i], q[j]>> \in PairOrder
    BY <1>1 DEF PairOrder
  <2> QED BY <2>1 DEF Sooner, Earlier
<1>3. \A f : Good(f) <=> Sorts(PairOrder, q, f)
  BY <1>2 DEF Sorts
<1>4. \E f : Good(f)
  <2>1. \E f : Sorts(PairOrder, q, f)
    BY PairsOrdered, SortExists
  <2> QED BY <1>3, <2>1
<1>5. Good(g)
  BY <1>4
<1>6. SortedPairs(q) = [k \in P |-> q[g[k]]]
  BY DEF SortedPairs
<1> HIDE DEF g
<1>7. Sorts(PairOrder, q, g)
  BY <1>3, <1>5
<1> HIDE DEF Good
<1> QED BY <1>6, <1>7, PairsOrdered, SortKeeps

\* The order is that of the set of parameters, however they came.
LEMMA SortedSame ==
  ASSUME NEW q \in Seq(Pair), NEW r \in Seq(Pair)
  PROVE  SortedPairs(q) = SortedPairs(r) <=> ToBag(q) = ToBag(r)
<1>1. /\ SortedPairs(q) \in Seq(Pair) /\ SortedPairs(r) \in Seq(Pair)
      /\ Ascending(PairOrder, SortedPairs(q)) /\ Ascending(PairOrder, SortedPairs(r))
      /\ SameElements(SortedPairs(q), q) /\ SameElements(SortedPairs(r), r)
  BY PairsSorted
<1>2. SameElements(SortedPairs(q), SortedPairs(r)) <=> SameElements(q, r)
  BY <1>1 DEF SameElements
<1>3. SameElements(SortedPairs(q), SortedPairs(r)) <=> SortedPairs(q) = SortedPairs(r)
  <2>1. SameElements(SortedPairs(q), SortedPairs(r)) => SortedPairs(q) = SortedPairs(r)
    BY <1>1, PairsOrdered, SortedUnique
  <2> QED BY <2>1 DEF SameElements
<1> QED BY <1>2, <1>3, SameBag

-----------------------------------------------------------------------------
(* Queries: how they are written.                                          *)

\* What is left of a text that is escaped: no separator is.
Kept == {c \in Letters : c = "%" \/ c \notin DOMAIN Reserved}

\* Two separators that awsPathEscape does not leave alone.
LEMMA Separators == {"&", "="} \subseteq Letters \ Kept
<1>1. {"&", "="} \subseteq DOMAIN Reserved /\ {"&", "="} \subseteq Letters
  BY TextAssumption, QuotedAreStrings DEF Letters
<1> QED BY <1>1 DEF Kept

\* An escaped text is made of what is kept, and is that of one text only.
LEMMA EscapeKeeps ==
  ASSUME NEW s \in Texts
  PROVE  /\ Escape(s) \in Seq(Kept) /\ Escape(s) \in Texts
         /\ \A t \in Texts : Escape(s) = Escape(t) => s = t
<1>1. \A t \in Texts : Escape(t) = FlattenSeq(Coded({}, t))
  BY DEF Escape, Coded, Code
<1>2. Len(s) \in Nat /\ \A k \in 1..Len(s) : Coded({}, s)[k] = Code({}, s[k]) /\ s[k] \in Letters
  BY CodedType
<1>3. ASSUME NEW c \in Letters PROVE Code({}, c) \in Seq(Kept)
  <2>1. CASE c \in DOMAIN Reserved
    <3>1. "%" \in Kept /\ Reserved[c] \in Kept
      BY <2>1, Digits DEF Kept
    <3> QED BY <2>1, <3>1 DEF Code
  <2>2. CASE c \notin DOMAIN Reserved
    <3>1. c \in Kept
      BY <2>2 DEF Kept
    <3> QED BY <2>2, <3>1 DEF Code
  <2> QED BY <2>1, <2>2
<1>4. Coded({}, s) \in Seq(Seq(Kept))
  <2>1. \A k \in 1..Len(s) : Code({}, s[k]) \in Seq(Kept)
    BY <1>2, <1>3
  <2> QED BY <1>2, <2>1 DEF Coded
<1>5. Escape(s) \in Seq(Kept)
  BY <1>1, <1>4, FlattenType
<1>6. Escape(s) \in Texts
  BY <1>1, CodedType, FlattenType DEF Texts
<1>7. "%" \notin {}
  OBVIOUS
<1> QED BY <1>1, <1>5, <1>6, <1>7, CodeInjective

\* A separator and what is kept behind a text.
Behind(A, c, u) == (A \o <<c>>) \o u

\* X is A, then c, then u.
Consists(X, A, c, u) ==
  /\ Len(A) \in Nat /\ Len(u) \in Nat /\ Len(X) = Len(A) + 1 + Len(u)
  /\ \A k \in 1..Len(A) : X[k] = A[k]
  /\ X[Len(A) + 1] = c
  /\ \A k \in 1..Len(u) : X[Len(A) + 1 + k] = u[k]

\* Where what is where.
LEMMA BehindSays ==
  ASSUME NEW A \in Texts, NEW c \in Letters, NEW u \in Texts
  PROVE  Behind(A, c, u) \in Texts /\ Consists(Behind(A, c, u), A, c, u)
<1> DEFINE e == <<c>>
           x == A \o e
<1>1. e \in Seq(Letters) /\ Len(e) = 1 /\ e[1] = c
  OBVIOUS
<1>2. A \in Seq(Letters) /\ u \in Seq(Letters) /\ Len(A) \in Nat /\ Len(u) \in Nat
  BY LenProperties DEF Texts
<1> HIDE DEF e
<1>3. /\ x \in Seq(Letters) /\ Len(x) = Len(A) + Len(e)
      /\ \A i \in 1..(Len(A) + Len(e)) : x[i] = IF i <= Len(A) THEN A[i] ELSE e[i - Len(A)]
  BY <1>1, <1>2, ConcatProperties
<1>4. Len(x) = Len(A) + 1 /\ x[Len(A) + 1] = c /\ \A k \in 1..Len(A) : x[k] = A[k]
  <2>1. Len(A) + 1 \in 1..(Len(A) + 1) /\ ~(Len(A) + 1 <= Len(A)) /\ (Len(A) + 1) - Len(A) = 1
    BY <1>2
  <2>2. \A k \in 1..Len(A) : k \in 1..(Len(A) + 1) /\ k <= Len(A)
    BY <1>2
  <2> HIDE DEF x
  <2> QED BY <1>1, <1>3, <2>1, <2>2
<1> HIDE DEF x
<1>5. /\ x \o u \in Seq(Letters) /\ Len(x \o u) = Len(x) + Len(u)
      /\ \A i \in 1..(Len(x) + Len(u)) : (x \o u)[i] = IF i <= Len(x) THEN x[i] ELSE u[i - Len(x)]
  <2>1. x \in Seq(Letters) /\ u \in Seq(Letters)
    BY <1>2, <1>3
  <2> QED BY <2>1, ConcatProperties
<1> DEFINE y == x \o u
<1>6. Behind(A, c, u) = y
  BY DEF Behind, e, x
<1>7. y \in Texts
  BY <1>5 DEF Texts
<1>8. /\ Len(y) = Len(x) + Len(u)
      /\ \A i \in 1..(Len(x) + Len(u)) : y[i] = IF i <= Len(x) THEN x[i] ELSE u[i - Len(x)]
  BY <1>5
<1> HIDE DEF y
<1>9. \A k \in 1..(Len(A) + 1) : y[k] = x[k]
  <2>1. \A k \in 1..(Len(A) + 1) : k \in 1..(Len(x) + Len(u)) /\ k <= Len(x)
    BY <1>2, <1>4
  <2> QED BY <1>8, <2>1
<1>10. ASSUME NEW k \in 1..Len(u) PROVE y[Len(A) + 1 + k] = u[k]
  <2> DEFINE i == Len(A) + 1 + k
  <2>1. i \in 1..(Len(x) + Len(u)) /\ ~(i <= Len(x)) /\ i - Len(x) = k
    BY <1>2, <1>4
  <2> HIDE DEF i
  <2>2. y[i] = u[k]
    BY <1>8, <2>1
  <2> QED BY <2>2 DEF i
<1>11. \A k \in 1..Len(A) : y[k] = A[k]
  <2>1. \A k \in 1..Len(A) : k \in 1..(Len(A) + 1)
    BY <1>2
  <2> QED BY <1>4, <1>9, <2>1
<1>12. y[Len(A) + 1] = c
  <2>1. Len(A) + 1 \in 1..(Len(A) + 1)
    BY <1>2
  <2> QED BY <1>4, <1>9, <2>1
<1>13. Len(y) = Len(A) + 1 + Len(u)
  BY <1>2, <1>4, <1>8
<1> QED BY <1>2, <1>6, <1>7, <1>10, <1>11, <1>12, <1>13 DEF Consists

\* The last separator tells what stands before it from what stands behind.
LEMMA LastSeparator ==
  ASSUME NEW A \in Texts, NEW B \in Texts, NEW c \in Letters \ Kept,
         NEW u, u \in Texts, u \in Seq(Kept), NEW v, v \in Texts, v \in Seq(Kept),
         Behind(A, c, u) = Behind(B, c, v)
  PROVE  A = B /\ u = v
<1> DEFINE X == Behind(A, c, u)
<1>a. Consists(Behind(A, c, u), A, c, u) /\ Consists(Behind(B, c, v), B, c, v)
  BY BehindSays
<1>0. Consists(X, A, c, u) /\ Consists(X, B, c, v)
  BY <1>a
<1> HIDE DEF X
<1>1. /\ Len(A) \in Nat /\ Len(u) \in Nat /\ Len(X) = Len(A) + 1 + Len(u)
      /\ X[Len(A) + 1] = c /\ \A k \in 1..Len(A) : X[k] = A[k]
      /\ \A k \in 1..Len(u) : X[Len(A) + 1 + k] = u[k]
  BY <1>0 DEF Consists
<1>2. /\ Len(B) \in Nat /\ Len(v) \in Nat /\ Len(X) = Len(B) + 1 + Len(v)
      /\ X[Len(B) + 1] = c /\ \A k \in 1..Len(B) : X[k] = B[k]
      /\ \A k \in 1..Len(v) : X[Len(B) + 1 + k] = v[k]
  BY <1>0 DEF Consists
<1>3. (\A k \in 1..Len(u) : u[k] # c) /\ \A k \in 1..Len(v) : v[k] # c
  BY ElementOfSeq
<1>4. ~(Len(A) < Len(B))
  <2> SUFFICES ASSUME Len(A) < Len(B) PROVE FALSE
    OBVIOUS
  <2> DEFINE k == Len(B) - Len(A)
  <2>1. k \in 1..Len(u) /\ Len(A) + 1 + k = Len(B) + 1
    BY <1>1, <1>2
  <2> HIDE DEF k
  <2>2. X[Len(A) + 1 + k] # c
    BY <1>1, <1>3, <2>1
  <2> QED BY <1>2, <2>1, <2>2
<1>5. ~(Len(B) < Len(A))
  <2> SUFFICES ASSUME Len(B) < Len(A) PROVE FALSE
    OBVIOUS
  <2> DEFINE k == Len(A) - Len(B)
  <2>1. k \in 1..Len(v) /\ Len(B) + 1 + k = Len(A) + 1
    BY <1>1, <1>2
  <2> HIDE DEF k
  <2>2. X[Len(B) + 1 + k] # c
    BY <1>2, <1>3, <2>1
  <2> QED BY <1>1, <2>1, <2>2
<1>6. Len(A) = Len(B) /\ Len(u) = Len(v)
  BY <1>1, <1>2, <1>4, <1>5
<1>7. A = B
  <2>1. \A k \in 1..Len(A) : A[k] = B[k]
    BY <1>1, <1>2, <1>6
  <2> QED BY <1>6, <2>1, SeqEqual DEF Texts
<1>8. u = v
  <2>1. \A k \in 1..Len(u) : u[k] = v[k]
    BY <1>1, <1>2, <1>6
  <2> QED BY <1>6, <2>1, SeqEqual DEF Texts
<1> QED BY <1>7, <1>8

\* The pieces of a canonical query whose parameters are in their order.
Piece(p, k) ==
  (IF k = 1 THEN <<>> ELSE <<"&">>) \o Escape(p[k][1]) \o <<"=">> \o Escape(p[k][2])

\* The text of the first n parameters.
Written(p, n) == FlattenSeq(FirstOf([k \in 1..Len(p) |-> Piece(p, k)], n))

\* What stands before the value of parameter n + 1, and before its key.
Lead(p, n) ==
  IF n = 0 THEN Escape(p[1][1]) ELSE Behind(Written(p, n), "&", Escape(p[n + 1][1]))

\* Keys and values are texts.
LEMMA PairTexts ==
  ASSUME NEW p \in Seq(Pair)
  PROVE  /\ Len(p) \in Nat
         /\ \A k \in 1..Len(p) :
              /\ p[k] = <<p[k][1], p[k][2]>> /\ p[k][1] \in Texts /\ p[k][2] \in Texts
              /\ Escape(p[k][1]) \in Seq(Kept) /\ Escape(p[k][1]) \in Texts
              /\ Escape(p[k][2]) \in Seq(Kept) /\ Escape(p[k][2]) \in Texts
<1>1. Len(p) \in Nat /\ \A k \in 1..Len(p) : p[k] \in Pair
  OBVIOUS
<1>2. \A x \in Pair : x = <<x[1], x[2]>> /\ x[1] \in Texts /\ x[2] \in Texts
  BY TextsOrdered DEF Pair
<1>3. \A k \in 1..Len(p) : p[k] = <<p[k][1], p[k][2]>> /\ p[k][1] \in Texts /\ p[k][2] \in Texts
  BY <1>1, <1>2
<1> QED BY <1>1, <1>3, EscapeKeeps

\* One parameter more: a key behind what was written, a value behind the key.
LEMMA WrittenNext ==
  ASSUME NEW p \in Seq(Pair)
  PROVE  /\ Written(p, 0) = <<>>
         /\ \A n \in 0..Len(p) : Written(p, n) \in Texts
         /\ \A n \in Nat : n + 1 <= Len(p) =>
              /\ Lead(p, n) \in Texts
              /\ Written(p, n + 1) = Behind(Lead(p, n), "=", Escape(p[n + 1][2]))
<1> DEFINE q == [k \in 1..Len(p) |-> Piece(p, k)]
           and == <<"&">>
           is == <<"=">>
<1>1. Len(p) \in Nat /\ "&" \in Letters /\ "=" \in Letters
  BY PairTexts, Separators
<1>2. and \in Seq(Letters) /\ is \in Seq(Letters) /\ <<>> \in Seq(Letters)
  BY <1>1
<1>3. ASSUME NEW k \in 1..Len(p)
      PROVE  /\ Piece(p, k) \in Seq(Letters)
             /\ Piece(p, k) = (((IF k = 1 THEN <<>> ELSE and) \o Escape(p[k][1])) \o is) \o Escape(p[k][2])
  <2> DEFINE x == Escape(p[k][1])
             y == Escape(p[k][2])
             e == IF k = 1 THEN <<>> ELSE and
  <2>1. x \in Seq(Letters) /\ y \in Seq(Letters) /\ e \in Seq(Letters)
    BY <1>2, PairTexts DEF Texts
  <2>2. Piece(p, k) = ((e \o x) \o is) \o y
    BY DEF Piece
  <2> HIDE DEF x, y, e, is, and
  <2>3. ((e \o x) \o is) \o y \in Seq(Letters)
    BY <1>2, <2>1, ConcatProperties
  <2> QED BY <2>2, <2>3 DEF x, y, e
<1>4. q \in Seq(Seq(Letters)) /\ Len(q) = Len(p) /\ \A k \in 1..Len(p) : q[k] = Piece(p, k)
  BY <1>1, <1>3
<1> HIDE DEF q
<1>5. Written(p, 0) = <<>>
  <2>1. FirstOf(q, 0) = <<>>
    BY <1>4, FirstOfNext
  <2> QED BY <2>1, Flatten DEF Written, q
<1>6. \A n \in 0..Len(p) :
        /\ Written(p, n) \in Seq(Letters)
        /\ n + 1 <= Len(p) => Written(p, n + 1) = Written(p, n) \o q[n + 1]
  BY <1>4, FlattenNext DEF Written, q
<1>7. ASSUME NEW n \in Nat, n + 1 <= Len(p)
      PROVE  /\ Lead(p, n) \in Texts
             /\ Written(p, n + 1) = Behind(Lead(p, n), "=", Escape(p[n + 1][2]))
  <2> DEFINE w == Written(p, n)
             x == Escape(p[n + 1][1])
             y == Escape(p[n + 1][2])
  <2>1. n \in 0..Len(p) /\ n + 1 \in 1..Len(p)
    BY <1>1, <1>7
  <2>2. x \in Seq(Letters) /\ y \in Seq(Letters) /\ w \in Seq(Letters)
    BY <1>6, <2>1, PairTexts DEF Texts
  <2>3. Written(p, n + 1) = w \o Piece(p, n + 1)
    BY <1>4, <1>6, <1>7, <2>1
  <2>4. CASE n = 0
    <3>1. w = <<>> /\ n + 1 = 1 /\ Lead(p, n) = x
      BY <1>5, <2>4 DEF Lead
    <3>2. Piece(p, n + 1) = ((<<>> \o x) \o is) \o y
      BY <1>3, <2>1, <3>1
    <3> HIDE DEF w, x, y, is
    <3>3. <<>> \o x = x /\ (x \o is) \o y \in Seq(Letters)
      BY <1>2, <2>2, ConcatEmptySeq, ConcatProperties
    <3>4. Written(p, n + 1) = (x \o is) \o y
      BY <2>3, <3>1, <3>2, <3>3, ConcatEmptySeq
    <3> QED BY <2>2, <3>1, <3>4 DEF Behind, Texts, y, is
  <2>5. CASE n # 0
    <3> DEFINE ax == and \o x
               axi == ax \o is
    <3>1. Piece(p, n + 1) = axi \o y
      <4>1. n + 1 # 1
        BY <2>1, <2>5
      <4>2. Piece(p, n + 1) = (((IF n + 1 = 1 THEN <<>> ELSE and) \o x) \o is) \o y
        BY <1>3, <2>1
      <4> QED BY <4>1, <4>2
    <3>2. Lead(p, n) = (w \o and) \o x
      BY <2>5 DEF Lead, Behind
    <3> HIDE DEF w, x, y, is, and
    <3>3. /\ ax \in Seq(Letters) /\ axi \in Seq(Letters)
          /\ w \o and \in Seq(Letters) /\ (w \o and) \o x \in Seq(Letters)
      BY <1>2, <2>2, ConcatProperties
    <3>a. \A u, v, z \in Seq(Letters) : (u \o v) \o z = u \o (v \o z)
      BY ConcatAssociative
    <3>4. w \o ax = (w \o and) \o x
      BY <1>2, <2>2, <3>a
    <3> HIDE DEF ax
    <3>5. w \o axi = (w \o ax) \o is
      <4>1. w \in Seq(Letters) /\ ax \in Seq(Letters) /\ is \in Seq(Letters)
        BY <1>2, <2>2, <3>3
      <4>2. axi = ax \o is
        OBVIOUS
      <4> HIDE DEF axi
      <4> QED BY <3>a, <4>1, <4>2
    <3> HIDE DEF axi
    <3>6. w \o (axi \o y) = (w \o axi) \o y
      BY <2>2, <3>3, <3>a
    <3>7. Written(p, n + 1) = (Lead(p, n) \o is) \o y
      BY <2>3, <3>1, <3>2, <3>4, <3>5, <3>6
    <3> QED BY <3>2, <3>3, <3>7 DEF Behind, Texts, y, is
  <2> QED BY <2>4, <2>5
<1> QED BY <1>5, <1>6, <1>7 DEF Texts

\* The last parameter and what is written before it can be told apart.
LEMMA WrittenLast ==
  ASSUME NEW p \in Seq(Pair), NEW q \in Seq(Pair), NEW n \in Nat, NEW m \in Nat,
         n + 1 <= Len(p), m + 1 <= Len(q), Written(p, n + 1) = Written(q, m + 1)
  PROVE  Written(p, n) = Written(q, m) /\ p[n + 1] = q[m + 1]
<1> DEFINE a == p[n + 1]
           b == q[m + 1]
           k == Escape(a[1])
           l == Escape(b[1])
           u == Escape(a[2])
           v == Escape(b[2])
           F == Lead(p, n)
           G == Lead(q, m)
           W == Written(p, n)
           X == Written(q, m)
<1>1. n + 1 \in 1..Len(p) /\ m + 1 \in 1..Len(q) /\ n \in 0..Len(p) /\ m \in 0..Len(q)
  BY PairTexts
<1>2. /\ a = <<a[1], a[2]>> /\ b = <<b[1], b[2]>>
      /\ {a[1], a[2], b[1], b[2]} \subseteq Texts
      /\ {k, l, u, v} \subseteq Seq(Kept) \cap Texts
  BY <1>1, PairTexts
<1>3. F \in Texts /\ G \in Texts /\ W \in Texts /\ X \in Texts
  BY <1>1, WrittenNext
<1>4. Behind(F, "=", u) = Behind(G, "=", v)
  BY WrittenNext
<1>5. "=" \in Letters \ Kept /\ "&" \in Letters \ Kept
  BY Separators
<1>6. /\ F = IF n = 0 THEN k ELSE Behind(W, "&", k)
      /\ G = IF m = 0 THEN l ELSE Behind(X, "&", l)
  <2>1. (n = 0 => n + 1 = 1) /\ (m = 0 => m + 1 = 1)
    OBVIOUS
  <2> QED BY <2>1 DEF Lead
<1>7. (n = 0 => W = <<>>) /\ (m = 0 => X = <<>>)
  BY WrittenNext
<1> HIDE DEF F, G, W, X, u, v, k, l
<1>8. F = G /\ u = v
  BY <1>2, <1>3, <1>4, <1>5, LastSeparator
<1>9. ASSUME NEW A \in Texts, NEW y, y \in Texts, NEW z, z \in Seq(Kept), z = Behind(A, "&", y)
      PROVE  FALSE
  <2>1. Consists(z, A, "&", y)
    BY <1>5, <1>9, BehindSays
  <2>2. Len(A) + 1 \in 1..Len(z) /\ z[Len(A) + 1] = "&"
    BY <2>1 DEF Consists
  <2>3. z[Len(A) + 1] \in Kept
    BY <1>9, <2>2, ElementOfSeq
  <2> QED BY <1>5, <2>2, <2>3
<1>10. W = X /\ k = l
  <2>1. CASE n = 0 /\ m = 0
    BY <1>6, <1>7, <1>8, <2>1
  <2>2. CASE n = 0 /\ m # 0
    <3>1. k = Behind(X, "&", l)
      BY <1>6, <1>8, <2>2
    <3> QED BY <1>2, <1>3, <1>9, <3>1
  <2>3. CASE n # 0 /\ m = 0
    <3>1. l = Behind(W, "&", k)
      BY <1>6, <1>8, <2>3
    <3> QED BY <1>2, <1>3, <1>9, <3>1
  <2>4. CASE n # 0 /\ m # 0
    <3>1. Behind(W, "&", k) = Behind(X, "&", l)
      BY <1>6, <1>8, <2>4
    <3> QED BY <1>2, <1>3, <1>5, <3>1, LastSeparator
  <2> QED BY <2>1, <2>2, <2>3, <2>4
<1>11. a[1] = b[1] /\ a[2] = b[2]
  BY <1>2, <1>8, <1>10, EscapeKeeps DEF k, l, u, v
<1>12. a = b
  BY <1>2, <1>11
<1> QED BY <1>10, <1>12 DEF W, X

\* By induction from the end: the same text is written of the same parameters.
LEMMA WrittenInjective ==
  ASSUME NEW p \in Seq(Pair), NEW q \in Seq(Pair), Written(p, Len(p)) = Written(q, Len(q))
  PROVE  p = q
<1> DEFINE A == {n \in Nat : \A m \in Nat :
                   n <= Len(p) /\ m <= Len(q) /\ Written(p, n) = Written(q, m) =>
                     n = m /\ \A k \in 1..n : p[k] = q[k]}
<1>1. Len(p) \in Nat /\ Len(q) \in Nat
  BY PairTexts
<1>2. ASSUME NEW r \in Seq(Pair), NEW n \in Nat, n + 1 <= Len(r) PROVE Written(r, n + 1) # <<>>
  <2>1. n + 1 \in 1..Len(r) /\ Lead(r, n) \in Texts
    BY <1>2, PairTexts, WrittenNext
  <2> DEFINE f == Lead(r, n)
             y == Escape(r[n + 1][2])
  <2>2. Written(r, n + 1) = Behind(f, "=", y) /\ y \in Texts /\ "=" \in Letters
    BY <1>2, <2>1, PairTexts, WrittenNext, Separators
  <2> HIDE DEF f, y
  <2>3. Consists(Behind(f, "=", y), f, "=", y)
    BY <2>1, <2>2, BehindSays DEF f
  <2>4. Len(Behind(f, "=", y)) # 0
    BY <2>3 DEF Consists
  <2>5. Len(<<>>) = 0
    BY EmptySeq
  <2> QED BY <2>2, <2>4, <2>5
<1>3. \A m \in Nat : m = 0 \/ \E i \in Nat : m = i + 1
  <2> TAKE m \in Nat
  <2>1. m # 0 => m - 1 \in Nat /\ m = (m - 1) + 1
    OBVIOUS
  <2> QED BY <2>1
<1>4. 0 \in A
  <2> SUFFICES ASSUME NEW m \in Nat, m <= Len(q), Written(p, 0) = Written(q, m)
               PROVE  0 = m /\ \A k \in 1..0 : p[k] = q[k]
    OBVIOUS
  <2>1. Written(q, m) = <<>>
    BY WrittenNext
  <2>2. m = 0
    BY <1>2, <1>3, <2>1
  <2>3. \A k \in 1..0 : FALSE
    OBVIOUS
  <2> QED BY <2>2, <2>3
<1>5. ASSUME NEW n \in Nat, n \in A PROVE n + 1 \in A
  <2> SUFFICES ASSUME NEW m \in Nat, n + 1 <= Len(p), m <= Len(q), Written(p, n + 1) = Written(q, m)
               PROVE  n + 1 = m /\ \A k \in 1..(n + 1) : p[k] = q[k]
    OBVIOUS
  <2>1. m # 0
    <3>1. Written(p, n + 1) # <<>> /\ Written(q, 0) = <<>>
      BY <1>2, WrittenNext
    <3> QED BY <3>1
  <2>2. PICK i \in Nat : m = i + 1
    BY <1>3, <2>1
  <2>3. Written(p, n) = Written(q, i) /\ p[n + 1] = q[m]
    BY <2>2, WrittenLast
  <2>4. n <= Len(p) /\ i <= Len(q)
    BY <1>1, <2>2
  <2>5. n = i /\ \A k \in 1..n : p[k] = q[k]
    BY <1>5, <2>3, <2>4
  <2>6. \A k \in 1..(n + 1) : k \in 1..n \/ k = n + 1
    OBVIOUS
  <2> QED BY <2>2, <2>3, <2>5, <2>6
<1> HIDE DEF A
<1>6. Nat \subseteq A
  BY <1>4, <1>5, Induction
<1>7. Len(p) = Len(q) /\ \A k \in 1..Len(p) : p[k] = q[k]
  <2>1. Len(p) \in A /\ Len(p) <= Len(p) /\ Len(q) <= Len(q)
    BY <1>1, <1>6
  <2> QED BY <1>1, <2>1 DEF A
<1> QED BY <1>7, SeqEqual

\* What is written of sorted parameters is that of one set of them, in any order.
LEMMA QueryInjective ==
  ASSUME NEW q \in Seq(Pair), NEW r \in Seq(Pair)
  PROVE  WrittenQuery(SortedPairs(q)) = WrittenQuery(SortedPairs(r)) <=> ToBag(q) = ToBag(r)
<1>1. ASSUME NEW s \in Seq(Pair)
      PROVE  WrittenQuery(SortedPairs(s)) = Written(SortedPairs(s), Len(SortedPairs(s)))
  <2> DEFINE p == SortedPairs(s)
             w == [k \in 1..Len(p) |-> Piece(p, k)]
  <2>1. p \in Seq(Pair) /\ Len(p) = Len(s)
    BY PairsSorted
  <2>2. WrittenQuery(p) = FlattenSeq(w)
    BY DEF WrittenQuery, Piece
  <2>3. Len(p) \in Nat
    BY <2>1, PairTexts
  <2>4. FirstOf(w, Len(p)) = w
    <3> HIDE DEF p
    <3> QED BY <2>3 DEF FirstOf
  <2> QED BY <2>2, <2>4 DEF Written
<1>2. SortedPairs(q) \in Seq(Pair) /\ SortedPairs(r) \in Seq(Pair)
  BY PairsSorted
<1> DEFINE x == SortedPairs(q)
           y == SortedPairs(r)
<1>3. Written(x, Len(x)) = Written(y, Len(y)) <=> x = y
  <2> HIDE DEF x, y
  <2>1. x \in Seq(Pair) /\ y \in Seq(Pair)
    BY <1>2 DEF x, y
  <2> QED BY <2>1, WrittenInjective
<1> QED BY <1>1, <1>3, SortedSame

-----------------------------------------------------------------------------
(* Queries: what the service reads and writes.                             *)

\* What stands in two texts stands in both of them joined.
LEMMA InBoth ==
  ASSUME NEW S, NEW s \in Seq(S), NEW t \in Seq(S)
  PROVE  /\ \A k \in 1..Len(s) : s[k] \in ToSet(s \o t)
         /\ \A k \in 1..Len(t) : t[k] \in ToSet(s \o t)
<1> DEFINE u == s \o t
<1>1. /\ u \in Seq(S) /\ Len(u) = Len(s) + Len(t) /\ Len(s) \in Nat /\ Len(t) \in Nat
      /\ \A i \in 1..(Len(s) + Len(t)) : u[i] = IF i <= Len(s) THEN s[i] ELSE t[i - Len(s)]
  BY ConcatProperties, LenProperties
<1>2. DOMAIN u = 1..Len(u)
  BY <1>1, LenProperties
<1> HIDE DEF u
<1>3. \A i \in 1..Len(u) : u[i] \in ToSet(u)
  BY <1>2 DEF ToSet
<1>4. ASSUME NEW k \in 1..Len(s) PROVE s[k] \in ToSet(u)
  <2>1. k \in 1..Len(u) /\ u[k] = s[k]
    BY <1>1
  <2> QED BY <1>3, <2>1
<1>5. ASSUME NEW k \in 1..Len(t) PROVE t[k] \in ToSet(u)
  <2> DEFINE i == Len(s) + k
  <2>1. i \in 1..(Len(s) + Len(t)) /\ ~(i <= Len(s)) /\ i - Len(s) = k
    BY <1>1
  <2> HIDE DEF i
  <2>2. u[i] = t[k] /\ i \in 1..Len(u)
    BY <1>1, <2>1
  <2> QED BY <1>3, <2>2
<1> QED BY <1>4, <1>5 DEF u

\* The characters of the key or the value of a part are a text, and each of them
\* is that of a unit.
LEMMA PartTexts ==
  ASSUME NEW p \in Part, NEW t \in {p.key, p.value}
  PROVE  /\ Chars(t) \in Plain /\ Len(Chars(t)) = Len(t) /\ Len(t) \in Nat
         /\ \A k \in 1..Len(t) : Chars(t)[k] = t[k].char /\ t[k] \in ToSet(p.key \o p.value)
<1>1. p.key \in Seq(Unit) /\ p.value \in Seq(Unit)
  BY DEF Part
<1>2. t \in Seq(Unit) /\ Len(t) \in Nat /\ \A k \in 1..Len(t) : t[k] \in Unit
  BY <1>1, LenProperties, ElementOfSeq
<1>3. \A k \in 1..Len(t) : t[k].char \in DOMAIN Ranks
  BY <1>2 DEF Unit
<1>4. \A k \in 1..Len(t) : t[k] \in ToSet(p.key \o p.value)
  BY <1>1, InBoth
<1> QED BY <1>2, <1>3, <1>4 DEF Chars, Plain

\* url.ParseQuery finds in a query the parameters that it means, if none is
\* passed over or has a "+" for a space.
LEMMA WholeQuery ==
  ASSUME NEW query \in Seq(Part), Whole(query)
  PROVE  /\ Meant(query) \in Seq(Pair) /\ Len(Meant(query)) = Len(query) /\ Len(query) \in Nat
         /\ Parameters(query) = Meant(query)
<1>1. Len(query) \in Nat /\ \A k \in 1..Len(query) : query[k] \in Part /\ query[k] \in ToSet(query)
  <2>1. Len(query) \in Nat /\ DOMAIN query = 1..Len(query)
    BY LenProperties
  <2> QED BY <2>1, ElementOfSeq DEF ToSet
<1>2. \A k \in 1..Len(query) : Meant(query)[k] = <<Chars(query[k].key), Chars(query[k].value)>>
  BY DEF Meant
<1>3. \A k \in 1..Len(query) : Chars(query[k].key) \in Plain /\ Chars(query[k].value) \in Plain
  BY <1>1, PartTexts
<1>4. Meant(query) \in Seq(Pair) /\ Len(Meant(query)) = Len(query)
  BY <1>1, <1>3 DEF Meant, Pair
<1>5. ASSUME NEW k \in 1..Len(query)
      PROVE  /\ ~PassedOver(query[k])
             /\ Unescaped(query[k].key) = Chars(query[k].key)
             /\ Unescaped(query[k].value) = Chars(query[k].value)
  <2> DEFINE p == query[k]
  <2>1. /\ p \in Part /\ (p.key # <<>> \/ p.equals)
        /\ {Raw("%"), Raw(";"), Raw("+")} \cap ToSet(p.key \o p.value) = {}
    BY <1>1 DEF Whole
  <2> HIDE DEF p
  <2>2. ~PassedOver(p)
    BY <2>1 DEF PassedOver
  <2>3. ASSUME NEW t \in {p.key, p.value} PROVE Unescaped(t) = Chars(t)
    <3>1. \A j \in 1..Len(t) : t[j] # Raw("+")
      BY <2>1, PartTexts
    <3> QED BY <3>1 DEF Unescaped, Chars
  <2> QED BY <2>2, <2>3 DEF p
<1>6. Parameters(query) = FlattenSeq([k \in 1..Len(Meant(query)) |-> <<Meant(query)[k]>>])
  <2>1. \A k \in 1..Len(query) :
          (IF PassedOver(query[k]) THEN <<>>
           ELSE <<<<Unescaped(query[k].key), Unescaped(query[k].value)>>>>) = <<Meant(query)[k]>>
    BY <1>2, <1>5
  <2> QED BY <1>4, <2>1 DEF Parameters
<1> QED BY <1>1, <1>4, <1>6, FlattenSingles

\* Where what is escaped comes first anyway, texts stand in the order of what
\* they are encoded as.
LEMMA AlignedOrder ==
  ASSUME NEW query, Aligned(query),
         NEW p \in Part, p \in ToSet(query), NEW q \in Part, q \in ToSet(query),
         NEW s \in {p.key, p.value}, NEW t \in {q.key, q.value}
  PROVE  EncodedBefore(Chars(s), Chars(t)) <=> TextBefore(Chars(s), Chars(t))
<1> DEFINE a == Chars(s)
           b == Chars(t)
<1>1. /\ a \in Plain /\ Len(a) \in Nat /\ b \in Plain /\ Len(b) \in Nat
      /\ \A k \in 1..Len(a) : \E u \in ToSet(p.key \o p.value) : u.char = a[k]
      /\ \A k \in 1..Len(b) : \E v \in ToSet(q.key \o q.value) : v.char = b[k]
  BY PartTexts
<1> HIDE DEF a, b
<1>2. \A c \in DOMAIN Ranks : Ranks[c] \in Nat
  BY TextAssumption, Zenon
<1>3. ASSUME NEW k \in 1..Len(a), k <= Len(b)
      PROVE  CodeBefore(a[k], b[k]) <=> Ranks[a[k]] < Ranks[b[k]]
  <2>1. k \in 1..Len(b)
    BY <1>1, <1>3
  <2>2. a[k] \in DOMAIN Ranks /\ b[k] \in DOMAIN Ranks
    BY <1>1, <2>1, ElementOfSeq DEF Plain
  <2>3. Ranks[a[k]] \in Nat /\ Ranks[b[k]] \in Nat
    BY <1>2, <2>2
  <2>4. /\ a[k] \in DOMAIN Reserved /\ b[k] \notin DOMAIN Reserved => Ranks[a[k]] < Ranks[b[k]]
        /\ b[k] \in DOMAIN Reserved /\ a[k] \notin DOMAIN Reserved => Ranks[b[k]] < Ranks[a[k]]
    BY <1>1, <2>1 DEF Aligned
  <2> QED BY <2>3, <2>4 DEF CodeBefore
<1> QED BY <1>3 DEF EncodedBefore, TextBefore, a, b

\* The service makes the text that canonicalQuery makes, if no part of the query
\* is passed over and the order is that of what the parameters are encoded as.
LEMMA QueryFound ==
  ASSUME NEW query \in Seq(Part), Whole(query), Aligned(query)
  PROVE  Recomputed(query, CanonicalQuery(query))
<1> DEFINE P == 1..Len(query)
           pairs == Meant(query)
           before(x, y) == EncodedBefore(x[1], y[1]) \/ (x[1] = y[1] /\ EncodedBefore(x[2], y[2]))
           g == CHOOSE f \in [P -> P] : \A j, k \in P : j < k => Sooner(pairs, f[j], f[k])
           piece(x) == Escape(x[1]) \o <<"=">> \o Escape(x[2])
<1>1. /\ pairs \in Seq(Pair) /\ Len(pairs) = Len(query) /\ Len(query) \in Nat
      /\ CanonicalQuery(query) = WrittenQuery(SortedPairs(pairs))
  BY WholeQuery DEF CanonicalQuery
<1>2. /\ \A k \in P : query[k] \in Part /\ query[k] \in ToSet(query)
      /\ \A k \in P : pairs[k] = <<Chars(query[k].key), Chars(query[k].value)>>
  <2>1. DOMAIN query = 1..Len(query)
    BY LenProperties
  <2> QED BY <2>1, ElementOfSeq DEF ToSet, Meant
<1>3. \A i, j \in P : before(pairs[i], pairs[j]) <=> PairBefore(pairs[i], pairs[j])
  <2> SUFFICES ASSUME NEW i \in P, NEW j \in P
               PROVE  before(pairs[i], pairs[j]) <=> PairBefore(pairs[i], pairs[j])
    OBVIOUS
  <2>1. \A s \in {query[i].key, query[i].value} : \A t \in {query[j].key, query[j].value} :
          EncodedBefore(Chars(s), Chars(t)) <=> TextBefore(Chars(s), Chars(t))
    BY <1>2, AlignedOrder
  <2>2. /\ pairs[i][1] = Chars(query[i].key) /\ pairs[i][2] = Chars(query[i].value)
        /\ pairs[j][1] = Chars(query[j].key) /\ pairs[j][2] = Chars(query[j].value)
    BY <1>2
  <2> QED BY <2>1, <2>2 DEF PairBefore, KeyBefore
<1> HIDE DEF pairs, before
<1>4. g \in [P -> P] /\ Sorts(PairOrder, pairs, g)
  <2>1. \A f : f \in [P -> P] /\ (\A j, k \in P : j < k => Sooner(pairs, f[j], f[k]))
                 <=> Sorts(PairOrder, pairs, f)
    <3>1. \A i, j \in P : Sooner(pairs, i, j) <=> Earlier(PairOrder, pairs, i, j)
      <4>1. \A i \in P : pairs[i] \in Pair
        BY <1>1, ElementOfSeq
      <4>2. \A i, j \in P : PairBefore(pairs[i], pairs[j]) <=> <<pairs[i], pairs[j]>> \in PairOrder
        BY <4>1 DEF PairOrder
      <4> QED BY <4>2 DEF Sooner, Earlier
    <3> QED BY <1>1, <3>1 DEF Sorts
  <2>2. \E f : Sorts(PairOrder, pairs, f)
    BY <1>1, PairsOrdered, SortExists
  <2> QED BY <2>1, <2>2
<1>5. SortedPairs(pairs) = [k \in P |-> pairs[g[k]]]
  BY <1>1 DEF SortedPairs
<1> HIDE DEF g
<1>6. ASSUME NEW j \in P, NEW k \in P, j < k
      PROVE  g[j] # g[k] /\ ~before(pairs[g[k]], pairs[g[j]])
  <2>1. Earlier(PairOrder, pairs, g[j], g[k]) /\ g[j] \in P /\ g[k] \in P
    BY <1>1, <1>4, <1>6 DEF Sorts
  <2>2. pairs[g[j]] \in Pair /\ pairs[g[k]] \in Pair
    BY <1>1, <2>1, ElementOfSeq
  <2>3. \A x \in Pair : <<x, x>> \notin PairOrder
    BY PairsOrdered DEF Orders
  <2>4. g[j] # g[k]
    BY <1>1, <2>1, <2>2, <2>3 DEF Earlier
  <2>5. <<pairs[g[k]], pairs[g[j]]>> \notin PairOrder
    <3>1. \A x, y \in Pair : ~(<<x, y>> \in PairOrder /\ <<y, x>> \in PairOrder)
      BY PairsOrdered DEF Orders
    <3> QED BY <2>1, <2>2, <3>1 DEF Earlier
  <2>6. ~PairBefore(pairs[g[k]], pairs[g[j]])
    BY <2>2, <2>5 DEF PairOrder
  <2> QED BY <1>3, <2>1, <2>4, <2>6
<1>7. WrittenQuery(SortedPairs(pairs)) =
        FlattenSeq([k \in P |->
          (IF k = 1 THEN <<>> ELSE <<"&">>)
            \o Escape(pairs[g[k]][1]) \o <<"=">> \o Escape(pairs[g[k]][2])])
  <2> DEFINE z == SortedPairs(pairs)
  <2>1. Len(z) = Len(query) /\ \A k \in P : z[k] = pairs[g[k]]
    BY <1>1, <1>5
  <2> HIDE DEF z
  <2>2. WrittenQuery(z) =
          FlattenSeq([k \in P |->
            (IF k = 1 THEN <<>> ELSE <<"&">>) \o Escape(z[k][1]) \o <<"=">> \o Escape(z[k][2])])
    BY <2>1 DEF WrittenQuery
  <2> QED BY <2>1, <2>2 DEF z
<1>8. \A x : Escape(x) = Encoded(x)
  BY DEF Escape, Encoded
<1>9. CanonicalQuery(query) =
        FlattenSeq([k \in P |->
          (IF k = 1 THEN <<>> ELSE <<"&">>)
            \o Encoded(pairs[g[k]][1]) \o <<"=">> \o Encoded(pairs[g[k]][2])])
  BY <1>1, <1>7, <1>8
<1> QED BY <1>4, <1>6, <1>9 DEF Recomputed, before, pairs

-----------------------------------------------------------------------------
(* What Sign signs is what the service finds.                              *)

\* What an escaped path is made of.
Valid == {c \in Letters : c \in {"%", "/"} \cup PathKept \/ c \notin DOMAIN Reserved}

Paths == Seq(Valid)

\* What the service makes of a character of the path it has received.
ServiceCode(c) ==
  CASE c = "%" -> <<"%", "25">>
    [] c \in PathKept -> <<"%", Reserved[c]>>
    [] OTHER -> <<c>>

\* The service and canonicalURI make the same of a path that is escaped.
LEMMA SameCode ==
  ASSUME NEW e \in Paths
  PROVE  /\ e \in Texts
         /\ FlattenSeq([k \in 1..Len(e) |-> ServiceCode(e[k])]) = FlattenSeq(Coded(Slash, e))
<1>1. Len(e) \in Nat /\ e = [k \in 1..Len(e) |-> e[k]] /\ \A k \in 1..Len(e) : e[k] \in Valid
  BY LenProperties, ElementOfSeq DEF Paths
<1>2. \A k \in 1..Len(e) : e[k] \in Letters
  BY <1>1 DEF Valid
<1>3. e \in Texts
  BY <1>1, <1>2 DEF Texts
<1>4. ASSUME NEW c \in Valid PROVE ServiceCode(c) = Code(Slash, c)
  <2>1. PathKept \subseteq DOMAIN Reserved \ {"%", "/"}
    BY RequestAssumption
  <2>2. CASE c = "%"
    BY <2>2, Digits DEF ServiceCode, Code, Slash
  <2>3. CASE c \in PathKept
    BY <2>1, <2>3, Digits DEF ServiceCode, Code, Slash
  <2>4. CASE c # "%" /\ c \notin PathKept
    <3>1. c = "/" \/ c \notin DOMAIN Reserved
      BY <2>4 DEF Valid
    <3> QED BY <2>4, <3>1 DEF ServiceCode, Code, Slash
  <2> QED BY <2>2, <2>3, <2>4
<1>5. [k \in 1..Len(e) |-> ServiceCode(e[k])] = Coded(Slash, e)
  BY <1>1, <1>4 DEF Coded
<1> QED BY <1>3, <1>5

\* url.PathEscape leaves nothing that may not stand in a path, and the path
\* around it is one as well.
LEMMA PathsAreEscaped ==
  ASSUME NEW s \in Texts
  PROVE  Path(PathEscape(s)) \in Paths
<1>1. "/" \in Valid /\ "model" \in Valid /\ "converse-stream" \in Valid /\ "%" \in Valid
  BY RequestAssumption, QuotedAreStrings DEF Valid, Letters
<1> DEFINE E(c) == IF c \in DOMAIN Reserved \ PathKept THEN <<"%", Reserved[c]>> ELSE <<c>>
           p == [k \in 1..Len(s) |-> E(s[k])]
<1>2. Len(s) \in Nat /\ \A k \in 1..Len(s) : s[k] \in Letters
  BY CodedType
<1>3. ASSUME NEW c \in Letters PROVE E(c) \in Seq(Valid)
  <2>1. CASE c \in DOMAIN Reserved \ PathKept
    <3>1. Reserved[c] \in Valid
      BY <2>1, Digits DEF Valid
    <3> QED BY <1>1, <2>1, <3>1
  <2>2. CASE c \notin DOMAIN Reserved \ PathKept
    <3>1. c \in Valid
      BY <2>2 DEF Valid
    <3> QED BY <2>2, <3>1
  <2> QED BY <2>1, <2>2
<1>4. p \in Seq(Seq(Valid))
  <2> HIDE DEF E
  <2> QED BY <1>2, <1>3
<1>5. PathEscape(s) = FlattenSeq(p)
  BY DEF PathEscape
<1>6. PathEscape(s) \in Seq(Valid)
  BY <1>4, <1>5, FlattenType
<1>7. <<"/", "model", "/">> \in Seq(Valid) /\ <<"/", "converse-stream">> \in Seq(Valid)
  BY <1>1
<1> DEFINE a == <<"/", "model", "/">>
           z == <<"/", "converse-stream">>
<1>8. Path(PathEscape(s)) = (a \o PathEscape(s)) \o z
  BY DEF Path
<1> HIDE DEF a, z
<1>9. a \in Seq(Valid) /\ z \in Seq(Valid)
  BY <1>7 DEF a, z
<1> QED BY <1>6, <1>8, <1>9, ConcatProperties DEF Paths

\* The empty path goes over the wire as one, too.
LEMMA WirePaths ==
  ASSUME NEW e \in Paths
  PROVE  e \in Texts /\ OnWire(e) \in Paths
<1>1. "/" \in Valid
  BY Digits DEF Valid
<1>2. <<"/">> \in Seq(Valid)
  BY <1>1
<1> QED BY <1>2, SameCode DEF OnWire, Paths

\* One sequence of pieces stands in another, with nothing around it.
LEMMA Around ==
  ASSUME NEW p \in Seq(Texts), NEW q \in Seq(Texts), NEW a \in Nat,
         a + Len(q) <= Len(p),
         \A k \in 1..Len(p) : p[k] = IF k \in (a + 1)..(a + Len(q)) THEN q[k - a] ELSE <<>>
  PROVE  FlattenSeq(p) = FlattenSeq(q)
BY FlattenPadded DEF Texts

\* The pieces that trimSequentialSpaces puts behind one another, and those of
\* the service, which does not trim first.
Trimmed(t, k) == IF ~IsBlank(t[k]) THEN <<t[k]>> ELSE IF IsBlank(t[k - 1]) THEN <<>> ELSE <<" ">>
Word(s, k) ==
  IF Solid(s, k) THEN <<s[k]>>
  ELSE IF k > 1 /\ Solid(s, k - 1) /\ \E j \in k..Len(s) : Solid(s, j) THEN <<" ">> ELSE <<>>

\* The pieces are texts.
LEMMA PieceTypes ==
  ASSUME NEW s \in Texts
  PROVE  /\ Len(s) \in Nat
         /\ [k \in 1..Len(s) |-> Trimmed(s, k)] \in Seq(Texts)
         /\ [k \in 1..Len(s) |-> Word(s, k)] \in Seq(Texts)
<1>1. Len(s) \in Nat /\ \A k \in 1..Len(s) : s[k] \in Letters
  BY CodedType
<1>2. " " \in Letters
  BY QuotedAreStrings DEF Letters
<1>3. <<>> \in Texts /\ <<" ">> \in Texts /\ \A k \in 1..Len(s) : <<s[k]>> \in Texts
  <2>1. <<>> \in Seq(Letters)
    OBVIOUS
  <2> QED BY <1>1, <1>2, <2>1, OneLetter DEF Texts
<1>4. \A k \in 1..Len(s) : Trimmed(s, k) \in Texts /\ Word(s, k) \in Texts
  BY <1>3 DEF Trimmed, Word
<1> QED BY <1>1, <1>4

\* trimSequentialSpaces leaves the words of a header with one space between
\* them, however the blanks stand.
LEMMA SameWords ==
  ASSUME NEW s \in Texts
  PROVE  TrimSequentialSpaces(s) = OneSpace(s)
<1> DEFINE solid == {k \in 1..Len(s) : Solid(s, k)}
           p == [k \in 1..Len(s) |-> Word(s, k)]
<1>1. Len(s) \in Nat /\ p \in Seq(Texts) /\ Len(p) = Len(s)
  BY PieceTypes
<1>2. OneSpace(s) = FlattenSeq(p)
  BY DEF OneSpace, Word
<1>3. CASE solid = {}
  <2>1. TrimSpace(s) = <<>>
    BY <1>3 DEF TrimSpace, Solid
  <2>2. TrimSequentialSpaces(s) = FlattenSeq([k \in 1..0 |-> Trimmed(<<>>, k)])
    BY <2>1 DEF TrimSequentialSpaces, Trimmed
  <2>3. [k \in 1..0 |-> Trimmed(<<>>, k)] = <<>>
    <3>1. 1..0 = {}
      OBVIOUS
    <3> QED BY <3>1
  <2>4. ASSUME NEW k \in 1..Len(p) PROVE p[k] = <<>>
    <3>1. k \in 1..Len(s) /\ p[k] = Word(s, k)
      BY <1>1
    <3>2. \A j \in 1..Len(s) : ~Solid(s, j)
      BY <1>3
    <3>3. \A j \in k..Len(s) : j \in 1..Len(s)
      BY <1>1, <3>1
    <3>4. Word(s, k) = <<>>
      BY <3>1, <3>2, <3>3 DEF Word
    <3> QED BY <3>1, <3>4
  <2>5. FlattenSeq(p) = FlattenSeq(<<>>)
    <3> DEFINE none == <<>>
               a == 0
    <3>1. none \in Seq(Texts) /\ Len(none) = 0 /\ a \in Nat /\ a + 0 <= Len(p)
          /\ \A k \in 1..Len(p) : k \notin (a + 1)..(a + 0)
      BY <1>1
    <3> HIDE DEF none, p, a
    <3>2. \A k \in 1..Len(p) : p[k] = IF k \in (a + 1)..(a + Len(none)) THEN none[k - a] ELSE <<>>
      BY <2>4, <3>1
    <3>3. FlattenSeq(p) = FlattenSeq(none)
      BY <1>1, <3>1, <3>2, Around
    <3> QED BY <3>3 DEF none
  <2> QED BY <1>2, <2>2, <2>3, <2>5
<1>4. CASE solid # {}
  <2>1. solid \subseteq Nat /\ solid \subseteq 0..Len(s) /\ solid \subseteq Int
    BY <1>1
  <2>2. PICK f \in solid : \A k \in solid : f <= k
    <3> HIDE DEF solid
    <3> QED BY <1>4, <2>1, Smallest
  <2>3. PICK l \in solid : \A k \in solid : k <= l
    <3> HIDE DEF solid
    <3> QED BY <1>1, <1>4, <2>1, Largest
  <2>4. SelectInSeq(s, LAMBDA c : ~IsBlank(c)) = f
    <3>1. Min(solid) = f
      <4> HIDE DEF solid
      <4> QED BY <2>1, <2>2, MinMax
    <3>2. solid = {k \in 1..Len(s) : ~IsBlank(s[k])}
      BY DEF Solid
    <3> QED BY <1>4, <3>1, <3>2 DEF SelectInSeq
  <2>5. SelectLastInSeq(s, LAMBDA c : ~IsBlank(c)) = l
    <3>1. Max(solid) = l
      <4> HIDE DEF solid
      <4> QED BY <2>1, <2>3, MinMax
    <3>2. solid = {k \in 1..Len(s) : ~IsBlank(s[k])}
      BY DEF Solid
    <3> QED BY <1>4, <3>1, <3>2 DEF SelectLastInSeq
  <2> DEFINE t == SubSeq(s, f, l)
             q == [k \in 1..Len(t) |-> Trimmed(t, k)]
  <2>6. TrimSpace(s) = t
    <3>1. {k \in 1..Len(s) : ~IsBlank(s[k])} # {}
      BY <1>4 DEF Solid
    <3> QED BY <2>4, <2>5, <3>1 DEF TrimSpace
  <2>7. TrimSequentialSpaces(s) = FlattenSeq(q)
    BY <2>6 DEF TrimSequentialSpaces, Trimmed
  <2>8. f \in 1..Len(s) /\ l \in 1..Len(s) /\ f <= l /\ Solid(s, f) /\ Solid(s, l)
    BY <2>2, <2>3
  <2>9. /\ t \in Texts /\ Len(t) = (l - f) + 1
        /\ \A k \in 1..((l - f) + 1) : t[k] = s[(f + k) - 1]
    BY <1>1, <2>8, SubSeqProperties DEF Texts
  <2>10. q \in Seq(Texts) /\ Len(q) = (l - f) + 1
    <3> HIDE DEF t
    <3> QED BY <2>9, PieceTypes
  <2>11. ASSUME NEW k \in 1..Len(s)
         PROVE  Word(s, k) = IF k \in f..l THEN Trimmed(t, (k - f) + 1) ELSE <<>>
    <3> HIDE DEF t
    <3>1. CASE k \notin f..l
      <4>1. ~Solid(s, k)
        BY <1>1, <2>2, <2>3, <2>8, <3>1
      <4>2. k < f => ~(k > 1 /\ Solid(s, k - 1))
        BY <1>1, <2>2, <2>8
      <4>3. k > l => ~\E j \in k..Len(s) : Solid(s, j)
        BY <1>1, <2>3, <2>8
      <4>4. k < f \/ k > l
        BY <1>1, <2>8, <3>1
      <4> QED BY <3>1, <4>1, <4>2, <4>3, <4>4 DEF Word
    <3>2. CASE k \in f..l
      <4> DEFINE i == (k - f) + 1
      <4>1. i \in 1..((l - f) + 1) /\ (f + i) - 1 = k
        BY <1>1, <2>8, <3>2
      <4> HIDE DEF i
      <4>2. t[i] = s[k]
        BY <2>9, <4>1
      <4>3. CASE Solid(s, k)
        BY <3>2, <4>2, <4>3 DEF Word, Trimmed, Solid, i
      <4>4. CASE ~Solid(s, k)
        <5>1. k # f /\ k > 1 /\ i - 1 \in 1..((l - f) + 1) /\ (f + (i - 1)) - 1 = k - 1
          BY <1>1, <2>8, <3>2, <4>1, <4>4
        <5>2. t[i - 1] = s[k - 1]
          BY <2>9, <5>1
        <5>3. \E j \in k..Len(s) : Solid(s, j)
          BY <1>1, <2>8, <3>2
        <5>4. Word(s, k) = IF Solid(s, k - 1) THEN <<" ">> ELSE <<>>
          BY <4>4, <5>1, <5>3 DEF Word
        <5>5. Trimmed(t, i) = IF IsBlank(t[i - 1]) THEN <<>> ELSE <<" ">>
          BY <4>2, <4>4 DEF Trimmed, Solid
        <5> QED BY <3>2, <5>2, <5>4, <5>5 DEF Solid, i
      <4> QED BY <4>3, <4>4
    <3> QED BY <3>1, <3>2
  <2>12. FlattenSeq(p) = FlattenSeq(q)
    <3> DEFINE a == f - 1
    <3>1. a \in Nat /\ a + Len(q) = l /\ a + 1 = f /\ l <= Len(p)
      BY <1>1, <2>8, <2>10
    <3>2. ASSUME NEW k \in 1..Len(p)
          PROVE  p[k] = IF k \in (a + 1)..(a + Len(q)) THEN q[k - a] ELSE <<>>
      <4>1. k \in 1..Len(s) /\ p[k] = Word(s, k)
        BY <1>1
      <4>2. k \in f..l => k - a = (k - f) + 1 /\ (k - f) + 1 \in 1..Len(t)
        BY <1>1, <2>8, <2>9
      <4>3. k \in f..l => q[k - a] = Trimmed(t, (k - f) + 1)
        <5> HIDE DEF t, a
        <5> QED BY <4>2
      <4> HIDE DEF a, q, p, t
      <4> QED BY <2>11, <3>1, <4>1, <4>3
    <3> HIDE DEF a, p, q
    <3> QED BY <1>1, <2>10, <3>1, <3>2, Around
  <2> QED BY <1>2, <2>7, <2>12
<1> QED BY <1>3, <1>4

\* A request that nobody has signed, with a path that is escaped and texts in
\* its headers, none of them one that a signature adds and the next would find.
Base(q) ==
  /\ DOMAIN q = RequestFields
  /\ q.host \in Texts /\ q.body \in Texts /\ q.escaped \in Paths /\ q.auth = NoAuth
  /\ q.query \in Seq(Part)
  /\ \A n \in DOMAIN q.headers :
       q.headers[n] \in Texts /\ n \notin {"authorization", "x-amz-security-token"}

\* The headers that Sign has set before it signs: all it signs is a text, and
\* there is a session token among them only if the credentials have one.
LEMMA PreparedHeaders ==
  ASSUME NEW q, Base(q), NEW cred, cred.token \in Texts, NEW date \in Texts
  PROVE  LET H == Prepared(q, cred, date)
         IN /\ {"host", "x-amz-date", "x-amz-content-sha256"} \subseteq DOMAIN H
            /\ "authorization" \notin DOMAIN H
            /\ \A n \in DOMAIN H : H[n] \in Texts
            /\ H["host"] = q.host /\ H["x-amz-date"] = date
            /\ H["x-amz-content-sha256"] = q.body
            /\ IF cred.token = <<>> THEN "x-amz-security-token" \notin DOMAIN H
               ELSE "x-amz-security-token" \in DOMAIN H /\ H["x-amz-security-token"] = cred.token
<1> DEFINE A == With(q.headers, "host", q.host)
           B == With(A, "x-amz-date", date)
           C == With(B, "x-amz-content-sha256", q.body)
<1>2. /\ DOMAIN A = DOMAIN q.headers \cup {"host"}
      /\ \A m \in DOMAIN A : A[m] = IF m = "host" THEN q.host ELSE q.headers[m]
  BY DEF With
<1> HIDE DEF A
<1>3. /\ DOMAIN B = DOMAIN A \cup {"x-amz-date"}
      /\ \A m \in DOMAIN B : B[m] = IF m = "x-amz-date" THEN date ELSE A[m]
  BY DEF With
<1> HIDE DEF B
<1>4. /\ DOMAIN C = DOMAIN B \cup {"x-amz-content-sha256"}
      /\ \A m \in DOMAIN C : C[m] = IF m = "x-amz-content-sha256" THEN q.body ELSE B[m]
  BY DEF With
<1> HIDE DEF C
<1>5. Prepared(q, cred, date) = IF cred.token = <<>> THEN C
                                ELSE With(C, "x-amz-security-token", cred.token)
  BY DEF Prepared, WithToken, A, B, C
<1>6. /\ {"host", "x-amz-date", "x-amz-content-sha256"} \subseteq DOMAIN C
      /\ {"authorization", "x-amz-security-token"} \cap DOMAIN C = {}
      /\ \A n \in DOMAIN C : C[n] \in Texts
      /\ C["host"] = q.host /\ C["x-amz-date"] = date /\ C["x-amz-content-sha256"] = q.body
  <2>1. /\ \A n \in DOMAIN q.headers : q.headers[n] \in Texts
        /\ {"authorization", "x-amz-security-token"} \cap DOMAIN q.headers = {}
        /\ q.host \in Texts /\ q.body \in Texts
    BY DEF Base
  <2>2. \A n \in DOMAIN A : A[n] \in Texts
    BY <1>2, <2>1
  <2>3. \A n \in DOMAIN B : B[n] \in Texts
    BY <1>3, <2>2
  <2>4. \A n \in DOMAIN C : C[n] \in Texts
    BY <1>4, <2>1, <2>3
  <2>5. /\ {"host", "x-amz-date", "x-amz-content-sha256"} \subseteq DOMAIN C
        /\ {"authorization", "x-amz-security-token"} \cap DOMAIN C = {}
    BY <1>2, <1>3, <1>4, <2>1
  <2>6. C["host"] = q.host /\ C["x-amz-date"] = date /\ C["x-amz-content-sha256"] = q.body
    BY <1>2, <1>3, <1>4
  <2> QED BY <2>4, <2>5, <2>6
<1>7. CASE cred.token = <<>>
  BY <1>5, <1>6, <1>7
<1>8. CASE cred.token # <<>>
  <2> DEFINE H == With(C, "x-amz-security-token", cred.token)
  <2>1. /\ DOMAIN H = DOMAIN C \cup {"x-amz-security-token"}
        /\ \A m \in DOMAIN H : H[m] = IF m = "x-amz-security-token" THEN cred.token ELSE C[m]
    BY DEF With
  <2>2. Prepared(q, cred, date) = H
    BY <1>5, <1>8
  <2> HIDE DEF H
  <2> QED BY <1>6, <1>8, <2>1, <2>2
<1> QED BY <1>7, <1>8

\* Whatever the request and the credentials, what Sign makes is what the service
\* makes of the request it receives.
LEMMA SignedVerifies ==
  ASSUME NEW q, Base(q), NEW cred \in Credentials, NEW date \in Texts, NEW region
  PROVE  LET r == Sign(q, cred, date, region)
         IN /\ RestVerifies(r) /\ r.host = q.host /\ r.escaped \in Texts
            /\ r.auth.uri = CanonicalURI(r) /\ r.auth.region = region
            /\ r.query = q.query /\ r.auth.query = CanonicalQuery(r.query)
            /\ DOMAIN r = RequestFields /\ r.reader = "full"
<1> DEFINE H == Prepared(q, cred, date)
           r == Sign(q, cred, date, region)
           g == Received(r)
           sig == Signature(q, H, cred, date, region)
<1>1. cred.token \in Texts
  BY RequestAssumption
<1>2. /\ {"host", "x-amz-date", "x-amz-content-sha256"} \subseteq DOMAIN H
      /\ "authorization" \notin DOMAIN H
      /\ \A n \in DOMAIN H : H[n] \in Texts
      /\ H["host"] = q.host /\ H["x-amz-date"] = date
      /\ H["x-amz-content-sha256"] = q.body
      /\ IF cred.token = <<>> THEN "x-amz-security-token" \notin DOMAIN H
         ELSE "x-amz-security-token" \in DOMAIN H /\ H["x-amz-security-token"] = cred.token
  BY <1>1, PreparedHeaders
<1>3. /\ sig.key = cred.key /\ sig.date = date /\ sig.region = region /\ sig.signed = DOMAIN H
      /\ sig.uri = CanonicalURI(q) /\ sig.query = CanonicalQuery(q.query) /\ sig.payload = q.body
      /\ sig.headers = [n \in DOMAIN H |-> TrimSequentialSpaces(H[n])]
  BY DEF Signature, CanonicalHeaders
<1>4. /\ DOMAIN r = RequestFields /\ r.reader = "full" /\ r.auth = sig
      /\ r.headers = With(H, "authorization", date)
      /\ r.host = q.host /\ r.escaped = q.escaped /\ r.query = q.query /\ r.body = q.body
  <2> HIDE DEF H, sig
  <2>1. r = [q EXCEPT !.headers = With(H, "authorization", date), !.auth = sig, !.reader = "full"]
    BY DEF Sign, H, sig
  <2>2. DOMAIN q = RequestFields
    BY DEF Base
  <2> HIDE DEF r
  <2> QED BY <2>1, <2>2 DEF RequestFields
<1>5. CanonicalURI(r) = CanonicalURI(q)
  <2> HIDE DEF r
  <2> QED BY <1>4 DEF CanonicalURI
<1> HIDE DEF H, sig, r
<1>6. /\ g.headers = With(With(H, "authorization", date), "host", q.host)
      /\ g.escaped = OnWire(q.escaped) /\ g.body = q.body /\ g.auth = sig
  BY <1>4 DEF Received, RequestFields
<1> HIDE DEF g
<1>7. /\ DOMAIN g.headers = DOMAIN H \cup {"authorization"}
      /\ \A n \in DOMAIN H : g.headers[n] = H[n]
  <2> DEFINE K == With(H, "authorization", date)
  <2>1. /\ DOMAIN K = DOMAIN H \cup {"authorization"}
        /\ \A n \in DOMAIN K : K[n] = IF n = "authorization" THEN date ELSE H[n]
    BY DEF With
  <2> HIDE DEF K
  <2>2. /\ DOMAIN With(K, "host", q.host) = DOMAIN K \cup {"host"}
        /\ \A n \in DOMAIN K : With(K, "host", q.host)[n] = IF n = "host" THEN q.host ELSE K[n]
    BY DEF With
  <2>3. g.headers = With(K, "host", q.host)
    BY <1>6 DEF K
  <2> QED BY <1>2, <2>1, <2>2, <2>3
<1>8. sig.headers = [n \in sig.signed |-> OneSpace(g.headers[n])]
  <2>1. \A n \in DOMAIN H : TrimSequentialSpaces(H[n]) = OneSpace(g.headers[n])
    BY <1>2, <1>7, SameWords
  <2> QED BY <1>3, <2>1
<1>9. sig.uri = FlattenSeq([k \in 1..Len(g.escaped) |-> ServiceCode(g.escaped[k])])
  <2> DEFINE e == OnWire(q.escaped)
  <2>1. q.escaped \in Texts /\ e \in Paths
    BY WirePaths DEF Base
  <2>2. CanonicalURI(q) = FlattenSeq(Coded(Slash, e))
    BY <2>1, CanonicalIsCode
  <2>3. g.escaped = e
    BY <1>6
  <2> HIDE DEF e
  <2> QED BY <1>3, <2>1, <2>2, <2>3, SameCode
<1>10. \E c \in Credentials :
         /\ c.key = sig.key
         /\ c.token = IF "x-amz-security-token" \in DOMAIN g.headers
                        THEN g.headers["x-amz-security-token"] ELSE <<>>
  BY <1>2, <1>3, <1>7
<1>11. RestVerifies(r)
  <2>1. {"host"} \cup ({"x-amz-date", "x-amz-content-sha256", "x-amz-security-token"}
                         \cap DOMAIN g.headers) \subseteq sig.signed
    BY <1>2, <1>3, <1>7
  <2>2. /\ sig.signed \subseteq DOMAIN g.headers /\ sig.date = g.headers["x-amz-date"]
        /\ sig.payload = g.body /\ g.headers["x-amz-content-sha256"] = g.body
    BY <1>2, <1>3, <1>6, <1>7
  <2>3. sig.uri = FlattenSeq([k \in 1..Len(g.escaped) |->
                    CASE g.escaped[k] = "%" -> <<"%", "25">>
                      [] g.escaped[k] \in PathKept -> <<"%", Reserved[g.escaped[k]]>>
                      [] OTHER -> <<g.escaped[k]>>])
    BY <1>9 DEF ServiceCode
  <2>4. g.auth = sig /\ g = Received(r)
    BY <1>6 DEF g
  <2> QED BY <1>8, <1>10, <2>1, <2>2, <2>3, <2>4 DEF RestVerifies
<1>12. r.escaped \in Texts
  BY <1>4, WirePaths DEF Base
<1> QED BY <1>3, <1>4, <1>5, <1>11, <1>12 DEF r

-----------------------------------------------------------------------------
(* What is sent.                                                           *)

\* A request that may leave: it bears the token, or it is signed for the path
\* it goes to, for its query and, if the host is that of a region, for this region.
Right(r, who, c, o) ==
  IF who = "client" /\ c.token # ""
    THEN r.auth = NoAuth /\ r.headers["authorization"] = <<"Bearer ", c.token>>
    ELSE /\ RestVerifies(r) /\ r.escaped \in Texts /\ r.auth.uri = CanonicalURI(r)
         /\ r.query \in Seq(Part) /\ r.auth.query = CanonicalQuery(r.query)
         /\ who = "client" /\ c.endpoint = "" =>
              r.host = <<"bedrock-runtime.", r.auth.region, ".amazonaws.com">>
         /\ who = "role" /\ o.endpoint = "" =>
              r.host = <<"sts.", r.auth.region, ".amazonaws.com">>

\* A caller's own request is unsigned until SignOwn, an attempt's is the fresh
\* one until it has been signed, and it is right from then on, if it has a host.
SignInv ==
  /\ call = "own" => Base(req)
  /\ call = "auth" => req = Fresh
  /\ call = "send" /\ req.host # <<>> => Right(req, caller, client, own)
  /\ \A k \in 1..Len(sent) : Right(sent[k], caller, client, own)

\* The host of an endpoint or a region is a text, or nothing.
LEMMA HostIsText ==
  ASSUME NEW e \in Letters, NEW v \in {"sts.", "bedrock-runtime."}, NEW g \in Letters
  PROVE  HostOf(e, v, g) \in Texts
<1>1. v \in Letters /\ ".amazonaws.com" \in Letters
  BY QuotedAreStrings DEF Letters
<1>2. <<e>> \in Seq(Letters) /\ <<>> \in Seq(Letters)
  OBVIOUS
<1>3. <<v, g, ".amazonaws.com">> \in Seq(Letters)
  BY <1>1
<1> QED BY <1>2, <1>3 DEF HostOf, Texts

\* The request of a new attempt is one that nobody has signed.
LEMMA FreshIsBase ==
  ASSUME ConfigInv, TypeInv
  PROVE  Base(Fresh)
<1>1. client.endpoint \in Letters /\ client.host \in Letters
  BY DEF ConfigInv, ConfigTypeOK, Letters
<1>2. "json" \in Letters /\ "eventstream" \in Letters
  BY QuotedAreStrings DEF Letters
<1>3. Host \in Texts
  BY <1>1, HostIsText DEF Host
<1>4. <<"json">> \in Texts /\ <<"eventstream">> \in Texts
  BY <1>2, OneLetter
<1>5. Path(PathEscape(input.model)) \in Paths
  <2>1. input.model \in Texts
    BY DEF TypeInv, Input, Texts, Letters
  <2> QED BY <2>1, PathsAreEscaped
<1>6. /\ Fresh.host = Host /\ Fresh.body = <<"json">> /\ Fresh.auth = NoAuth
      /\ Fresh.escaped = Path(PathEscape(input.model)) /\ Fresh.query = <<>>
      /\ DOMAIN Fresh.headers = {"content-type", "accept"}
      /\ \A n \in DOMAIN Fresh.headers : Fresh.headers[n] \in {<<"json">>, <<"eventstream">>}
  BY DEF Fresh
<1>7. <<>> \in Seq(Part)
  OBVIOUS
<1> QED BY <1>3, <1>4, <1>5, <1>6, <1>7, FreshFields DEF Base

\* The first value that is set is one of the values, and there is one if any is set.
LEMMA FirstIsText ==
  ASSUME NEW s \in Seq(STRING)
  PROVE  FirstSet(s) \in STRING /\ ((\E i \in 1..Len(s) : s[i] # "") => FirstSet(s) # "")
<1> DEFINE I == {i \in 1..Len(s) : s[i] # ""}
<1>1. FirstSet(s) = IF I # {} THEN s[Min(I)] ELSE ""
  BY DEF FirstSet, SelectInSeq
<1>2. Len(s) \in Nat /\ \A i \in 1..Len(s) : s[i] \in STRING
  BY LenProperties, ElementOfSeq
<1>5. \A i : i \in I <=> i \in 1..Len(s) /\ s[i] # ""
  OBVIOUS
<1>6. "" \in STRING
  BY QuotedAreStrings
<1> HIDE DEF I
<1>3. CASE I = {}
  <2>1. FirstSet(s) = "" /\ ~\E i \in 1..Len(s) : s[i] # ""
    BY <1>1, <1>3, <1>5
  <2> QED BY <1>6, <2>1
<1>4. CASE I # {}
  <2>0. \A i \in I : i \in 1..Len(s)
    BY <1>5
  <2>1. I \subseteq Nat
    BY <1>2, <2>0
  <2>2. PICK m \in I : \A j \in I : m <= j
    BY <1>4, <2>1, Smallest
  <2>3. Min(I) = m
    <3>1. I \subseteq Int
      BY <2>1
    <3> QED BY <2>2, <3>1, MinMax
  <2>4. m \in 1..Len(s) /\ s[m] # ""
    BY <1>5, <2>2
  <2>5. FirstSet(s) = s[m]
    BY <1>1, <1>4, <2>3
  <2> QED BY <1>2, <2>4, <2>5
<1> QED BY <1>3, <1>4

\* The region of STS is one of those it may come from.
LEMMA StsRegionIsText ==
  ASSUME SetupInv, own \in Own
  PROVE  StsRegion \in STRING \ {""}
<1> DEFINE s == <<own.region, own.profile, setup.env.region, setup.env.defaultRegion, DefaultRegion>>
<1>1. /\ own.region \in STRING /\ own.profile \in STRING
      /\ setup.env.region \in STRING /\ setup.env.defaultRegion \in STRING
      /\ DefaultRegion \in STRING \ {""}
  BY ConfigAssumption DEF SetupInv, Own
<1>5. ASSUME NEW S, NEW a \in S, NEW b \in S, NEW c \in S, NEW d \in S, NEW e \in S
      PROVE  <<a, b, c, d, e>> \in Seq(S)
  OBVIOUS
<1>6. s \in Seq(STRING)
  BY <1>1, <1>5
<1>2. Len(s) = 5 /\ s[5] = DefaultRegion
  OBVIOUS
<1>3. StsRegion = FirstSet(s)
  BY DEF StsRegion
<1> HIDE DEF s
<1>4. 5 \in 1..Len(s)
  BY <1>2
<1>7. s[5] # ""
  BY <1>1, <1>2
<1> QED BY <1>3, <1>4, <1>6, <1>7, FirstIsText

\* Nobody has signed the request to STS, and Sign makes no difficulty if it has a
\* host.
LEMMA RoleIsBase ==
  ASSUME SetupInv, own \in Own
  PROVE  /\ Base(RoleRequest)
         /\ \A cred : cred.key # "" /\ RoleRequest.host # <<>> =>
              CanSign(RoleRequest, cred, StsRegion)
         /\ own.endpoint = "" => RoleRequest.host = <<"sts.", StsRegion, ".amazonaws.com">>
<1> DEFINE path == IF own.endpoint = "" THEN <<"/">> ELSE <<>>
<1>1. StsRegion \in STRING \ {""} /\ own.endpoint \in Letters
  BY StsRegionIsText DEF Own, Letters
<1>2. /\ RoleRequest.host = HostOf(own.endpoint, "sts.", StsRegion)
      /\ RoleRequest.escaped = path /\ RoleRequest.query = <<>> /\ RoleRequest.body = <<"form">>
      /\ RoleRequest.auth = NoAuth /\ RoleRequest.reader = "full"
      /\ DOMAIN RoleRequest.headers = {"content-type", "accept"}
      /\ \A n \in DOMAIN RoleRequest.headers : RoleRequest.headers[n] \in {<<"form">>, <<"xml">>}
  BY DEF RoleRequest
<1>3. RoleRequest.host \in Texts
  BY <1>1, <1>2, HostIsText DEF Letters
<1>4. path \in Paths
  <2>1. "/" \in Valid
    BY Digits DEF Valid
  <2>2. <<"/">> \in Seq(Valid) /\ <<>> \in Seq(Valid)
    BY <2>1
  <2> QED BY <2>2 DEF Paths
<1>5. <<"form">> \in Texts /\ <<"xml">> \in Texts
  <2>1. "form" \in Letters /\ "xml" \in Letters
    BY QuotedAreStrings DEF Letters
  <2> QED BY <2>1, OneLetter
<1>8. <<>> \in Seq(Part)
  OBVIOUS
<1> HIDE DEF path
<1>6. Base(RoleRequest)
  BY <1>2, <1>3, <1>4, <1>5, <1>8, RoleFields DEF Base
<1>7. own.endpoint = "" => RoleRequest.host = <<"sts.", StsRegion, ".amazonaws.com">>
  BY <1>2 DEF HostOf
<1> QED BY <1>1, <1>2, <1>6, <1>7 DEF CanSign

\* A request that is brought along has been signed by nobody.
LEMMA OwnIsBase ==
  ASSUME NEW r, Unsigned(r)
  PROVE  Base(r)
<1>1. r.escaped \in Texts /\ r.host \in Texts /\ r.body \in Texts
  BY DEF Unsigned
<1>2. Len(r.escaped) \in Nat /\ r.escaped = [k \in 1..Len(r.escaped) |-> r.escaped[k]]
      /\ \A k \in 1..Len(r.escaped) : r.escaped[k] \in Letters
  BY <1>1, LenProperties, ElementOfSeq DEF Texts
<1>3. \A k \in 1..Len(r.escaped) : r.escaped[k] \in Valid
  BY <1>2 DEF Unsigned, Valid
<1>4. r.escaped \in Paths
  BY <1>2, <1>3 DEF Paths
<1>5. r.query \in Seq(Part)
  BY DEF Unsigned
<1> QED BY <1>1, <1>4, <1>5 DEF Unsigned, Base, RequestFields

\* The host of a client without an endpoint is that of the region that signs.
LEMMA HostOfRegion ==
  ASSUME ConfigInv, phase = "ready", client.endpoint = ""
  PROVE  Host = <<"bedrock-runtime.", client.region, ".amazonaws.com">>
BY DEF ConfigInv, FromEndpoint, Host, HostOf

\* At first nothing has been signed.
LEMMA SignStarts == RequestInit => SignInv
<1> SUFFICES ASSUME RequestInit PROVE SignInv
  OBVIOUS
<1>1. PICK w \in Worlds : caller = w.caller /\ req = w.request
  BY DEF RequestInit
<1>2. Base(req)
  BY <1>1, RequestAssumption, OwnIsBase
<1>3. Len(sent) = 0 /\ call \in {"config", "role", "own"}
  <2>1. caller \in {"client", "role", "other"}
    BY <1>1, RequestAssumption
  <2> QED BY <2>1 DEF RequestInit
<1> QED BY <1>2, <1>3 DEF SignInv

\* What has been signed is sent as it is.
LEMMA SignStep ==
  ASSUME ConfigInv, TypeInv, FlowInv, SignInv, [RequestNext]_requestVars
  PROVE  SignInv'
<1>1. CASE UNCHANGED requestVars
  BY <1>1 DEF requestVars, configVars, SignInv, Fresh, Host
<1>9. ASSUME UNCHANGED <<client, caller, own, sent>>, call' \in {"failed", "panicked", "attempt", "done"}
      PROVE  SignInv'
  BY <1>9 DEF SignInv
<1>2. CASE Configure
  <2>1. call' = "config" /\ sent' = sent /\ sent = <<>>
    BY <1>2 DEF Configure, FlowInv
  <2>2. Len(sent') = 0
    BY <2>1
  <2> QED BY <2>1, <2>2 DEF SignInv
<1>3. CASE BuildBody
  BY <1>3 DEF BuildBody, configVars, SignInv
<1>4. CASE NewAttempt
  <2>1. UNCHANGED <<client, caller, own, input, sent>>
    BY <1>4 DEF NewAttempt, configVars
  <2>2. Fresh' = Fresh
    BY <2>1 DEF Fresh, Host
  <2>3. (call' = "auth" /\ req' = Fresh) \/ call' = "failed"
    BY <1>4 DEF NewAttempt, Begun
  <2>4. CASE call' = "auth" /\ req' = Fresh
    BY <2>1, <2>2, <2>4 DEF SignInv
  <2>5. CASE call' = "failed"
    BY <1>9, <2>1, <2>5
  <2> QED BY <2>3, <2>4, <2>5
<1>10. CASE Unsendable
  BY <1>9, <1>10 DEF Unsendable, configVars
<1>11. CASE AssumeRole
  <2>1. call = "role" /\ UNCHANGED <<client, caller, own, sent>>
    BY <1>11 DEF AssumeRole, configVars
  <2>2. CASE call' = "panicked"
    BY <1>9, <2>1, <2>2
  <2>3. CASE call' # "panicked"
    <3> DEFINE d == Dates[now]
    <3>1. PICK cred \in Credentials :
            /\ cred.key # "" /\ call' = "send"
            /\ req' = IF CanSign(RoleRequest, cred, StsRegion)
                        THEN Sign(RoleRequest, cred, d, StsRegion) ELSE RoleRequest
      BY <1>11, <2>3 DEF AssumeRole
    <3>2. d \in Texts
      BY RequestAssumption, ElementOfSeq DEF TypeInv
    <3>3. /\ Base(RoleRequest)
          /\ RoleRequest.host # <<>> => CanSign(RoleRequest, cred, StsRegion)
          /\ own.endpoint = "" => RoleRequest.host = <<"sts.", StsRegion, ".amazonaws.com">>
      BY <3>1, RoleIsBase DEF ConfigInv, TypeInv
    <3> HIDE DEF d
    <3>4. CASE req' = RoleRequest /\ RoleRequest.host = <<>>
      BY <2>1, <3>1, <3>4 DEF SignInv
    <3>5. CASE req' = Sign(RoleRequest, cred, d, StsRegion)
      <4> DEFINE q == RoleRequest
                 v == StsRegion
                 r == Sign(q, cred, d, v)
      <4> HIDE DEF q, v
      <4>5. /\ RestVerifies(r) /\ r.host = q.host /\ r.escaped \in Texts
            /\ r.query = q.query /\ r.auth.query = CanonicalQuery(r.query)
            /\ r.auth.uri = CanonicalURI(r) /\ r.auth.region = v
        <5>1. Base(q)
          BY <3>3 DEF q
        <5> QED BY <3>2, <5>1, SignedVerifies
      <4> HIDE DEF r
      <4>1. /\ RestVerifies(req') /\ req'.host = RoleRequest.host /\ req'.escaped \in Texts
            /\ req'.query = RoleRequest.query /\ req'.auth.query = CanonicalQuery(req'.query)
            /\ req'.auth.uri = CanonicalURI(req') /\ req'.auth.region = StsRegion
        BY <3>5, <4>5 DEF q, v, r
      <4>4. req'.query \in Seq(Part)
        BY <3>3, <4>1 DEF Base
      <4>2. caller = "role"
        BY <2>1 DEF FlowInv
      <4>3. Right(req', caller, client, own)
        BY <3>3, <4>1, <4>2, <4>4 DEF Right
      <4> QED BY <2>1, <3>1, <4>3 DEF SignInv
    <3> QED BY <3>1, <3>3, <3>4, <3>5
  <2> QED BY <2>2, <2>3
<1>5. CASE BearAuth
  <2>1. /\ call = "auth" /\ call' = "send" /\ client.token # ""
        /\ req' = [req EXCEPT !.headers = With(With(@, "host", req.host),
                                               "authorization", <<"Bearer ", client.token>>)]
        /\ UNCHANGED <<client, caller, own, sent>>
    BY <1>5 DEF BearAuth, configVars
  <2>2. req = Fresh /\ Base(Fresh) /\ caller = "client"
    BY <2>1, FreshIsBase DEF SignInv, FlowInv
  <2>3. req'.auth = NoAuth /\ req'.headers["authorization"] = <<"Bearer ", client.token>>
    BY <2>1, <2>2 DEF Base, RequestFields, With
  <2> QED BY <2>1, <2>2, <2>3 DEF SignInv, Right
<1>6. CASE SignAuth
  <2>1. /\ call = "auth" /\ client.token = "" /\ now' \in now..Len(Dates)
        /\ UNCHANGED <<client, caller, own, sent, phase>>
    BY <1>6 DEF SignAuth, configVars
  <2>2. PICK cred \in Credentials :
          IF CanSign(req, cred, client.region)
            THEN req' = Sign(req, cred, Dates[now'], client.region) /\ call' = "send"
            ELSE req' = req /\ call' = "failed"
    BY <1>6 DEF SignAuth
  <2>3. Base(req) /\ req = Fresh
    BY <2>1, FreshIsBase DEF SignInv
  <2>4. Dates[now'] \in Texts
    <3>1. Dates \in Seq(Texts)
      BY RequestAssumption
    <3>2. Len(Dates) \in Nat /\ now \in 1..Len(Dates)
      BY <3>1, LenProperties DEF TypeInv
    <3>3. now' \in now..Len(Dates)
      BY <2>1
    <3>4. now' \in 1..Len(Dates)
      BY <3>2, <3>3
    <3> QED BY <3>1, <3>4, ElementOfSeq
  <2>5. CASE call' = "send"
    <3> DEFINE d == Dates[now']
    <3>1. req' = Sign(req, cred, d, client.region) /\ d \in Texts
      BY <2>2, <2>4, <2>5
    <3> HIDE DEF d
    <3>2. /\ RestVerifies(req') /\ req'.host = req.host /\ req'.escaped \in Texts
          /\ req'.query \in Seq(Part) /\ req'.auth.query = CanonicalQuery(req'.query)
          /\ req'.auth.uri = CanonicalURI(req') /\ req'.auth.region = client.region
      BY <2>3, <3>1, SignedVerifies DEF Base
    <3>3. client.endpoint = "" =>
            req'.host = <<"bedrock-runtime.", client.region, ".amazonaws.com">>
      <4>1. phase = "ready"
        BY <2>1 DEF FlowInv
      <4>2. req.host = Host
        BY <2>3 DEF Fresh
      <4> QED BY <3>2, <4>1, <4>2, HostOfRegion
    <3>5. caller = "client"
      BY <2>1 DEF FlowInv
    <3>4. Right(req', caller, client, own)
      BY <2>1, <3>2, <3>3, <3>5 DEF Right
    <3> QED BY <2>1, <2>5, <3>4 DEF SignInv
  <2>6. CASE call' = "failed"
    BY <2>1, <2>6 DEF SignInv
  <2> QED BY <2>2, <2>5, <2>6
<1>7. CASE Send
  <2>1. /\ call = "send" /\ sent' = Append(sent, req) /\ call' \in {"done", "attempt"}
        /\ req.host # <<>> /\ UNCHANGED <<client, caller, own>>
    BY <1>7 DEF Send, configVars
  <2>2. /\ Len(sent') = Len(sent) + 1 /\ Len(sent) \in Nat
        /\ \A k \in 1..Len(sent) : sent'[k] = sent[k]
        /\ sent'[Len(sent) + 1] = req
    BY <2>1, SentMore, LenProperties DEF TypeInv
  <2>3. ASSUME NEW k \in 1..Len(sent') PROVE Right(sent'[k], caller, client, own)
    <3>1. k \in 1..Len(sent) \/ k = Len(sent) + 1
      BY <2>2
    <3> QED BY <2>1, <2>2, <3>1 DEF SignInv
  <2> QED BY <2>1, <2>3 DEF SignInv
<1>8. CASE SignOwn
  <2>1. /\ call = "own" /\ UNCHANGED <<client, caller, own, sent, now>>
    BY <1>8 DEF SignOwn, configVars
  <2>2. PICK cred \in Credentials :
          IF CanSign(req, cred, own.region)
            THEN req' = Sign(req, cred, Dates[now], own.region) /\ call' = "send"
            ELSE req' = req /\ call' = "failed"
    BY <1>8 DEF SignOwn
  <2>3. Base(req) /\ caller = "other"
    BY <2>1 DEF SignInv, FlowInv
  <2>4. Dates[now] \in Texts
    BY RequestAssumption, ElementOfSeq DEF TypeInv
  <2>5. CASE call' = "send"
    <3> DEFINE d == Dates[now]
               region == own.region
    <3>1. req' = Sign(req, cred, d, region) /\ d \in Texts
      BY <2>2, <2>4, <2>5
    <3> HIDE DEF d, region
    <3>2. /\ RestVerifies(req') /\ req'.escaped \in Texts /\ req'.auth.uri = CanonicalURI(req')
          /\ req'.query \in Seq(Part) /\ req'.auth.query = CanonicalQuery(req'.query)
      BY <2>3, <3>1, SignedVerifies DEF Base
    <3>3. Right(req', caller, client, own)
      BY <2>3, <3>2 DEF Right
    <3> QED BY <2>1, <2>5, <3>3 DEF SignInv
  <2>6. CASE call' = "failed"
    BY <2>1, <2>6 DEF SignInv
  <2> QED BY <2>2, <2>5, <2>6
<1> QED BY <1>1, <1>2, <1>3, <1>4, <1>5, <1>6, <1>7, <1>8, <1>10, <1>11 DEF RequestNext

\* All that is sent is right.
THEOREM SignInvariance == RequestSpec => []SignInv
<1>1. /\ ConfigInv /\ TypeInv /\ FlowInv /\ SignInv /\ [RequestNext]_requestVars => SignInv'
  BY SignStep
<1> QED BY <1>1, SignStarts, ConfigInvariance, FlowInvariance, PTL DEF RequestSpec

\* The service finds every signature right, whatever the attempt, the credentials
\* and the time, and the region that signs is that of the host; the query is right
\* with the rest where it is Whole and Aligned.
THEOREM SignaturesVerify == RequestSpec => []SentVerifies
<1>1. SignInv => SentVerifies
  <2>1. ASSUME NEW r, r.query \in Seq(Part), r.auth.query = CanonicalQuery(r.query),
               RestVerifies(r), Whole(r.query), Aligned(r.query)
        PROVE  Verifies(r)
    BY <2>1, QueryFound DEF Verifies
  <2> QED BY <2>1 DEF SignInv, SentVerifies, Right
<1> QED BY <1>1, SignInvariance, PTL

\* A signature for one path is good for no other, whatever the characters.
THEOREM PathsTellApart == RequestSpec => []PathUnambiguous
<1>1. SignInv => PathUnambiguous
  <2> SUFFICES ASSUME SignInv, NEW k \in SignedSent, NEW url \in URLs
               PROVE  CanonicalURI(url) = sent[k].auth.uri <=> OnWire(url.escaped) = OnWire(sent[k].escaped)
    BY DEF PathUnambiguous
  <2> DEFINE r == sent[k]
             s == OnWire(url.escaped)
             t == OnWire(r.escaped)
  <2>1. r.escaped \in Texts /\ r.auth.uri = CanonicalURI(r)
    BY DEF SignInv, SignedSent, Right
  <2>2. url.escaped \in Texts
    <3>1. PICK w \in Worlds : url = [plain |-> w.request.plain, escaped |-> w.request.escaped]
      BY DEF URLs
    <3>2. w.request.escaped \in Texts
      BY RequestAssumption DEF Unsigned
    <3> QED BY <3>1, <3>2
  <2> HIDE DEF r
  <2>3. s \in Texts /\ CanonicalURI(url) = FlattenSeq(Coded(Slash, s))
    BY <2>2, CanonicalIsCode
  <2>4. t \in Texts /\ CanonicalURI(r) = FlattenSeq(Coded(Slash, t))
    BY <2>1, CanonicalIsCode
  <2> HIDE DEF s, t
  <2>5. CanonicalURI(url) = CanonicalURI(r) <=> s = t
    <3>1. "%" \notin Slash
      BY Digits DEF Slash
    <3> QED BY <2>3, <2>4, <3>1, CodeInjective
  <2> QED BY <2>1, <2>5 DEF r, s, t
<1> QED BY <1>1, SignInvariance, PTL

\* A signature for one set of parameters is good for no other, whatever the
\* characters, and for this one however the parameters are ordered or escaped, if
\* url.ParseQuery reads the queries as they stand.
THEOREM QueriesTellApart == RequestSpec => []QueryUnambiguous
<1>1. SignInv => QueryUnambiguous
  <2> SUFFICES ASSUME SignInv, caller = "other", NEW k \in SignedSent, NEW q \in Queries,
                      Whole(q), Whole(sent[k].query)
               PROVE  CanonicalQuery(q) = sent[k].auth.query <=>
                        ToBag(Meant(q)) = ToBag(Meant(sent[k].query))
    BY DEF QueryUnambiguous
  <2> DEFINE r == sent[k].query
  <2>1. r \in Seq(Part) /\ sent[k].auth.query = CanonicalQuery(r)
    BY DEF SignInv, SignedSent, Right
  <2>2. q \in Seq(Part)
    <3>1. PICK w \in Worlds : q = w.request.query
      BY DEF Queries
    <3> QED BY <3>1, RequestAssumption DEF Unsigned
  <2>3. /\ CanonicalQuery(q) = WrittenQuery(SortedPairs(Meant(q))) /\ Meant(q) \in Seq(Pair)
        /\ CanonicalQuery(r) = WrittenQuery(SortedPairs(Meant(r))) /\ Meant(r) \in Seq(Pair)
    BY <2>1, <2>2, WholeQuery DEF CanonicalQuery
  <2> QED BY <2>1, <2>3, QueryInjective
<1> QED BY <1>1, SignInvariance, PTL
==============================================================================
