---------------------------- MODULE ClientConfig ----------------------------
(***************************************************************************)
(* NewClient: the options one after the other, then what they have left    *)
(* open from the environment, ~/.aws/config and the defaults.  A field of  *)
(* the client that is "" is not set.  The environment is read once, here;  *)
(* the credentials chain reads it again, by its own rules, when it runs.   *)
(***************************************************************************)
EXTENDS Naturals, Sequences, SequencesExt

CONSTANTS
  DefaultRegion,  \* us-east-1
  DefaultProfile, \* default
  Setups          \* what NewClient may meet: options, environment, config file

\* An option sets one field; WithStaticCredentials and WithProfile are two ways
\* to set creds.
Option == [field : {"region", "endpoint", "token", "creds"}, value : STRING]

ASSUME ConfigAssumption ==
  /\ DefaultRegion \in STRING \ {""} /\ DefaultProfile \in STRING
  /\ \A s \in Setups :
    /\ s.options \in Seq(Option)
    /\ s.env \in [region : STRING, defaultRegion : STRING, profile : STRING,
                  endpoint : STRING, token : STRING]
    /\ \A p \in DOMAIN s.config : s.config[p] \in STRING

VARIABLES
  setup,    \* options, env, config: profile -> region, empty if unreadable
  applied,  \* options applied
  client,   \* the Client
  phase     \* what NewClient does next

configVars == <<setup, applied, client, phase>>

ConfigInit ==
  /\ setup \in Setups
  /\ applied = 0
  /\ client = [region |-> "", endpoint |-> "", host |-> "", token |-> "", creds |-> ""]
  /\ phase = "options"

-----------------------------------------------------------------------------
FirstSet(values) ==
  IF \E k \in 1..Len(values) : values[k] # ""
    THEN values[SelectInSeq(values, LAMBDA v : v # "")] ELSE ""

\* The region of AWS_PROFILE or default; an error in the file hides it.
RegionFromProfile ==
  LET profile == FirstSet(<<setup.env.profile, DefaultProfile>>)
  IN IF profile \in DOMAIN setup.config THEN setup.config[profile] ELSE ""

\* A faulty lookup that prefers the default region.
ResolveRegionSwapped ==
  FirstSet(<<setup.env.defaultRegion, setup.env.region, RegionFromProfile, DefaultRegion>>)

ResolveRegion ==
  FirstSet(<<setup.env.region, setup.env.defaultRegion, RegionFromProfile, DefaultRegion>>)

ApplyOption ==
  /\ phase = "options" /\ applied < Len(setup.options)
  /\ applied' = applied + 1
  /\ LET o == setup.options[applied + 1] IN client' = [client EXCEPT ![o.field] = o.value]
  /\ UNCHANGED <<setup, phase>>

SetRegion ==
  /\ phase = "options" /\ applied = Len(setup.options)
  /\ client' = [client EXCEPT !.region = FirstSet(<<client.region, ResolveRegion>>)]
  /\ phase' = "endpoint"
  /\ UNCHANGED <<setup, applied>>

\* The region in the name of the host that is derived from it.
Derived == client.region

\* The endpoint that is given, or the host of the region.
SetEndpoint ==
  /\ phase = "endpoint"
  /\ LET given == FirstSet(<<client.endpoint, setup.env.endpoint>>)
     IN client' = [client EXCEPT !.endpoint = given,
                                 !.host = IF given = "" THEN Derived ELSE ""]
  /\ phase' = "auth"
  /\ UNCHANGED <<setup, applied>>

\* The bearer token and, if none was given, the default chain.
SetAuth ==
  /\ phase = "auth"
  /\ client' = [client EXCEPT !.token = FirstSet(<<client.token, setup.env.token>>),
                              !.creds = FirstSet(<<client.creds, "chain">>)]
  /\ phase' = "ready"
  /\ UNCHANGED <<setup, applied>>

NewClient == ApplyOption \/ SetRegion \/ SetEndpoint \/ SetAuth
-----------------------------------------------------------------------------
\* What the options say of a field: the last one that names it.
Given(field) ==
  LET k == SelectLastInSeq(setup.options, LAMBDA o : o.field = field)
  IN IF k = 0 THEN "" ELSE setup.options[k].value

\* The values are those of the first place that NewClient's doc lists: region
\* from WithRegion, AWS_REGION, AWS_DEFAULT_REGION, the active profile,
\* us-east-1; endpoint from WithEndpoint, AWS_ENDPOINT_URL_BEDROCK_RUNTIME, the
\* region.  The bearer token is that of WithBearerToken or, as its doc says, of
\* AWS_BEARER_TOKEN_BEDROCK; credentials are those of an option, or the default
\* chain's.  An empty variable or option counts as none, and of two options for
\* one field the last one counts.
ClientAsDocumented ==
  phase = "ready" =>
    LET e == setup.env
        p == IF e.profile = "" THEN DefaultProfile ELSE e.profile
        ofProfile == IF p \in DOMAIN setup.config THEN setup.config[p] ELSE ""
        first(r) == r # "" /\ client.region = r
    IN /\ \/ first(Given("region"))
          \/ Given("region") = "" /\ first(e.region)
          \/ Given("region") = "" /\ e.region = "" /\ first(e.defaultRegion)
          \/ /\ Given("region") = "" /\ e.region = "" /\ e.defaultRegion = ""
             /\ first(ofProfile) \/ (ofProfile = "" /\ first(DefaultRegion))
       /\ \/ client.endpoint = Given("endpoint") /\ client.endpoint # ""
          \/ Given("endpoint") = "" /\ client.endpoint = e.endpoint /\ e.endpoint # ""
          \/ Given("endpoint") = "" /\ e.endpoint = "" /\ client.host = client.region
       /\ client.token = IF Given("token") # "" THEN Given("token") ELSE e.token
       /\ client.creds = IF Given("creds") # "" THEN Given("creds") ELSE "chain"
=============================================================================
