------------------------------- MODULE Resolve -------------------------------
(***************************************************************************)
(* chain.resolve, the slow path of CredChain: the providers in their       *)
(* order, the recursion through source_profile, the AssumeRole calls made  *)
(* as it unwinds, and the requests to IMDS.  Every call to the outside may *)
(* fail, also because the context has ended.  Credentials are abstracted   *)
(* to where they come from.                                                *)
(***************************************************************************)
EXTENDS Naturals, Sequences, FiniteSets, SequencesExt

CONSTANTS
  Profiles,    \* profile names
  NoProfile,   \* a key that is not set
  Active,      \* what resolveProfileName returns
  Worlds,      \* contents of the two shared files, with an environment
  OwnPrompt,   \* whether Config.MFATokenProvider is set
  StdinLines   \* lines that stdin will yield

\* What a file holds for a profile; "half" is an access key without a secret.
Section ==
  [present : BOOLEAN, role : BOOLEAN, source : Profiles \cup {NoProfile},
   credSource : {"", "Environment", "Ec2InstanceMetadata", "EcsContainer", "Bogus"},
   keys : {"none", "full", "half"}, process : BOOLEAN, mfa : BOOLEAN,
   duration : {"", "int", "junk"}]

FilePair == [cred : [Profiles -> Section], conf : [Profiles -> Section]]

\* What the variables configure.
Env == [keys : {"none", "full", "half"}, irsa : BOOLEAN, ecs : BOOLEAN,
        imds : BOOLEAN]

ASSUME ResolveAssumption ==
  /\ IsFiniteSet(Profiles) /\ NoProfile \notin Profiles /\ Active \in Profiles
  /\ Worlds \subseteq [files : FilePair, env : Env]
  /\ OwnPrompt \in BOOLEAN /\ StdinLines \in Nat

VARIABLES
  files, env,  \* as found by this call of resolve
  step,        \* what runs next
  stack,       \* profiles whose resolveProfile is active, innermost first
  visited,     \* the map of resolveProfile
  value,       \* credentials in hand
  err,         \* the error returned, "" if none
  stdin,       \* lines left on stdin
  prompts,     \* history: MFA prompts
  calls,       \* history: AssumeRole calls sent
  answered     \* history: whether the metadata service has answered

config == <<files, env>>
vars == <<config, step, stack, visited, value, err, stdin, prompts, calls, answered>>

\* Where credentials come from: a source, for a profile and one of its files
\* where that applies, and the roles assumed from them, the first one first.
Nothing == [base |-> "", file |-> "", owner |-> NoProfile, roles |-> <<>>]
From(source) == [Nothing EXCEPT !.base = source]
FromProfile(source, f, p) ==
  [base |-> source, file |-> f, owner |-> p, roles |-> <<>>]

-----------------------------------------------------------------------------
(* Lookups: File.Get and profileGet, the credentials file first. *)

Cred(p) == files.cred[p]
Conf(p) == files.conf[p]

RoleArn(p) == Cred(p).role \/ Conf(p).role
MfaSerial(p) == Cred(p).mfa \/ Conf(p).mfa
SourceProfile(p) ==
  IF Cred(p).source # NoProfile THEN Cred(p).source ELSE Conf(p).source
CredentialSource(p) ==
  IF Cred(p).credSource # "" THEN Cred(p).credSource ELSE Conf(p).credSource
Duration(p) ==
  IF Cred(p).duration # "" THEN Cred(p).duration ELSE Conf(p).duration

-----------------------------------------------------------------------------
Init ==
  /\ \E w \in Worlds : files = w.files /\ env = w.env
  /\ step = "env"
  /\ stack = <<>> /\ visited = {}
  /\ value = Nothing /\ err = ""
  /\ stdin = StdinLines /\ prompts = 0 /\ calls = <<>> /\ answered = FALSE

top == Head(stack)

Goto(s) ==
  /\ step' = s
  /\ UNCHANGED <<config, stack, visited, value, err, stdin, prompts, calls>>

\* An error other than errNoMatch leaves every active call, and resolve.
Fail(e) ==
  /\ step' = "done" /\ stack' = <<>>
  /\ value' = Nothing /\ err' = e
  /\ UNCHANGED <<config, visited, stdin, prompts, calls>>

\* v is returned to what is active in rest: the caller of resolve, or the
\* assumeRoleFromProfile of the innermost profile.
Got(v, rest) ==
  /\ value' = v /\ stack' = rest
  /\ step' = IF rest = <<>> THEN "done" ELSE "assume"
  /\ UNCHANGED <<config, visited, err>>

Untouched == UNCHANGED <<stdin, prompts, calls>>

\* errNoMatch: resolve tries the next provider, or says that there is none;
\* resolveCredentialSource turns it into an error.
NoMatch(next) ==
  IF stack # <<>> THEN Fail("source")
  ELSE IF next = "" THEN Fail("none")
  ELSE Goto(next)

\* A request or command that may fail.
Fetch(v, rest) == Fail("external") \/ (Got(v, rest) /\ Untouched)

-----------------------------------------------------------------------------
(* The providers. *)

\* A faulty order with the credentials of the container first.
EnvProviderLast ==
  /\ step = "env"
  /\ IF env.ecs THEN Goto("ecs")
     ELSE CASE env.keys = "none" -> NoMatch("irsa")
            [] env.keys = "half" -> Fail("half")
            [] OTHER -> Got(From("env"), stack) /\ Untouched

EnvProvider ==
  /\ step = "env"
  /\ CASE env.keys = "none" -> NoMatch("irsa")
       [] env.keys = "half" -> Fail("half")
       [] OTHER -> Got(From("env"), stack) /\ Untouched

WebIdentityProvider ==
  /\ step = "irsa"
  /\ IF env.irsa THEN Fetch(From("irsa"), stack) ELSE NoMatch("ecs")

ECSProvider ==
  /\ step = "ecs"
  /\ IF env.ecs THEN Fetch(From("ecs"), stack) ELSE NoMatch("profile")

\* The files are read; a missing file is an empty one.
SharedProfileProvider ==
  /\ step = "profile"
  /\ \/ Fail("files")
     \/ IF Cred(Active).present \/ Conf(Active).present
          THEN /\ step' = "enter" /\ stack' = <<Active>>
               /\ UNCHANGED <<config, visited, value, err>> /\ Untouched
          ELSE NoMatch("imds")

\* The token: no answer, for whatever reason, means that this is not EC2.
IMDSToken ==
  /\ step = "imds"
  /\ \/ NoMatch("") /\ UNCHANGED answered
     \/ env.imds /\ (Fail("external") \/ Goto("imdsRole")) /\ answered' = TRUE

\* A faulty imdsProvider for which an instance without a role is not EC2.
IMDSRoleNoMatch ==
  /\ step = "imdsRole"
  /\ Fail("external") \/ NoMatch("") \/ Goto("imdsCreds")

IMDSRole ==
  /\ step = "imdsRole"
  /\ Fail("external") \/ Fail("norole") \/ Goto("imdsCreds")

IMDSCreds == step = "imdsCreds" /\ Fetch(From("imds"), stack)

-----------------------------------------------------------------------------
(* resolveProfile of the profile on top of the stack. *)

Cycle ==
  /\ step = "enter" /\ top \in visited
  /\ Fail("cycle")

Entered == step = "enter" /\ top \notin visited

Visit(s) ==
  /\ visited' = visited \cup {top}
  /\ step' = s

\* role_arn with both sources or none.
BadRole ==
  /\ Entered /\ RoleArn(top)
  /\ (SourceProfile(top) = NoProfile) <=> (CredentialSource(top) = "")
  /\ Fail("badrole")

\* A faulty recursion that forgets where it has been.
EnterSourceUnmarked ==
  /\ step = "enter" /\ RoleArn(top)
  /\ SourceProfile(top) # NoProfile /\ CredentialSource(top) = ""
  /\ Len(stack) < 2 * Cardinality(Profiles)
  /\ stack' = <<SourceProfile(top)>> \o stack
  /\ UNCHANGED <<config, step, visited, value, err>> /\ Untouched

\* A faulty role that asks for the token before it looks at its source.
EnterSourcePrompting ==
  /\ Entered /\ RoleArn(top)
  /\ SourceProfile(top) # NoProfile /\ CredentialSource(top) = ""
  /\ Visit("enter")
  /\ stack' = <<SourceProfile(top)>> \o stack
  /\ prompts' = IF MfaSerial(top) THEN prompts + 1 ELSE prompts
  /\ UNCHANGED <<config, value, err, stdin, calls>>

EnterSource ==
  /\ Entered /\ RoleArn(top)
  /\ SourceProfile(top) # NoProfile /\ CredentialSource(top) = ""
  /\ Visit("enter")
  /\ stack' = <<SourceProfile(top)>> \o stack
  /\ UNCHANGED <<config, value, err>> /\ Untouched

EnterCredentialSource ==
  /\ Entered /\ RoleArn(top)
  /\ SourceProfile(top) = NoProfile /\ CredentialSource(top) # ""
  /\ IF CredentialSource(top) = "Bogus" THEN Fail("badsource")
       ELSE /\ Visit(CASE CredentialSource(top) = "Environment" -> "env"
                       [] CredentialSource(top) = "EcsContainer" -> "ecs"
                       [] OTHER -> "imds")
            /\ UNCHANGED <<config, stack, value, err>> /\ Untouched

\* Static keys, the credentials file first; then credential_process, the
\* config file first.
OwnCredentials ==
  LET half(s) == s.keys = "half"
      full(s) == s.keys = "full"
      none(s) == s.keys = "none"
      c == Cred(top)  f == Conf(top)  rest == Tail(stack)
  IN /\ Entered /\ ~RoleArn(top)
     /\ CASE half(c) \/ (none(c) /\ half(f)) -> Fail("half")
          [] full(c) -> Got(FromProfile("keys", "cred", top), rest) /\ Untouched
          [] none(c) /\ full(f) ->
               Got(FromProfile("keys", "conf", top), rest) /\ Untouched
          [] none(c) /\ none(f) /\ f.process ->
               Fetch(FromProfile("process", "conf", top), rest)
          [] none(c) /\ none(f) /\ ~f.process /\ c.process ->
               Fetch(FromProfile("process", "cred", top), rest)
          [] OTHER -> Fail("empty")

-----------------------------------------------------------------------------
(* assumeRoleFromProfile, once the source's credentials are in hand. *)

NoPrompt == step = "assume" /\ ~MfaSerial(top) /\ Goto("sts")

\* The default prompt puts a new buffer in front of stdin each time: the first
\* line it got is the code, and the other lines it got are gone.
Prompt ==
  /\ step = "assume" /\ MfaSerial(top)
  /\ \/ Fail("mfa")
     \/ /\ prompts' = prompts + 1
        /\ step' = "sts"
        /\ IF OwnPrompt THEN UNCHANGED stdin
           ELSE \E n \in 1..stdin : stdin' = stdin - n
        /\ UNCHANGED <<config, stack, visited, value, err, calls>>

\* A faulty call that forgets which credentials signed it.
AssumeRoleUnchained ==
  /\ step = "sts"
  /\ calls' = Append(calls, top)
  /\ Got([value EXCEPT !.roles = <<top>>], Tail(stack))
  /\ UNCHANGED <<stdin, prompts>>

\* callAssumeRole: duration_seconds is looked at before the request is made.
AssumeRole ==
  /\ step = "sts"
  /\ IF Duration(top) = "junk" THEN Fail("duration")
     ELSE \/ /\ calls' = Append(calls, top)
             /\ Got([value EXCEPT !.roles = Append(@, top)], Tail(stack))
             /\ UNCHANGED <<stdin, prompts>>
          \/ /\ calls' = Append(calls, top)
             /\ step' = "done" /\ stack' = <<>>
             /\ value' = Nothing /\ err' = "external"
             /\ UNCHANGED <<config, visited, stdin, prompts>>

ResolveProfile ==
  \/ Cycle \/ BadRole \/ EnterSource \/ EnterCredentialSource \/ OwnCredentials
  \/ NoPrompt \/ Prompt \/ AssumeRole

Next ==
  \/ IMDSToken
  \/ /\ \/ EnvProvider \/ WebIdentityProvider \/ ECSProvider \/ SharedProfileProvider
        \/ IMDSRole \/ IMDSCreds
        \/ ResolveProfile
     /\ UNCHANGED answered

Spec == Init /\ [][Next]_vars

\* Fairness: the goroutine runs, and every call to the outside returns (its
\* context ends); a user answers the prompt or closes stdin.
FairSpec == Spec /\ WF_vars(Next)
-----------------------------------------------------------------------------
Steps == {"env", "irsa", "ecs", "profile", "imds", "imdsRole", "imdsCreds",
          "enter", "assume", "sts", "done"}

Errors == {"none", "half", "external", "files", "source", "norole", "cycle",
           "badrole", "badsource", "empty", "mfa", "duration"}

\* Types, and the depth of the recursion: one more than there are profiles.
TypeOK ==
  /\ files \in FilePair /\ env \in Env
  /\ step \in Steps
  /\ stack \in Seq(Profiles) /\ Len(stack) <= Cardinality(Profiles) + 1
  /\ visited \subseteq Profiles
  /\ value.roles \in Seq(Profiles) /\ value.owner \in Profiles \cup {NoProfile}
  /\ err \in Errors \cup {""}
  /\ stdin \in 0..StdinLines /\ prompts \in Nat /\ calls \in Seq(Profiles)
  /\ answered \in BOOLEAN

Obtained == step = "done" /\ err = ""

ThroughProfile == value.owner # NoProfile \/ value.roles # <<>>

\* The source that is configured first in the documented order, as far as
\* variables and files show: the one that answers, if any does.
First ==
  CASE env.keys # "none" -> "env"
    [] env.keys = "none" /\ env.irsa -> "irsa"
    [] env.keys = "none" /\ ~env.irsa /\ env.ecs -> "ecs"
    [] OTHER -> IF Cred(Active).present \/ Conf(Active).present
                  THEN "profile" ELSE "imds"

\* Credentials never come from a source behind the first one that is
\* configured, however that one fails: its failure is an error, not a reason
\* to go on with somebody else's credentials.
NoFallThrough ==
  Obtained => IF First = "profile" THEN ThroughProfile ELSE value = From(First)

\* "No credentials found" is said only when nothing is there: nothing is
\* configured, and the metadata service is disabled or has given no answer.  One
\* that answers, with an error, without a role or with bad credentials, ends
\* resolve with an error of its own, and so does a credential_source.
NoneOnlyIfNothing ==
  step = "done" /\ err = "none" => First = "imds" /\ calls = <<>> /\ ~answered

Path == Reverse(value.roles) \o
          (IF value.owner = NoProfile THEN <<>> ELSE <<value.owner>>)

SourceOf(cs) == CASE cs = "Environment" -> "env"
                  [] cs = "EcsContainer" -> "ecs"
                  [] cs = "Ec2InstanceMetadata" -> "imds"
                  [] OTHER -> "?"

OwnSource(p) ==
  /\ ~RoleArn(p)
  /\ value.base = "keys" => /\ files[value.file][p].keys = "full"
                            /\ value.file = "conf" => Cred(p).keys = "none"
  /\ value.base = "process" =>
       /\ Cred(p).keys = "none" /\ Conf(p).keys = "none"
       /\ files[value.file][p].process
       /\ value.file = "cred" => ~Conf(p).process

Prompted == Cardinality({i \in DOMAIN calls : MfaSerial(calls[i])})

\* What comes out of the shared files is what they say: from the active profile
\* each role is assumed with the credentials of its source_profile, the last one
\* brings its own or those of its credential_source; every role is assumed once,
\* in that order, with one prompt for each mfa_serial.
ChainAsConfigured ==
  Obtained /\ ThroughProfile =>
    /\ Path[1] = Active
    /\ \A i \in 1..(Len(Path) - 1) :
         RoleArn(Path[i]) /\ SourceProfile(Path[i]) = Path[i + 1]
    /\ IF value.owner = NoProfile
         THEN /\ RoleArn(Last(Path)) /\ SourceProfile(Last(Path)) = NoProfile
              /\ SourceOf(CredentialSource(Last(Path))) = value.base
         ELSE OwnSource(Last(Path))
    /\ calls = value.roles
    /\ prompts = Prompted

\* A chain of profiles that cannot work is refused before the user is asked for
\* a token and before STS is called: the recursion reaches the end first.  Of
\* what is read here only a bad duration_seconds is found late: when the source
\* profile's role has been assumed and the user asked, once, for the token of
\* this one, but before STS is asked for it.
RefusedBeforeAsking ==
  /\ err \in {"cycle", "badrole", "badsource", "empty", "half", "source"} =>
       calls = <<>> /\ prompts = 0 /\ stdin = StdinLines
  /\ \A i \in DOMAIN calls : Duration(calls[i]) # "junk"
  /\ err = "duration" =>
       \E x \in Profiles :
         /\ RoleArn(x) /\ Duration(x) = "junk"
         /\ prompts = Prompted + (IF MfaSerial(x) THEN 1 ELSE 0)
         /\ calls # <<>> => SourceProfile(x) = Last(calls)

\* Whatever the files say, cycles included, resolve returns.
ResolveReturns == <>(step = "done")

\* The doc of Config.MFATokenProvider: "the default reads a line from Stdin".
EachPromptReadsOneLine == StdinLines - stdin <= prompts

\* The doc of WithProfile: "restricted to the given profile".
ProfileOnly == Obtained => ThroughProfile
=============================================================================
