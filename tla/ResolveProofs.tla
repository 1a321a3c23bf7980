------------------------------ MODULE ResolveProofs ------------------------------
(***************************************************************************)
(* Proofs about Resolve: whatever the variables and the shared files hold, *)
(* for any number of profiles, no configured source is passed over, a bad  *)
(* chain is refused before anybody is asked, and the roles that are        *)
(* assumed are those of the files, in their order.                         *)
(***************************************************************************)
EXTENDS Resolve, FiniteSetTheorems, SequenceTheorems, TLAPS

\* What runs before any credentials are in hand, and after.
Searching == {"env", "irsa", "ecs", "profile", "imds", "imdsRole", "imdsCreds", "enter"}
Unwinding == {"assume", "sts"}
Metadata == {"imds", "imdsRole", "imdsCreds"}

ValueType ==
  [base : {"", "env", "irsa", "ecs", "imds", "keys", "process"},
   file : {"", "cred", "conf"}, owner : Profiles \cup {NoProfile},
   roles : Seq(Profiles)]

Typed ==
  /\ files \in FilePair /\ env \in Env
  /\ step \in Steps /\ stack \in Seq(Profiles)
  /\ visited \subseteq Profiles /\ value \in ValueType
  /\ err \in Errors \cup {""}
  /\ stdin \in 0..StdinLines /\ prompts \in Nat /\ calls \in Seq(Profiles)

\* Which steps run inside resolveProfile, and that nothing is in hand before the
\* first answer.
FlowInv ==
  /\ step # "done" => err = ""
  /\ step \in {"irsa", "profile", "done"} => stack = <<>>
  /\ step \in {"enter"} \cup Unwinding => stack # <<>>
  /\ step \in Searching => value = Nothing
  /\ step = "done" /\ err # "" => value = Nothing

\* Nobody has been asked for anything before the first answer.
QuietInv == step \in Searching => calls = <<>> /\ prompts = 0 /\ stdin = StdinLines

\* One profile is entered for each that was visited.
DepthInv ==
  /\ step = "enter" => Len(stack) = Cardinality(visited) + 1
  /\ step # "enter" => Len(stack) <= Cardinality(visited)
  /\ step \in Searching /\ stack = <<>> => visited = {}

\* Outside resolveProfile a provider runs only when those before it have nothing.
OrderInv ==
  /\ stack # <<>> => First = "profile"
  /\ stack = <<>> /\ step \in Searching =>
       /\ step # "env" => env.keys = "none"
       /\ step \notin {"env", "irsa"} => ~env.irsa
       /\ step \notin {"env", "irsa", "ecs"} => ~env.ecs
       /\ step \in Metadata => First = "imds"

\* The profiles from the one that brought the credentials to the active one;
\* assuming a role moves one from the stack to value.roles and changes nothing here.
Line ==
  (IF value.owner = NoProfile THEN <<>> ELSE <<value.owner>>) \o value.roles \o stack

LineInv ==
  /\ Line # <<>> => Line[Len(Line)] = Active
  /\ \A i \in 1..(Len(Line) - 1) :
       RoleArn(Line[i + 1]) /\ SourceProfile(Line[i + 1]) = Line[i]

\* x has a credential_source, and it is the one called base.
Brings(x, base) ==
  RoleArn(x) /\ SourceProfile(x) = NoProfile /\ SourceOf(CredentialSource(x)) = base

SourceInv ==
  /\ value.owner # NoProfile => OwnSource(value.owner)
  /\ stack # <<>> =>
       /\ step \in {"env", "ecs"} => Brings(top, step)
       /\ step \in Metadata => Brings(top, "imds")
  /\ step \notin Searching /\ Line # <<>> /\ value.owner = NoProfile =>
       Brings(Line[1], value.base)

CountInv ==
  /\ step \in Unwinding \/ Obtained => calls = value.roles
  /\ step = "assume" \/ Obtained => prompts = Prompted
  /\ step = "sts" => prompts = Prompted + (IF MfaSerial(top) THEN 1 ELSE 0)

\* The parts of NoneOnlyIfNothing and RefusedBeforeAsking that the invariant
\* needs; the metadata service and durations come after it.
NothingConfigured ==
  step = "done" /\ err = "none" => First = "imds" /\ calls = <<>>

ShapeRefused ==
  err \in {"cycle", "badrole", "badsource", "empty", "half", "source"} =>
    calls = <<>> /\ prompts = 0 /\ stdin = StdinLines

IInv ==
  /\ Typed /\ FlowInv /\ QuietInv /\ DepthInv /\ OrderInv /\ LineInv /\ SourceInv
  /\ CountInv /\ NoFallThrough /\ NothingConfigured /\ ShapeRefused

-----------------------------------------------------------------------------
(* The parts of the model. *)

\* What is assumed of profiles, environments and files.
LEMMA Constants ==
  /\ IsFiniteSet(Profiles) /\ NoProfile \notin Profiles /\ Active \in Profiles
  /\ Worlds \subseteq [files : FilePair, env : Env] /\ StdinLines \in Nat
BY ResolveAssumption DEF ResolveAssumption

\* The lookups and the property of the environment stay as they are.
LEMMA SameConfig ==
  ASSUME UNCHANGED config
  PROVE  /\ First' = First
         /\ \A x : /\ RoleArn(x)' = RoleArn(x) /\ MfaSerial(x)' = MfaSerial(x)
                   /\ SourceProfile(x)' = SourceProfile(x)
                   /\ CredentialSource(x)' = CredentialSource(x)
BY DEF config, First, RoleArn, MfaSerial, SourceProfile, CredentialSource, Cred, Conf

\* A lookup returns a profile, or says that the key is not set.
LEMMA SectionTyped ==
  ASSUME Typed, NEW x \in Profiles
  PROVE  /\ Cred(x) \in Section /\ Conf(x) \in Section
         /\ SourceProfile(x) \in Profiles \cup {NoProfile}
         /\ CredentialSource(x) \in
              {"", "Environment", "Ec2InstanceMetadata", "EcsContainer", "Bogus"}
<1>1. files.cred \in [Profiles -> Section] /\ files.conf \in [Profiles -> Section]
  BY DEF Typed, FilePair
<1>2. Cred(x) \in Section /\ Conf(x) \in Section
  BY <1>1 DEF Cred, Conf
<1> QED
  BY <1>2 DEF Section, SourceProfile, CredentialSource

\* The profile that is being resolved, and those that wait for it.
LEMMA TopTyped ==
  ASSUME Typed, stack # <<>>
  PROVE  /\ top \in Profiles /\ top = stack[1] /\ Tail(stack) \in Seq(Profiles)
         /\ Len(Tail(stack)) = Len(stack) - 1 /\ <<top>> \o Tail(stack) = stack
         /\ Len(stack) \in Nat /\ Len(stack) > 0
<1>1. stack \in Seq(Profiles)
  BY DEF Typed
<1> QED
  BY <1>1 DEF top

\* What the sources bring are credentials with their provenance.
LEMMA ValuesTyped ==
  /\ Nothing \in ValueType
  /\ \A s \in {"env", "irsa", "ecs", "imds"} : From(s) \in ValueType
  /\ \A s \in {"keys", "process"}, f \in {"cred", "conf"}, x \in Profiles :
       FromProfile(s, f, x) \in ValueType
<1>1. Nothing \in ValueType
  BY DEF Nothing, ValueType
<1> QED
  BY <1>1 DEF Nothing, From, FromProfile, ValueType

\* The map of visited profiles is finite, and no larger than the set of them.
LEMMA VisitedFinite ==
  ASSUME Typed
  PROVE  IsFiniteSet(visited) /\ Cardinality(visited) \in Nat
         /\ Cardinality(visited) <= Cardinality(Profiles) /\ Cardinality(Profiles) \in Nat
<1>1. visited \in SUBSET Profiles /\ IsFiniteSet(Profiles)
  BY Constants DEF Typed
<1> QED
  BY <1>1, FS_Subset, FS_CardinalityType

-----------------------------------------------------------------------------
(* Initially. *)

\* When resolve begins the invariant holds.
LEMMA InitInv == Init => IInv
<1> SUFFICES ASSUME Init PROVE IInv
  OBVIOUS
<1>1. Typed
  <2>1. files \in FilePair /\ env \in Env
    BY Constants DEF Init
  <2>2. StdinLines \in 0..StdinLines
    BY Constants
  <2>3. "env" \in Steps /\ <<>> \in Seq(Profiles) /\ 0 \in Nat
    BY DEF Steps
  <2> QED
    BY <2>1, <2>2, <2>3, ValuesTyped, Zenon DEF Init, Typed
<1>2. FlowInv /\ QuietInv
  BY DEF Init, FlowInv, QuietInv, Unwinding
<1>3. DepthInv
  <2>1. step = "env" /\ stack = <<>> /\ visited = {}
    BY DEF Init
  <2>2. Len(stack) = 0
    BY <2>1
  <2>3. Cardinality(visited) = 0
    BY <2>1, FS_EmptySet
  <2> QED
    BY <2>1, <2>2, <2>3 DEF DepthInv
<1>4. OrderInv
  BY DEF Init, OrderInv, Metadata
<1>5. Line = <<>>
  <2>1. value.owner = NoProfile /\ value.roles = <<>> /\ stack = <<>>
    BY DEF Init, Nothing
  <2>2. <<>> \o <<>> = <<>>
    OBVIOUS
  <2> QED
    BY <2>1, <2>2 DEF Line
<1>6. LineInv /\ SourceInv
  <2>1. Len(Line) = 0
    BY <1>5
  <2>2. LineInv
    BY <1>5, <2>1 DEF LineInv
  <2>3. value.owner = NoProfile /\ stack = <<>> /\ step = "env"
    BY DEF Init, Nothing
  <2>4. SourceInv
    BY <2>3 DEF SourceInv, Searching
  <2> QED
    BY <2>2, <2>4
<1>7. CountInv /\ NoFallThrough /\ NothingConfigured /\ ShapeRefused
  BY DEF Init, CountInv, Unwinding, Obtained, NoFallThrough, NothingConfigured,
     ShapeRefused
<1> QED
  BY <1>1, <1>2, <1>3, <1>4, <1>6, <1>7 DEF IInv

-----------------------------------------------------------------------------
(* The ways on: an error, the next provider, credentials. *)

Refusals == {"cycle", "badrole", "badsource", "empty", "half", "source"}

\* An error ends it all, whether STS was asked or not.
LEMMA AbortInv ==
  ASSUME IInv, NEW e \in Errors, UNCHANGED <<config, visited, stdin, prompts>>,
         step' = "done", stack' = <<>>, value' = Nothing, err' = e,
         calls' \in Seq(Profiles),
         e \in Refusals \cup {"none"} => step \in Searching /\ calls' = calls,
         e = "none" => First = "imds"
  PROVE  IInv'
<1>0. UNCHANGED <<files, env>> /\ Typed /\ First' = First
  BY SameConfig DEF IInv, config
<1>1. e # ""
  BY DEF Errors
<1>2. Typed'
  <2>1. "done" \in Steps /\ <<>> \in Seq(Profiles)
    BY DEF Steps
  <2> QED
    BY <1>0, <2>1, ValuesTyped DEF Typed
<1>3. FlowInv' /\ QuietInv'
  BY DEF FlowInv, QuietInv, Searching, Unwinding
<1>4. DepthInv'
  <2>1. Len(stack') = 0
    OBVIOUS
  <2>2. 0 <= Cardinality(visited')
    BY <1>0, VisitedFinite
  <2> QED
    BY <2>1, <2>2 DEF DepthInv, Searching
<1>5. OrderInv'
  BY DEF OrderInv, Searching
<1>6. Line' = <<>> /\ LineInv'
  <2>1. value'.owner = NoProfile /\ value'.roles = <<>>
    BY DEF Nothing
  <2>2. <<>> \o <<>> = <<>> /\ Len(<<>>) = 0
    OBVIOUS
  <2>3. Line' = <<>>
    BY <2>1, <2>2 DEF Line
  <2> QED
    BY <2>2, <2>3 DEF LineInv
<1>7. SourceInv'
  <2>1. value'.owner = NoProfile
    BY DEF Nothing
  <2> QED
    BY <1>6, <2>1 DEF SourceInv
<1>8. CountInv' /\ NoFallThrough'
  BY <1>1 DEF CountInv, Unwinding, Obtained, NoFallThrough
<1>9. NothingConfigured' /\ ShapeRefused'
  <2>1. step \in Searching => calls = <<>> /\ prompts = 0 /\ stdin = StdinLines
    BY DEF IInv, QuietInv
  <2> QED
    BY <1>0, <2>1 DEF NothingConfigured, ShapeRefused, Refusals
<1> QED
  BY <1>2, <1>3, <1>4, <1>5, <1>6, <1>7, <1>8, <1>9 DEF IInv

\* An error that nothing is asked for or sent before.
LEMMA FailInv ==
  ASSUME IInv, NEW e \in Errors, Fail(e),
         e \in Refusals \cup {"none"} => step \in Searching,
         e = "none" => First = "imds"
  PROVE  IInv'
<1>1. calls' \in Seq(Profiles) /\ calls' = calls
  BY DEF Fail, IInv, Typed
<1> QED
  BY <1>1, AbortInv DEF Fail

\* The provider that runs next, inside resolveProfile or outside.
LEMMA GotoInv ==
  ASSUME IInv, step \in Searching \ {"enter"}, NEW s \in Searching \ {"enter"}, Goto(s),
         stack # <<>> => step \in Metadata /\ s \in Metadata,
         stack = <<>> => /\ env.keys = "none"
                         /\ s \notin {"env", "irsa"} => ~env.irsa
                         /\ s \notin {"env", "irsa", "ecs"} => ~env.ecs
                         /\ s \in Metadata => First = "imds"
  PROVE  IInv'
<1>0. /\ UNCHANGED <<files, env, stack, visited, value, err, stdin, prompts, calls>>
      /\ step' = s /\ First' = First /\ Typed
  BY SameConfig DEF IInv, config, Goto
<1>1. s \in Steps /\ s # "enter" /\ s # "done" /\ s \notin Unwinding
  BY DEF Searching, Steps, Unwinding
<1>2. Typed'
  BY <1>0, <1>1 DEF Typed
<1>3. FlowInv' /\ QuietInv'
  <2>1. FlowInv /\ QuietInv /\ step # "done"
    BY DEF IInv, Searching
  <2> QED
    BY <1>0, <1>1, <2>1 DEF FlowInv, QuietInv, Metadata
<1>4. DepthInv'
  <2>1. DepthInv
    BY DEF IInv
  <2> QED
    BY <1>0, <1>1, <2>1 DEF DepthInv
<1>5. OrderInv'
  <2>1. OrderInv
    BY DEF IInv
  <2> QED
    BY <1>0, <1>1, <2>1 DEF OrderInv
<1>6. Line' = Line /\ LineInv'
  <2>1. LineInv
    BY DEF IInv
  <2>2. Line' = Line
    BY <1>0 DEF Line
  <2> QED
    BY <1>0, <2>1, <2>2, SameConfig DEF LineInv, config
<1>7. SourceInv'
  <2>1. SourceInv /\ value = Nothing
    BY DEF IInv, FlowInv
  <2>2. value.owner = NoProfile
    BY <2>1 DEF Nothing
  <2>3. stack # <<>> => Brings(top, "imds")
    BY <2>1 DEF SourceInv
  <2>4. ASSUME stack # <<>> PROVE Brings(top, "imds")'
    <3>1. top' = top
      BY <1>0 DEF top
    <3> QED
      BY <1>0, <2>3, <2>4, <3>1 DEF Brings, SourceOf, RoleArn, SourceProfile,
         CredentialSource, Cred, Conf
  <2> QED
    BY <1>0, <1>1, <2>2, <2>4 DEF SourceInv, Metadata
<1>8. CountInv' /\ NoFallThrough' /\ NothingConfigured' /\ ShapeRefused'
  <2>1. err = "" /\ step # "done"
    BY DEF IInv, FlowInv, Searching
  <2> QED
    BY <1>0, <1>1, <2>1 DEF CountInv, Unwinding, Obtained, NoFallThrough,
       NothingConfigured, ShapeRefused
<1> QED
  BY <1>2, <1>3, <1>4, <1>5, <1>6, <1>7, <1>8 DEF IInv

\* The lookups of Brings do not change.
LEMMA SameBrings ==
  ASSUME UNCHANGED <<files, env>>
  PROVE  \A x, b : Brings(x, b)' <=> Brings(x, b)
BY DEF Brings, SourceOf, RoleArn, SourceProfile, CredentialSource, Cred, Conf

\* Prompts are counted by the calls made.
LEMMA NobodyPrompted == calls = <<>> => Prompted = 0
<1>1. ASSUME calls = <<>> PROVE {i \in DOMAIN calls : MfaSerial(calls[i])} = {}
  <2>1. DOMAIN calls = {}
    BY <1>1
  <2> QED
    BY <2>1
<1> QED
  BY <1>1, FS_EmptySet DEF Prompted

\* Which of the assumed roles needed a prompt depends on files and calls alone.
LEMMA SamePrompted == UNCHANGED <<files, calls>> => Prompted' = Prompted
BY DEF Prompted, MfaSerial, Cred, Conf

\* A source that is not a profile answers: resolve returns what it brings, or the
\* profile on top, whose credential_source it is, uses it.
LEMMA SourceGot ==
  ASSUME IInv, step \in {"env", "irsa", "ecs", "imdsCreds"},
         NEW b \in {"env", "irsa", "ecs", "imds"},
         b = (IF step = "imdsCreds" THEN "imds" ELSE step),
         Got(From(b), stack), Untouched, stack = <<>> => First = b
  PROVE  IInv'
<1>0. /\ UNCHANGED <<files, env, stack, visited, err, stdin, prompts, calls>>
      /\ First' = First /\ Typed /\ value' = From(b)
      /\ step' = IF stack = <<>> THEN "done" ELSE "assume"
  BY SameConfig DEF IInv, config, Got, Untouched
<1>1. /\ err = "" /\ value = Nothing /\ calls = <<>> /\ prompts = 0
      /\ stdin = StdinLines /\ step \in Searching
  BY DEF IInv, FlowInv, QuietInv, Searching
<1>2. /\ value'.owner = NoProfile /\ value'.roles = <<>> /\ value'.base = b
      /\ value.owner = NoProfile /\ value.roles = <<>>
  BY <1>0, <1>1 DEF From, Nothing
<1>3. Typed'
  <2>1. step' \in Steps /\ value' \in ValueType
    BY <1>0, ValuesTyped DEF Steps
  <2> QED
    BY <1>0, <2>1 DEF Typed
<1>4. FlowInv' /\ QuietInv'
  BY <1>0, <1>1 DEF FlowInv, QuietInv, Searching, Unwinding
<1>5. DepthInv'
  <2>1. Len(stack) <= Cardinality(visited)
    BY DEF IInv, DepthInv
  <2> QED
    BY <1>0, <2>1 DEF DepthInv, Searching
<1>6. OrderInv'
  BY <1>0 DEF IInv, OrderInv, Searching
<1>7. Line' = Line /\ Line = stack
  <2>1. <<>> \o <<>> = <<>>
    OBVIOUS
  <2>2. <<>> \o stack = stack
    BY <1>0, ConcatEmptySeq DEF Typed
  <2> QED
    BY <1>0, <1>2, <2>1, <2>2 DEF Line
<1>8. LineInv'
  BY <1>0, <1>7, SameConfig DEF IInv, LineInv, config
<1>9. SourceInv'
  <2>1. ASSUME stack # <<>> PROVE Brings(stack[1], b)
    BY <2>1, <1>0, TopTyped DEF IInv, SourceInv, FlowInv, Metadata
  <2> QED
    BY <1>0, <1>2, <1>7, <2>1, SameBrings DEF SourceInv, Metadata
<1>10. CountInv'
  <2>1. Prompted' = 0
    BY <1>0, <1>1, NobodyPrompted, SamePrompted
  <2> QED
    BY <1>0, <1>1, <1>2, <2>1 DEF CountInv, Obtained
<1>11. NoFallThrough'
  <2>1. CASE stack = <<>>
    BY <1>0, <1>2, <2>1 DEF NoFallThrough, Obtained
  <2>2. CASE stack # <<>>
    BY <1>0, <2>2 DEF NoFallThrough, Obtained
  <2> QED
    BY <2>1, <2>2
<1>12. NothingConfigured' /\ ShapeRefused'
  BY <1>0, <1>1 DEF NothingConfigured, ShapeRefused
<1> QED
  BY <1>3, <1>4, <1>5, <1>6, <1>8, <1>9, <1>10, <1>11, <1>12 DEF IInv

\* The profile on top has credentials of its own.
LEMMA OwnGot ==
  ASSUME IInv, step = "enter", NEW s \in {"keys", "process"}, NEW f \in {"cred", "conf"},
         Got(FromProfile(s, f, top), Tail(stack)), Untouched, ~RoleArn(top),
         s = "keys" => files[f][top].keys = "full" /\ (f = "conf" => Cred(top).keys = "none"),
         s = "process" => /\ Cred(top).keys = "none" /\ Conf(top).keys = "none"
                          /\ files[f][top].process
                          /\ f = "cred" => ~Conf(top).process
  PROVE  IInv'
<1>0. /\ UNCHANGED <<files, env, visited, err, stdin, prompts, calls>>
      /\ First' = First /\ Typed /\ value' = FromProfile(s, f, top)
      /\ stack' = Tail(stack)
      /\ step' = IF Tail(stack) = <<>> THEN "done" ELSE "assume"
  BY SameConfig DEF IInv, config, Got, Untouched
<1>1. /\ err = "" /\ value = Nothing /\ calls = <<>> /\ prompts = 0
      /\ stdin = StdinLines /\ step \in Searching /\ stack # <<>>
  BY DEF IInv, FlowInv, QuietInv, Searching
<1>2. /\ value'.owner = top /\ value'.roles = <<>> /\ value'.base = s /\ value'.file = f
      /\ value.owner = NoProfile /\ value.roles = <<>>
  BY <1>0, <1>1 DEF FromProfile, Nothing
<1>3. /\ top \in Profiles /\ top # NoProfile /\ Tail(stack) \in Seq(Profiles)
      /\ Len(Tail(stack)) = Len(stack) - 1 /\ <<top>> \o Tail(stack) = stack
      /\ Len(stack) \in Nat /\ stack \in Seq(Profiles)
  BY <1>0, <1>1, TopTyped, Constants DEF Typed
<1>4. Typed'
  <2>1. step' \in Steps
    BY <1>0 DEF Steps
  <2>2. value' \in ValueType
    BY <1>0, <1>3, ValuesTyped
  <2> QED
    BY <1>0, <1>3, <2>1, <2>2 DEF Typed
<1>5. FlowInv' /\ QuietInv'
  BY <1>0, <1>1 DEF FlowInv, QuietInv, Searching, Unwinding
<1>6. DepthInv'
  <2>1. Len(stack) = Cardinality(visited) + 1 /\ Cardinality(visited) \in Nat
    BY <1>0, VisitedFinite DEF IInv, DepthInv
  <2> QED
    BY <1>0, <1>3, <2>1 DEF DepthInv, Searching
<1>7. OrderInv'
  BY <1>0, <1>1 DEF IInv, OrderInv, Searching
<1>8. Line' = Line
  <2>1. <<>> \o <<>> = <<>> /\ <<>> \o stack = stack /\ <<top>> \o <<>> = <<top>>
    BY <1>3
  <2>2. Line = stack
    BY <1>2, <2>1 DEF Line
  <2>3. Line' = <<top>> \o Tail(stack)
    BY <1>0, <1>2, <1>3, <2>1 DEF Line
  <2> QED
    BY <1>3, <2>2, <2>3
<1>9. LineInv'
  BY <1>0, <1>8, SameConfig DEF IInv, LineInv, config
<1>10. SourceInv'
  <2>1. PICK t \in Profiles : t = top
    BY <1>3
  <2>2. OwnSource(t)'
    BY <1>0, <1>2, <2>1 DEF OwnSource, RoleArn, Cred, Conf
  <2>3. value'.owner = t /\ t # NoProfile
    BY <1>2, <1>3, <2>1
  <2> QED
    BY <1>0, <2>2, <2>3 DEF SourceInv, Metadata
<1>11. CountInv'
  <2>1. Prompted' = 0
    BY <1>0, <1>1, NobodyPrompted, SamePrompted
  <2> QED
    BY <1>0, <1>1, <1>2, <2>1 DEF CountInv, Obtained
<1>12. NoFallThrough'
  <2>1. First' = "profile"
    BY <1>0, <1>1 DEF IInv, OrderInv
  <2> QED
    BY <1>2, <1>3, <2>1 DEF NoFallThrough, ThroughProfile
<1>13. NothingConfigured' /\ ShapeRefused'
  BY <1>0, <1>1 DEF NothingConfigured, ShapeRefused
<1> QED
  BY <1>4, <1>5, <1>6, <1>7, <1>9, <1>10, <1>11, <1>12, <1>13 DEF IInv

\* A profile is entered in front of a line that it belongs to.
LEMMA Push ==
  ASSUME NEW S \in Seq(Profiles), NEW x \in Profiles,
         S # <<>> => S[Len(S)] = Active /\ RoleArn(S[1]) /\ SourceProfile(S[1]) = x,
         S = <<>> => x = Active,
         \A i \in 1..(Len(S) - 1) : RoleArn(S[i + 1]) /\ SourceProfile(S[i + 1]) = S[i]
  PROVE  LET T == <<x>> \o S
         IN  /\ T \in Seq(Profiles) /\ Len(T) = Len(S) + 1 /\ T[Len(T)] = Active
             /\ \A i \in 1..(Len(T) - 1) : RoleArn(T[i + 1]) /\ SourceProfile(T[i + 1]) = T[i]
<1> DEFINE T == <<x>> \o S
<1>1. T \in Seq(Profiles) /\ Len(T) = Len(S) + 1 /\ Len(S) \in Nat /\ T[1] = x
  OBVIOUS
<1>2. \A i \in 1..Len(S) : T[i + 1] = S[i]
  OBVIOUS
<1>3. T[Len(T)] = Active
  <2>1. CASE S = <<>>
    BY <1>1, <2>1
  <2>2. CASE S # <<>>
    <3>1. Len(S) \in 1..Len(S)
      BY <2>2
    <3> QED
      BY <1>1, <1>2, <2>2, <3>1
  <2> QED
    BY <2>1, <2>2
<1>4. ASSUME NEW i \in 1..(Len(T) - 1)
      PROVE  RoleArn(T[i + 1]) /\ SourceProfile(T[i + 1]) = T[i]
  <2>0. i \in 1..Len(S) /\ T[i + 1] = S[i]
    BY <1>1, <1>2
  <2>1. CASE i = 1
    <3>1. S # <<>>
      BY <2>0
    <3> QED
      BY <1>1, <2>0, <2>1, <3>1
  <2>2. CASE i # 1
    <3>1. i - 1 \in 1..(Len(S) - 1) /\ (i - 1) + 1 = i
      BY <1>1, <2>0, <2>2
    <3>2. T[i] = S[i - 1]
      <4>1. i - 1 \in 1..Len(S)
        BY <1>1, <3>1
      <4> QED
        BY <1>2, <3>1, <4>1
    <3>3. RoleArn(S[i]) /\ SourceProfile(S[i]) = S[i - 1]
      BY <3>1
    <3> QED
      BY <2>0, <3>2, <3>3
  <2> QED
    BY <2>1, <2>2
<1> HIDE DEF T
<1> QED
  BY <1>1, <1>3, <1>4 DEF T

\* resolveProfile is entered, for the active profile or for a source_profile.
LEMMA EnterInv ==
  ASSUME IInv, step \in Searching, NEW x \in Profiles,
         step' = "enter", stack' = <<x>> \o stack,
         UNCHANGED <<config, value, err>>, Untouched,
         First = "profile",
         stack = <<>> => x = Active /\ visited' = visited,
         stack # <<>> => /\ step = "enter" /\ top \notin visited
                         /\ visited' = visited \cup {top}
                         /\ RoleArn(top) /\ SourceProfile(top) = x
  PROVE  IInv'
<1>0. /\ UNCHANGED <<files, env, value, err, stdin, prompts, calls>>
      /\ First' = First /\ Typed
  BY SameConfig DEF IInv, config, Untouched
<1>1. /\ err = "" /\ value = Nothing /\ calls = <<>> /\ prompts = 0
      /\ stdin = StdinLines /\ value.owner = NoProfile /\ value.roles = <<>>
  <2>1. /\ err = "" /\ value = Nothing /\ calls = <<>> /\ prompts = 0
        /\ stdin = StdinLines
    BY DEF IInv, FlowInv, QuietInv, Searching
  <2> QED
    BY <2>1 DEF Nothing
<1>2. stack \in Seq(Profiles) /\ <<>> \o <<>> = <<>> /\ <<>> \o stack = stack
  <2>1. <<>> \o <<>> = <<>>
    OBVIOUS
  <2>2. stack \in Seq(Profiles)
    BY <1>0 DEF Typed
  <2> QED
    BY <2>1, <2>2, ConcatEmptySeq
<1>3. Line = stack /\ LineInv
  BY <1>1, <1>2 DEF Line, IInv
<1>4. /\ stack' \in Seq(Profiles) /\ Len(stack') = Len(stack) + 1
      /\ stack'[Len(stack')] = Active
      /\ \A i \in 1..(Len(stack') - 1) :
           RoleArn(stack'[i + 1]) /\ SourceProfile(stack'[i + 1]) = stack'[i]
  <2>1. stack # <<>> => RoleArn(stack[1]) /\ SourceProfile(stack[1]) = x
    BY <1>0, TopTyped
  <2>2. stack # <<>> => stack[Len(stack)] = Active
    BY <1>3 DEF LineInv
  <2>3. \A i \in 1..(Len(stack) - 1) :
          RoleArn(stack[i + 1]) /\ SourceProfile(stack[i + 1]) = stack[i]
    BY <1>3 DEF LineInv
  <2> QED
    BY <1>2, <2>1, <2>2, <2>3, Push
<1>5. stack' # <<>>
  BY <1>2, <1>4
<1>6. Typed'
  <2>1. "enter" \in Steps
    BY DEF Steps
  <2>2. visited' \subseteq Profiles
    <3>1. visited \subseteq Profiles
      BY <1>0 DEF Typed
    <3>2. CASE stack = <<>>
      BY <3>1, <3>2
    <3>3. CASE stack # <<>>
      BY <1>0, <3>1, <3>3, TopTyped
    <3> QED
      BY <3>2, <3>3
  <2> QED
    BY <1>0, <1>4, <2>1, <2>2 DEF Typed
<1>7. FlowInv' /\ QuietInv'
  BY <1>0, <1>1, <1>5 DEF FlowInv, QuietInv, Unwinding
<1>8. DepthInv'
  <2>1. IsFiniteSet(visited) /\ Cardinality(visited) \in Nat /\ Len(stack) \in Nat
    BY <1>0, <1>2, VisitedFinite
  <2>2. CASE stack = <<>>
    <3>1. visited = {} /\ Len(stack) = 0
      BY <2>2 DEF IInv, DepthInv
    <3>2. Cardinality(visited') = 0
      BY <2>2, <3>1, FS_EmptySet
    <3> QED
      BY <1>4, <1>5, <3>1, <3>2 DEF DepthInv
  <2>3. CASE stack # <<>>
    <3>1. Len(stack) = Cardinality(visited) + 1
      BY <2>3 DEF IInv, DepthInv
    <3>2. Cardinality(visited') = Cardinality(visited) + 1
      BY <2>1, <2>3, FS_AddElement
    <3> QED
      BY <1>4, <1>5, <2>1, <3>1, <3>2 DEF DepthInv
  <2> QED
    BY <2>2, <2>3
<1>9. OrderInv'
  BY <1>0, <1>5 DEF OrderInv
<1>10. Line' = stack'
  <2>1. <<>> \o stack' = stack'
    BY <1>4, ConcatEmptySeq
  <2> QED
    BY <1>0, <1>1, <1>2, <2>1 DEF Line
<1>11. LineInv'
  BY <1>4, <1>10, SameConfig DEF LineInv
<1>12. SourceInv'
  BY <1>0, <1>1 DEF SourceInv, Metadata, Searching
<1>13. CountInv' /\ NoFallThrough' /\ NothingConfigured' /\ ShapeRefused'
  BY <1>0, <1>1 DEF CountInv, Unwinding, Obtained, NoFallThrough,
     NothingConfigured, ShapeRefused
<1> QED
  BY <1>6, <1>7, <1>8, <1>9, <1>11, <1>12, <1>13 DEF IInv

\* The provider that the credential_source of the profile on top names runs.
LEMMA CredentialSourceInv ==
  ASSUME IInv, step = "enter", top \notin visited, NEW s \in {"env", "ecs", "imds"},
         step' = s, visited' = visited \cup {top}, Brings(top, s),
         UNCHANGED <<config, stack, value, err>>, Untouched
  PROVE  IInv'
<1>0. /\ UNCHANGED <<files, env, stack, value, err, stdin, prompts, calls>>
      /\ First' = First /\ Typed /\ stack # <<>>
  BY SameConfig DEF IInv, FlowInv, config, Untouched
<1>1. /\ err = "" /\ value = Nothing /\ calls = <<>> /\ prompts = 0
      /\ stdin = StdinLines /\ value.owner = NoProfile /\ value.roles = <<>>
  <2>1. /\ err = "" /\ value = Nothing /\ calls = <<>> /\ prompts = 0
        /\ stdin = StdinLines
    BY DEF IInv, FlowInv, QuietInv, Searching
  <2> QED
    BY <2>1 DEF Nothing
<1>2. Typed'
  <2>1. s \in Steps /\ visited' \subseteq Profiles
    BY <1>0, TopTyped DEF Steps, Typed
  <2> QED
    BY <1>0, <2>1 DEF Typed
<1>3. FlowInv' /\ QuietInv'
  BY <1>0, <1>1 DEF FlowInv, QuietInv, Searching, Unwinding
<1>4. DepthInv'
  <2>1. IsFiniteSet(visited) /\ Cardinality(visited) \in Nat
    BY <1>0, VisitedFinite
  <2>2. Cardinality(visited') = Cardinality(visited) + 1
    BY <2>1, FS_AddElement
  <2>3. Len(stack) = Cardinality(visited) + 1
    BY DEF IInv, DepthInv
  <2> QED
    BY <1>0, <2>1, <2>2, <2>3 DEF DepthInv
<1>5. OrderInv'
  BY <1>0 DEF IInv, OrderInv
<1>6. Line' = Line /\ LineInv'
  <2>1. Line' = Line
    BY <1>0 DEF Line
  <2> QED
    BY <2>1, SameConfig DEF IInv, LineInv
<1>7. SourceInv'
  <2>1. PICK t \in Profiles : t = top
    BY <1>0, TopTyped
  <2>2. top' = t /\ Brings(t, s)'
    BY <1>0, <2>1, SameBrings DEF top
  <2>3. s \in Searching /\ (s \in Metadata => s = "imds")
    BY DEF Searching, Metadata
  <2>4. step' \in {"env", "ecs"} => Brings(top, step)'
    BY <1>0, <2>1, SameBrings DEF top
  <2>5. step' \in Metadata => Brings(top, "imds")'
    BY <1>0, <2>1, <2>3, SameBrings DEF top
  <2> QED
    BY <1>0, <1>1, <2>3, <2>4, <2>5 DEF SourceInv
<1>8. CountInv' /\ NoFallThrough' /\ NothingConfigured' /\ ShapeRefused'
  BY <1>0, <1>1 DEF CountInv, Unwinding, Obtained, NoFallThrough,
     NothingConfigured, ShapeRefused
<1> QED
  BY <1>2, <1>3, <1>4, <1>5, <1>6, <1>7, <1>8 DEF IInv

\* The user was asked for a token, or nobody had to be.
LEMMA AskedInv ==
  ASSUME IInv, step = "assume", step' = "sts",
         UNCHANGED <<config, stack, visited, value, err, calls>>,
         prompts' = prompts + (IF MfaSerial(top) THEN 1 ELSE 0),
         stdin' \in 0..StdinLines
  PROVE  IInv'
<1>0. /\ UNCHANGED <<files, env, stack, visited, value, err, calls>>
      /\ First' = First /\ Typed /\ stack # <<>> /\ err = "" /\ prompts \in Nat
  BY SameConfig DEF IInv, FlowInv, Unwinding, config, Typed
<1>1. Typed'
  <2>1. "sts" \in Steps
    BY DEF Steps
  <2>2. prompts' \in Nat
    <3>1. prompts \in Nat
      BY <1>0
    <3>2. prompts + 1 \in Nat /\ prompts + 0 \in Nat
      BY <3>1
    <3> QED
      BY <3>2
  <2> QED
    BY <1>0, <2>1, <2>2 DEF Typed
<1>2. FlowInv' /\ QuietInv'
  BY <1>0 DEF FlowInv, QuietInv, Searching
<1>3. DepthInv'
  BY <1>0 DEF IInv, DepthInv, Searching
<1>4. OrderInv'
  BY <1>0 DEF IInv, OrderInv
<1>5. Line' = Line /\ LineInv'
  <2>1. Line' = Line
    BY <1>0 DEF Line
  <2> QED
    BY <2>1, SameConfig DEF IInv, LineInv
<1>6. SourceInv'
  <2>1. value.owner # NoProfile => OwnSource(value.owner)
    BY DEF IInv, SourceInv
  <2>2. value.owner # NoProfile => OwnSource(value.owner)'
    BY <1>0, <2>1 DEF OwnSource, RoleArn, Cred, Conf
  <2>3. Line # <<>> /\ value.owner = NoProfile => Brings(Line[1], value.base)
    BY DEF IInv, SourceInv, Searching
  <2>4. Line # <<>> /\ value.owner = NoProfile => Brings(Line[1], value.base)'
    BY <1>0, <1>5, <2>3, SameBrings
  <2> QED
    BY <1>0, <1>5, <2>2, <2>4 DEF SourceInv, Metadata
<1>7. CountInv'
  <2>1. calls = value.roles /\ prompts = Prompted
    BY DEF IInv, CountInv, Unwinding
  <2>2. Prompted' = Prompted
    BY <1>0, SamePrompted
  <2>3. MfaSerial(top)' <=> MfaSerial(top)
    BY <1>0 DEF MfaSerial, Cred, Conf, top
  <2> QED
    BY <1>0, <2>1, <2>2, <2>3 DEF CountInv, Obtained
<1>8. NoFallThrough' /\ NothingConfigured' /\ ShapeRefused'
  BY <1>0 DEF Obtained, NoFallThrough, NothingConfigured, ShapeRefused
<1> QED
  BY <1>1, <1>2, <1>3, <1>4, <1>5, <1>6, <1>7, <1>8 DEF IInv

\* One more call counts one more prompt, if its profile has an mfa_serial.
LEMMA MorePrompted ==
  ASSUME calls \in Seq(Profiles), NEW x \in Profiles,
         UNCHANGED files, calls' = Append(calls, x)
  PROVE  /\ Prompted \in Nat
         /\ Prompted' = Prompted + (IF MfaSerial(x) THEN 1 ELSE 0)
<1> DEFINE n == Len(calls)
           A == {i \in 1..n : MfaSerial(calls[i])}
<1>1. /\ n \in Nat /\ DOMAIN calls = 1..n /\ DOMAIN calls' = 1..(n + 1)
      /\ calls'[n + 1] = x /\ \A i \in 1..n : calls'[i] = calls[i]
  OBVIOUS
<1>3. IsFiniteSet(A) /\ Cardinality(A) \in Nat
  <2>1. IsFiniteSet(1..n)
    BY <1>1, FS_Interval
  <2> QED
    BY <2>1, FS_Subset, FS_CardinalityType
<1>4. Prompted = Cardinality(A)
  BY <1>1 DEF Prompted
<1>5. Prompted' = Cardinality({i \in 1..(n + 1) : MfaSerial(calls'[i])})
  <2>1. Prompted' = Cardinality({i \in DOMAIN calls' : (MfaSerial(calls[i]))'})
    BY DEF Prompted
  <2>2. {i \in DOMAIN calls' : (MfaSerial(calls[i]))'}
          = {i \in 1..(n + 1) : MfaSerial(calls'[i])}
    BY <1>1 DEF MfaSerial, Cred, Conf
  <2> QED
    BY <2>1, <2>2
<1>6. n + 1 \notin A /\ n \in Nat
  BY <1>1
<1>7. CASE MfaSerial(x)
  <2>1. {i \in 1..(n + 1) : MfaSerial(calls'[i])} = A \cup {n + 1}
    BY <1>1, <1>7
  <2>2. Cardinality(A \cup {n + 1}) = Cardinality(A) + 1
    BY <1>3, <1>6, FS_AddElement
  <2> QED
    BY <1>3, <1>4, <1>5, <1>7, <2>1, <2>2
<1>8. CASE ~MfaSerial(x)
  <2>1. {i \in 1..(n + 1) : MfaSerial(calls'[i])} = A
    BY <1>1, <1>8
  <2>2. Prompted' = Cardinality(A)
    BY <1>5, <2>1
  <2> HIDE DEF A
  <2> QED
    BY <1>3, <1>4, <1>8, <2>2
<1> QED
  BY <1>7, <1>8

\* STS answers: the role of the profile on top comes last in the chain.
LEMMA AssumeGot ==
  ASSUME IInv, step = "sts", calls' = Append(calls, top),
         Got([value EXCEPT !.roles = Append(@, top)], Tail(stack)),
         UNCHANGED <<stdin, prompts>>
  PROVE  IInv'
<1>0. /\ UNCHANGED <<files, env, visited, err, stdin, prompts>>
      /\ First' = First /\ Typed /\ stack' = Tail(stack)
      /\ value' = [value EXCEPT !.roles = Append(@, top)]
      /\ step' = IF Tail(stack) = <<>> THEN "done" ELSE "assume"
  BY SameConfig DEF IInv, config, Got
<1>1. stack # <<>> /\ err = ""
  BY DEF IInv, FlowInv, Unwinding
<1>2. /\ top \in Profiles /\ top # NoProfile /\ Tail(stack) \in Seq(Profiles)
      /\ Len(Tail(stack)) = Len(stack) - 1 /\ <<top>> \o Tail(stack) = stack
      /\ Len(stack) \in Nat /\ stack \in Seq(Profiles)
  BY <1>0, <1>1, TopTyped, Constants DEF Typed
<1>3. /\ value.roles \in Seq(Profiles) /\ value.owner \in Profiles \cup {NoProfile}
      /\ value'.owner = value.owner /\ value'.base = value.base
      /\ value'.file = value.file /\ value'.roles = Append(value.roles, top)
      /\ value' \in ValueType /\ calls \in Seq(Profiles)
  <2>1. value \in ValueType /\ calls \in Seq(Profiles)
    BY <1>0 DEF Typed
  <2>2. \A r \in Seq(Profiles) : Append(r, top) \in Seq(Profiles)
    BY <1>2
  <2> QED
    BY <1>0, <2>1, <2>2 DEF ValueType
<1>4. Typed'
  <2>1. step' \in Steps /\ calls' \in Seq(Profiles)
    <3>1. step' \in Steps
      BY <1>0 DEF Steps
    <3> QED
      BY <1>2, <1>3, <3>1
  <2> QED
    BY <1>0, <1>2, <1>3, <2>1 DEF Typed
<1>5. FlowInv' /\ QuietInv'
  BY <1>0, <1>1 DEF FlowInv, QuietInv, Searching, Unwinding
<1>6. DepthInv'
  <2>1. Len(stack) <= Cardinality(visited) /\ Cardinality(visited) \in Nat
    BY <1>0, VisitedFinite DEF IInv, DepthInv
  <2> QED
    BY <1>0, <1>2, <2>1 DEF DepthInv, Searching
<1>7. OrderInv'
  BY <1>0, <1>1 DEF IInv, OrderInv, Searching
<1>8. Line' = Line /\ Line # <<>>
  <2> DEFINE own == IF value.owner = NoProfile THEN <<>> ELSE <<value.owner>>
  <2>1. own \in Seq(Profiles)
    <3>1. CASE value.owner = NoProfile
      BY <3>1
    <3>2. CASE value.owner # NoProfile
      BY <1>3, <3>2
    <3> QED
      BY <3>1, <3>2
  <2>2. Line = own \o value.roles \o stack
    BY DEF Line
  <2>3. Line' = own \o Append(value.roles, top) \o Tail(stack)
    <3>1. own' = own
      BY <1>3
    <3>2. Line' = own' \o value'.roles \o stack'
      BY DEF Line
    <3> HIDE DEF own
    <3> QED
      BY <1>0, <1>3, <3>1, <3>2
  <2> HIDE DEF own
  <2>4. \A o, r, s \in Seq(Profiles) : \A x \in Profiles :
          o \o Append(r, x) \o s = o \o r \o (<<x>> \o s)
    BY SMTT(30)
  <2>5. \A o, r, s \in Seq(Profiles) : s # <<>> => o \o r \o s # <<>>
    OBVIOUS
  <2>6. stack = <<top>> \o Tail(stack)
    BY <1>2
  <2>7. Line' = own \o value.roles \o (<<top>> \o Tail(stack))
    BY ZenonT(30), <1>2, <1>3, <2>1, <2>3, <2>4
  <2>8. Line' = Line
    BY <2>2, <2>6, <2>7, Zenon
  <2>9. Line # <<>>
    BY <1>1, <1>2, <1>3, <2>1, <2>2, <2>5
  <2> QED
    BY <2>8, <2>9
<1>9. LineInv'
  BY <1>0, <1>8, SameConfig DEF IInv, LineInv, config
<1>10. SourceInv'
  <2>1. value.owner # NoProfile => OwnSource(value.owner)
    BY DEF IInv, SourceInv
  <2>2. ASSUME NEW t, t = value.owner, OwnSource(t)
        PROVE  OwnSource(t)'
    BY <1>0, <1>3, <2>2 DEF OwnSource, RoleArn, Cred, Conf
  <2>3. value.owner = NoProfile => Brings(Line[1], value.base)
    BY <1>8 DEF IInv, SourceInv, Searching
  <2>5. (value.owner # NoProfile => OwnSource(value.owner))'
    BY <1>3, <2>1, <2>2
  <2>6. (value.owner = NoProfile => Brings(Line[1], value.base))'
    BY <1>0, <1>3, <1>8, <2>3, SameBrings
  <2> QED
    BY <1>0, <2>5, <2>6 DEF SourceInv, Metadata
<1>11. CountInv'
  <2>1. calls = value.roles
    BY DEF IInv, CountInv, Unwinding
  <2>2. prompts = Prompted + (IF MfaSerial(top) THEN 1 ELSE 0)
    BY DEF IInv, CountInv
  <2>3. Prompted' = Prompted + (IF MfaSerial(top) THEN 1 ELSE 0)
    BY <1>0, <1>2, <1>3, MorePrompted
  <2> QED
    BY <1>0, <1>3, <2>1, <2>2, <2>3 DEF CountInv, Obtained
<1>12. NoFallThrough'
  <2>1. First' = "profile"
    BY <1>0, <1>1 DEF IInv, OrderInv
  <2>2. value'.roles # <<>>
    <3>1. \A r \in Seq(Profiles) : Append(r, top) # <<>>
      BY <1>2
    <3> QED
      BY <1>3, <3>1
  <2> QED
    BY <2>1, <2>2 DEF NoFallThrough, ThroughProfile
<1>13. NothingConfigured' /\ ShapeRefused'
  BY <1>0, <1>1 DEF NothingConfigured, ShapeRefused
<1> QED
  BY <1>4, <1>5, <1>6, <1>7, <1>9, <1>10, <1>11, <1>12, <1>13 DEF IInv

-----------------------------------------------------------------------------
(* Every step. *)

\* What holds where a provider runs.
LEMMA Running ==
  ASSUME IInv
  PROVE  /\ Typed
         /\ step \in {"irsa", "profile"} => stack = <<>>
         /\ stack = <<>> /\ step \in Searching =>
              /\ step # "env" => env.keys = "none"
              /\ step \notin {"env", "irsa"} => ~env.irsa
              /\ step \notin {"env", "irsa", "ecs"} => ~env.ecs
              /\ step \in Metadata => First = "imds"
BY DEF IInv, FlowInv, OrderInv

\* errNoMatch, from a provider that may be a credential_source.
LEMMA NoMatchInv ==
  ASSUME IInv, step \in Searching \ {"enter"}, NEW s \in {"irsa", "ecs", "profile", "imds"},
         NoMatch(s),
         stack = <<>> => /\ env.keys = "none"
                         /\ s # "irsa" => ~env.irsa
                         /\ s \notin {"irsa", "ecs"} => ~env.ecs
                         /\ s = "imds" => First = "imds"
  PROVE  IInv'
<1>1. CASE stack # <<>>
  <2>1. Fail("source") /\ "source" \in Errors
    BY <1>1 DEF NoMatch, Errors
  <2> QED
    BY <2>1, FailInv
<1>2. CASE stack = <<>>
  <2>1. Goto(s) /\ s \in Searching \ {"enter"} /\ (s \in Metadata => s = "imds")
    BY <1>2 DEF NoMatch, Searching, Metadata
  <2> QED
    BY <1>2, <2>1, GotoInv
<1> QED
  BY <1>1, <1>2

\* A request to one of the services fails, or brings credentials.
LEMMA FetchSourceInv ==
  ASSUME IInv, step \in {"irsa", "ecs", "imdsCreds"},
         NEW b \in {"irsa", "ecs", "imds"},
         b = (IF step = "imdsCreds" THEN "imds" ELSE step),
         Fetch(From(b), stack), stack = <<>> => First = b
  PROVE  IInv'
<1>1. CASE Fail("external")
  <2>1. "external" \in Errors \ (Refusals \cup {"none"})
    BY DEF Errors, Refusals
  <2> QED
    BY <1>1, <2>1, FailInv
<1>2. CASE Got(From(b), stack) /\ Untouched
  BY <1>2, SourceGot
<1> QED
  BY <1>1, <1>2 DEF Fetch

\* The environment's keys, asked first or for a credential_source.
LEMMA EnvProviderInv == IInv /\ EnvProvider => IInv'
<1> SUFFICES ASSUME IInv, EnvProvider PROVE IInv'
  OBVIOUS
<1>1. step = "env" /\ step \in Searching \ {"enter"}
  BY DEF EnvProvider, Searching
<1>2. CASE env.keys = "none"
  <2>1. NoMatch("irsa")
    BY <1>2 DEF EnvProvider
  <2> QED
    BY <1>1, <1>2, <2>1, NoMatchInv
<1>3. CASE env.keys = "half"
  <2>1. Fail("half") /\ "half" \in Errors
    BY <1>3 DEF EnvProvider, Errors
  <2> QED
    BY <1>1, <2>1, FailInv
<1>4. CASE env.keys \notin {"none", "half"}
  <2>1. Got(From("env"), stack) /\ Untouched
    BY <1>4 DEF EnvProvider
  <2>2. First = "env"
    BY <1>4 DEF First
  <2> QED
    BY <1>1, <2>1, <2>2, SourceGot
<1> QED
  BY <1>2, <1>3, <1>4

\* The web identity provider.
LEMMA WebIdentityProviderInv == IInv /\ WebIdentityProvider => IInv'
<1> SUFFICES ASSUME IInv, WebIdentityProvider PROVE IInv'
  OBVIOUS
<1>1. step = "irsa" /\ step \in Searching \ {"enter"} /\ env.keys = "none"
  BY Running DEF WebIdentityProvider, Searching
<1>2. CASE env.irsa
  <2>1. Fetch(From("irsa"), stack) /\ First = "irsa"
    BY <1>1, <1>2 DEF WebIdentityProvider, First
  <2> QED
    BY <1>1, <2>1, FetchSourceInv
<1>3. CASE ~env.irsa
  <2>1. NoMatch("ecs")
    BY <1>3 DEF WebIdentityProvider
  <2> QED
    BY <1>1, <1>3, <2>1, NoMatchInv
<1> QED
  BY <1>2, <1>3

\* The container's provider.
LEMMA ECSProviderInv == IInv /\ ECSProvider => IInv'
<1> SUFFICES ASSUME IInv, ECSProvider PROVE IInv'
  OBVIOUS
<1>1. /\ step = "ecs" /\ step \in Searching \ {"enter"}
      /\ stack = <<>> => env.keys = "none" /\ ~env.irsa
  BY Running DEF ECSProvider, Searching
<1>2. CASE env.ecs
  <2>1. Fetch(From("ecs"), stack) /\ (stack = <<>> => First = "ecs")
    BY <1>1, <1>2 DEF ECSProvider, First
  <2> QED
    BY <1>1, <2>1, FetchSourceInv
<1>3. CASE ~env.ecs
  <2>1. NoMatch("profile")
    BY <1>3 DEF ECSProvider
  <2> QED
    BY <1>1, <1>3, <2>1, NoMatchInv
<1> QED
  BY <1>2, <1>3

\* The shared files: the active profile, if it exists, is resolved.
LEMMA SharedProfileProviderInv == IInv /\ SharedProfileProvider => IInv'
<1> SUFFICES ASSUME IInv, SharedProfileProvider PROVE IInv'
  OBVIOUS
<1>1. /\ step = "profile" /\ step \in Searching \ {"enter"} /\ stack = <<>>
      /\ env.keys = "none" /\ ~env.irsa /\ ~env.ecs
  BY Running DEF SharedProfileProvider, Searching
<1>2. CASE Fail("files")
  <2>1. "files" \in Errors \ (Refusals \cup {"none"})
    BY DEF Errors, Refusals
  <2> QED
    BY <1>2, <2>1, FailInv
<1>3. CASE /\ Cred(Active).present \/ Conf(Active).present
           /\ step' = "enter" /\ stack' = <<Active>>
           /\ UNCHANGED <<config, visited, value, err>> /\ Untouched
  <2>1. First = "profile"
    BY <1>1, <1>3 DEF First
  <2>2. stack' = <<Active>> \o stack
    BY <1>1, <1>3
  <2>3. UNCHANGED <<config, value, err>> /\ visited' = visited /\ Active \in Profiles
    BY <1>3, Constants
  <2> QED
    BY <1>1, <1>3, <2>1, <2>2, <2>3, EnterInv
<1>4. CASE ~(Cred(Active).present \/ Conf(Active).present) /\ NoMatch("imds")
  <2>1. First = "imds"
    BY <1>1, <1>4 DEF First
  <2> QED
    BY <1>1, <1>4, <2>1, NoMatchInv
<1> QED
  BY <1>2, <1>3, <1>4 DEF SharedProfileProvider

\* The three requests to the instance metadata service.
LEMMA IMDSInv == IInv /\ (IMDSToken \/ IMDSRole \/ IMDSCreds) => IInv'
<1> SUFFICES ASSUME IInv, IMDSToken \/ IMDSRole \/ IMDSCreds PROVE IInv'
  OBVIOUS
<1>1. /\ step \in Metadata /\ step \in Searching \ {"enter"}
      /\ stack = <<>> => /\ env.keys = "none" /\ ~env.irsa /\ ~env.ecs
                         /\ First = "imds"
  <2>1. step \in Metadata
    BY DEF IMDSToken, IMDSRole, IMDSCreds, Metadata
  <2>2. step \in Searching \ {"enter"} /\ step \notin {"env", "irsa", "ecs"}
    BY <2>1 DEF Metadata, Searching
  <2> QED
    BY <2>1, <2>2, Running
<1>2. ASSUME Fail("external") PROVE IInv'
  <2>1. "external" \in Errors \ (Refusals \cup {"none"})
    BY DEF Errors, Refusals
  <2> QED
    BY <1>2, <2>1, FailInv
<1>3. ASSUME NoMatch("") PROVE IInv'
  <2>1. "source" \in Errors /\ "none" \in Errors
    BY DEF Errors
  <2>2. CASE stack # <<>>
    BY <1>1, <1>3, <2>1, <2>2, FailInv DEF NoMatch
  <2>3. CASE stack = <<>>
    BY <1>1, <1>3, <2>1, <2>3, FailInv DEF NoMatch
  <2> QED
    BY <2>2, <2>3
<1>4. ASSUME NEW s \in Metadata, Goto(s) PROVE IInv'
  <2>1. s \in Searching \ {"enter"}
    BY DEF Searching, Metadata
  <2> QED
    BY <1>1, <1>4, <2>1, GotoInv
<1>5. CASE IMDSToken
  <2>1. NoMatch("") \/ Fail("external") \/ Goto("imdsRole")
    BY <1>5 DEF IMDSToken
  <2>2. "imdsRole" \in Metadata
    BY DEF Metadata
  <2> QED
    BY <1>2, <1>3, <1>4, <2>1, <2>2
<1>6. CASE IMDSRole
  <2>1. CASE Fail("norole")
    <3>1. "norole" \in Errors \ (Refusals \cup {"none"})
      BY DEF Errors, Refusals
    <3> QED
      BY <2>1, <3>1, FailInv
  <2>2. "imdsCreds" \in Metadata
    BY DEF Metadata
  <2> QED
    BY <1>2, <1>4, <1>6, <2>1, <2>2 DEF IMDSRole
<1>7. CASE IMDSCreds
  BY <1>1, <1>7, FetchSourceInv DEF IMDSCreds
<1> QED
  BY <1>5, <1>6, <1>7

\* A profile met twice, and a role without a source, are errors.
LEMMA CycleInv == IInv /\ (Cycle \/ BadRole) => IInv'
<1> SUFFICES ASSUME IInv, Cycle \/ BadRole PROVE IInv'
  OBVIOUS
<1>1. step \in Searching /\ {"cycle", "badrole"} \subseteq Errors
  BY DEF Cycle, BadRole, Entered, Searching, Errors
<1>2. Fail("cycle") \/ Fail("badrole")
  BY DEF Cycle, BadRole
<1> QED
  BY <1>1, <1>2, FailInv

\* The descent from a role to its source_profile.
LEMMA EnterSourceInv == IInv /\ EnterSource => IInv'
<1> SUFFICES ASSUME IInv, EnterSource PROVE IInv'
  OBVIOUS
<1>1. /\ step = "enter" /\ step \in Searching /\ stack # <<>> /\ top \notin visited
      /\ RoleArn(top) /\ SourceProfile(top) # NoProfile
      /\ Typed /\ First = "profile"
  BY DEF EnterSource, Entered, Searching, IInv, FlowInv, OrderInv
<1>2. PICK x \in Profiles : x = SourceProfile(top)
  BY <1>1, TopTyped, SectionTyped
<1>3. /\ step' = "enter" /\ stack' = <<x>> \o stack /\ visited' = visited \cup {top}
      /\ UNCHANGED <<config, value, err>> /\ Untouched
  BY <1>2 DEF EnterSource, Visit
<1> QED
  BY <1>1, <1>2, <1>3, EnterInv

\* The turn from a role to its credential_source.
LEMMA EnterCredentialSourceInv == IInv /\ EnterCredentialSource => IInv'
<1> SUFFICES ASSUME IInv, EnterCredentialSource PROVE IInv'
  OBVIOUS
<1>1. /\ step = "enter" /\ step \in Searching /\ stack # <<>> /\ top \notin visited
      /\ RoleArn(top) /\ SourceProfile(top) = NoProfile
      /\ CredentialSource(top) # "" /\ Typed
  BY DEF EnterCredentialSource, Entered, Searching, IInv, FlowInv
<1>2. CASE CredentialSource(top) = "Bogus"
  <2>1. Fail("badsource") /\ "badsource" \in Errors
    BY <1>2 DEF EnterCredentialSource, Errors
  <2> QED
    BY <1>1, <2>1, FailInv
<1>3. CASE CredentialSource(top) # "Bogus"
  <2>1. CredentialSource(top) \in {"Environment", "Ec2InstanceMetadata", "EcsContainer"}
    BY <1>1, <1>3, TopTyped, SectionTyped
  <2>2. PICK s \in {"env", "ecs", "imds"} : s = SourceOf(CredentialSource(top))
    BY <2>1 DEF SourceOf
  <2>3. /\ step' = s /\ visited' = visited \cup {top}
        /\ UNCHANGED <<config, stack, value, err>> /\ Untouched
    BY <1>3, <2>1, <2>2 DEF EnterCredentialSource, Visit, SourceOf
  <2>4. Brings(top, s)
    BY <1>1, <2>2 DEF Brings
  <2> QED
    BY <1>1, <2>3, <2>4, CredentialSourceInv
<1> QED
  BY <1>2, <1>3

\* The end of the descent: keys or a process of the profile itself.
LEMMA OwnCredentialsInv == IInv /\ OwnCredentials => IInv'
<1> SUFFICES ASSUME IInv, OwnCredentials PROVE IInv'
  OBVIOUS
<1> DEFINE c == Cred(top)
           f == Conf(top)
           rest == Tail(stack)
<1>1. /\ step = "enter" /\ step \in Searching /\ stack # <<>> /\ ~RoleArn(top) /\ Typed
  BY DEF OwnCredentials, Entered, Searching, IInv, FlowInv
<1>2. /\ "half" \in Errors /\ "empty" \in Errors
      /\ "external" \in Errors \ (Refusals \cup {"none"})
  BY DEF Errors, Refusals
<1>3. /\ c.keys \in {"none", "full", "half"} /\ f.keys \in {"none", "full", "half"}
      /\ c = files["cred"][top] /\ f = files["conf"][top]
  <2>1. c \in Section /\ f \in Section
    BY <1>1, TopTyped, SectionTyped
  <2> QED
    BY <2>1 DEF Section, Cred, Conf
<1>4. ASSUME Fail("half") \/ Fail("empty") \/ Fail("external")
      PROVE  IInv'
  BY <1>1, <1>2, <1>4, FailInv
<1>5. ASSUME NEW g \in {"cred", "conf"}, Fetch(FromProfile("process", g, top), rest),
             c.keys = "none", f.keys = "none", files[g][top].process,
             g = "cred" => ~f.process
      PROVE  IInv'
  <2>1. CASE Got(FromProfile("process", g, top), rest) /\ Untouched
    BY <1>1, <1>5, <2>1, OwnGot
  <2> QED
    BY <1>4, <1>5, <2>1 DEF Fetch
<1>6. ASSUME NEW g \in {"cred", "conf"}, Got(FromProfile("keys", g, top), rest), Untouched,
             files[g][top].keys = "full", g = "conf" => c.keys = "none"
      PROVE  IInv'
  BY <1>1, <1>6, OwnGot
<1>7. \/ Fail("half") \/ Fail("empty")
      \/ /\ c.keys = "full"
         /\ Got(FromProfile("keys", "cred", top), rest) /\ Untouched
      \/ /\ c.keys = "none" /\ f.keys = "full"
         /\ Got(FromProfile("keys", "conf", top), rest) /\ Untouched
      \/ /\ c.keys = "none" /\ f.keys = "none" /\ f.process
         /\ Fetch(FromProfile("process", "conf", top), rest)
      \/ /\ c.keys = "none" /\ f.keys = "none" /\ ~f.process /\ c.process
         /\ Fetch(FromProfile("process", "cred", top), rest)
  BY <1>3 DEF OwnCredentials
<1> QED
  BY <1>3, <1>4, <1>5, <1>6, <1>7

\* The MFA prompt, or none where no device is configured.
LEMMA PromptInv == IInv /\ (NoPrompt \/ Prompt) => IInv'
<1> SUFFICES ASSUME IInv, NoPrompt \/ Prompt PROVE IInv'
  OBVIOUS
<1>1. /\ step = "assume" /\ stdin \in 0..StdinLines /\ prompts \in Nat
      /\ StdinLines \in Nat
  BY Constants DEF NoPrompt, Prompt, IInv, Typed
<1>2. CASE NoPrompt
  <2>1. /\ step' = "sts" /\ ~MfaSerial(top) /\ prompts' = prompts /\ stdin' = stdin
        /\ UNCHANGED <<config, stack, visited, value, err, calls>>
    BY <1>2 DEF NoPrompt, Goto
  <2>2. prompts' = prompts + (IF MfaSerial(top) THEN 1 ELSE 0)
    BY <1>1, <2>1
  <2> QED
    BY <1>1, <2>1, <2>2, AskedInv
<1>3. CASE Prompt
  <2>1. CASE Fail("mfa")
    <3>1. "mfa" \in Errors \ (Refusals \cup {"none"})
      BY DEF Errors, Refusals
    <3> QED
      BY <2>1, <3>1, FailInv
  <2>2. CASE ~Fail("mfa")
    <3>1. /\ step' = "sts" /\ MfaSerial(top) /\ prompts' = prompts + 1
          /\ UNCHANGED <<config, stack, visited, value, err, calls>>
          /\ stdin' = stdin \/ \E n \in 1..stdin : stdin' = stdin - n
      BY <1>3, <2>2 DEF Prompt
    <3>2. stdin' \in 0..StdinLines
      BY <1>1, <3>1
    <3>3. prompts' = prompts + (IF MfaSerial(top) THEN 1 ELSE 0)
      BY <3>1
    <3> QED
      BY <1>1, <3>1, <3>2, <3>3, AskedInv
  <2> QED
    BY <2>1, <2>2
<1> QED
  BY <1>2, <1>3

\* STS answers for the profile on top, or refuses.
LEMMA AssumeRoleInv == IInv /\ AssumeRole => IInv'
<1> SUFFICES ASSUME IInv, AssumeRole PROVE IInv'
  OBVIOUS
<1>1. /\ step = "sts" /\ stack # <<>> /\ Typed /\ calls \in Seq(Profiles)
  BY DEF AssumeRole, IInv, FlowInv, Unwinding, Typed
<1>2. {"duration", "external"} \subseteq Errors \ (Refusals \cup {"none"})
  BY DEF Errors, Refusals
<1>3. CASE Duration(top) = "junk"
  BY <1>2, <1>3, FailInv DEF AssumeRole
<1>4. CASE /\ calls' = Append(calls, top)
           /\ Got([value EXCEPT !.roles = Append(@, top)], Tail(stack))
           /\ UNCHANGED <<stdin, prompts>>
  BY <1>1, <1>4, AssumeGot
<1>5. CASE /\ calls' = Append(calls, top)
           /\ step' = "done" /\ stack' = <<>>
           /\ value' = Nothing /\ err' = "external"
           /\ UNCHANGED <<config, visited, stdin, prompts>>
  <2>1. calls' \in Seq(Profiles)
    <3>1. \A r \in Seq(Profiles) : \A x \in Profiles : Append(r, x) \in Seq(Profiles)
      OBVIOUS
    <3> QED
      BY <1>1, <1>5, <3>1, TopTyped
  <2> QED
    BY <1>2, <1>5, <2>1, AbortInv
<1> QED
  BY <1>3, <1>4, <1>5 DEF AssumeRole

\* A step of nobody.
LEMMA StutterInv == IInv /\ UNCHANGED vars => IInv'
<1> SUFFICES ASSUME IInv, UNCHANGED vars PROVE IInv'
  OBVIOUS
<1>1. UNCHANGED <<files, env, step, stack, visited, value, err, stdin, prompts, calls>>
  BY DEF vars, config
<1>2. IInv
  OBVIOUS
<1>3. Typed' /\ FlowInv' /\ QuietInv' /\ DepthInv'
  BY <1>1, <1>2 DEF IInv, Typed, FlowInv, QuietInv, DepthInv
<1>4. OrderInv' /\ NoFallThrough' /\ NothingConfigured' /\ ShapeRefused'
  BY <1>1, <1>2 DEF IInv, OrderInv, NoFallThrough, NothingConfigured,
     ShapeRefused, First, Cred, Conf, Obtained, ThroughProfile
<1>5. LineInv'
  BY <1>1, <1>2 DEF IInv, LineInv, Line, RoleArn, SourceProfile, Cred, Conf
<1>6. SourceInv'
  BY <1>1, <1>2 DEF IInv, SourceInv, Line, Brings, OwnSource, top, RoleArn,
     SourceProfile, CredentialSource, Cred, Conf
<1>7. CountInv'
  BY <1>1, <1>2 DEF IInv, CountInv, Prompted, Obtained, top, MfaSerial, Cred, Conf
<1> QED
  BY <1>3, <1>4, <1>5, <1>6, <1>7 DEF IInv

-----------------------------------------------------------------------------
(* The theorems. *)

\* What every state that resolve reaches satisfies.
THEOREM Invariance == Spec => []IInv
<1>1. IInv /\ [Next]_vars => IInv'
  <2> SUFFICES ASSUME IInv, [Next]_vars PROVE IInv'
    OBVIOUS
  <2>1. CASE EnvProvider \/ WebIdentityProvider \/ ECSProvider
    BY <2>1, EnvProviderInv, WebIdentityProviderInv, ECSProviderInv
  <2>2. CASE SharedProfileProvider
    BY <2>2, SharedProfileProviderInv
  <2>3. CASE IMDSToken \/ IMDSRole \/ IMDSCreds
    BY <2>3, IMDSInv
  <2>4. CASE Cycle \/ BadRole
    BY <2>4, CycleInv
  <2>5. CASE EnterSource
    BY <2>5, EnterSourceInv
  <2>6. CASE EnterCredentialSource
    BY <2>6, EnterCredentialSourceInv
  <2>7. CASE OwnCredentials
    BY <2>7, OwnCredentialsInv
  <2>8. CASE NoPrompt \/ Prompt
    BY <2>8, PromptInv
  <2>9. CASE AssumeRole
    BY <2>9, AssumeRoleInv
  <2>10. CASE UNCHANGED vars
    BY <2>10, StutterInv
  <2> QED
    BY <2>1, <2>2, <2>3, <2>4, <2>5, <2>6, <2>7, <2>8, <2>9, <2>10
    DEF Next, ResolveProfile
<1> QED
  BY InitInv, <1>1, PTL DEF Spec

\* Credentials come from the first source that is configured, or there are none:
\* when that source fails, no other is tried.
THEOREM NothingPassedOver == Spec => []NoFallThrough
<1>1. IInv => NoFallThrough
  BY DEF IInv
<1> QED
  BY Invariance, <1>1, PTL

-----------------------------------------------------------------------------
(* The metadata service and durations. *)

\* The service has not been asked before its first step, and what it answered is
\* never taken for nothing found.
MetaInv ==
  /\ answered \in BOOLEAN
  /\ step \in Searching \ {"imdsRole", "imdsCreds"} => ~answered
  /\ err = "none" => ~answered

\* A profile whose duration_seconds makes no number is found when its own role is
\* to be assumed.
FoundLate(x) ==
  /\ RoleArn(x) /\ Duration(x) = "junk"
  /\ prompts = Prompted + (IF MfaSerial(x) THEN 1 ELSE 0)
  /\ calls # <<>> => SourceProfile(x) = Last(calls)

DurationInv ==
  /\ \A i \in DOMAIN calls : Duration(calls[i]) # "junk"
  /\ err = "duration" => \E x \in Profiles : FoundLate(x)

\* Only AssumeRole sends calls and looks at durations.
LEMMA OthersKeepCalls ==
  ASSUME Next, ~AssumeRole
  PROVE  UNCHANGED <<files, calls>> /\ err' \in {err} \cup (Errors \ {"duration"})
<1>1. \A e \in Errors \ {"duration"} :
        Fail(e) => UNCHANGED <<files, calls>> /\ err' \in Errors \ {"duration"}
  BY DEF Fail, config
<1>2. \A s : Goto(s) => UNCHANGED <<files, calls>> /\ err' = err
  BY DEF Goto, config
<1>3. \A v, r : Got(v, r) /\ Untouched => UNCHANGED <<files, calls>> /\ err' = err
  BY DEF Got, Untouched, config
<1>4. {"none", "half", "external", "files", "source", "norole", "cycle", "badrole",
       "badsource", "empty", "mfa"} \subseteq Errors \ {"duration"}
  BY DEF Errors
<1>5. \A v, r : Fetch(v, r) =>
        UNCHANGED <<files, calls>> /\ err' \in {err} \cup (Errors \ {"duration"})
  BY <1>1, <1>3, <1>4 DEF Fetch
<1>6. \A n : NoMatch(n) =>
        UNCHANGED <<files, calls>> /\ err' \in {err} \cup (Errors \ {"duration"})
  BY <1>1, <1>2, <1>4 DEF NoMatch
<1>7. CASE \/ EnvProvider \/ WebIdentityProvider \/ ECSProvider \/ SharedProfileProvider
  BY <1>1, <1>3, <1>4, <1>5, <1>6, <1>7 DEF EnvProvider, WebIdentityProvider,
     ECSProvider, SharedProfileProvider, Untouched, config
<1>8. CASE IMDSToken \/ IMDSRole \/ IMDSCreds
  BY <1>1, <1>2, <1>4, <1>5, <1>6, <1>8 DEF IMDSToken, IMDSRole, IMDSCreds
<1>9. CASE Cycle \/ BadRole \/ NoPrompt \/ Prompt
  BY <1>1, <1>2, <1>4, <1>9 DEF Cycle, BadRole, NoPrompt, Prompt, config
<1>10. CASE EnterSource \/ EnterCredentialSource
  BY <1>1, <1>4, <1>10 DEF EnterSource, EnterCredentialSource, Untouched, config
<1>11. CASE OwnCredentials
  BY <1>1, <1>3, <1>4, <1>5, <1>11 DEF OwnCredentials
<1> QED
  BY <1>7, <1>8, <1>9, <1>10, <1>11 DEF Next, ResolveProfile

\* What the service answers is an error of its own, or credentials.
LEMMA MetaKept ==
  ASSUME FlowInv, MetaInv, [Next]_vars
  PROVE  MetaInv'
<1>1. CASE UNCHANGED vars
  BY <1>1 DEF vars, MetaInv
<1>2. CASE IMDSToken
  <2>1. step = "imds" /\ ~answered
    BY <1>2 DEF IMDSToken, MetaInv, Searching
  <2>2. CASE NoMatch("") /\ UNCHANGED answered
    BY <2>1, <2>2 DEF MetaInv
  <2>3. CASE (Fail("external") \/ Goto("imdsRole")) /\ answered' = TRUE
    <3>1. err = ""
      BY <2>1 DEF FlowInv
    <3>2. err' # "none" /\ step' \in {"done", "imdsRole"}
      BY <2>3, <3>1 DEF Fail, Goto
    <3> QED
      BY <2>3, <3>2 DEF MetaInv, Searching
  <2> QED
    BY <1>2, <2>2, <2>3 DEF IMDSToken
<1>3. CASE Next /\ ~IMDSToken
  <2>1. UNCHANGED answered
    BY <1>3 DEF Next
  <2>2. CASE ~answered
    BY <2>1, <2>2 DEF MetaInv
  <2>3. CASE answered
    <3>1. step \notin Searching \ {"imdsRole", "imdsCreds"} /\ err # "none"
      BY <2>3 DEF MetaInv
    <3>2. \A w, r : Got(w, r) => step' \in {"done", "assume"} /\ err' = err
      BY DEF Got
    <3>3. \A w, r : Fetch(w, r) => step' \in {"done", "assume"} /\ err' # "none"
      BY <3>1, <3>2 DEF Fetch, Fail
    <3>4. step' \in {"imdsCreds", "sts", "assume", "done"} /\ err' # "none"
      <4>1. CASE IMDSRole \/ IMDSCreds
        BY <3>1, <3>3, <4>1 DEF IMDSRole, IMDSCreds, Fail, Goto
      <4>2. CASE NoPrompt \/ Prompt
        BY <3>1, <4>2 DEF NoPrompt, Prompt, Fail, Goto
      <4>3. CASE AssumeRole
        BY <3>1, <3>2, <4>3 DEF AssumeRole, Fail
      <4> QED
        BY <1>3, <3>1, <4>1, <4>2, <4>3 DEF Next, ResolveProfile, Searching,
           EnvProvider, WebIdentityProvider, ECSProvider, SharedProfileProvider,
           Cycle, BadRole, EnterSource, EnterCredentialSource, OwnCredentials, Entered
    <3> QED
      BY <2>1, <3>4 DEF MetaInv, Searching
  <2> QED
    BY <2>2, <2>3 DEF MetaInv
<1> QED
  BY <1>1, <1>2, <1>3

\* The profile whose role is assumed next has one, and the credentials in hand
\* are those of its source_profile, where it names one.
LEMMA TopOfLine ==
  ASSUME IInv, step = "sts"
  PROVE  /\ top \in Profiles /\ RoleArn(top)
         /\ value.roles # <<>> => SourceProfile(top) = Last(value.roles)
<1> DEFINE own == IF value.owner = NoProfile THEN <<>> ELSE <<value.owner>>
           k == Len(own) + Len(value.roles)
<1>1. Typed /\ LineInv /\ SourceInv /\ stack # <<>> /\ step \notin Searching
  BY DEF IInv, FlowInv, Unwinding, Searching
<1>2. value.roles \in Seq(Profiles) /\ value.owner \in Profiles \cup {NoProfile}
  BY <1>1 DEF Typed, ValueType
<1>3. top \in Profiles /\ top = stack[1] /\ stack \in Seq(Profiles) /\ Len(stack) > 0
  BY <1>1, TopTyped DEF Typed
<1>4. own \in Seq(Profiles) /\ (value.owner = NoProfile <=> own = <<>>)
  <2>1. CASE value.owner = NoProfile
    BY <2>1
  <2>2. CASE value.owner # NoProfile
    BY <1>2, <2>2
  <2> QED
    BY <2>1, <2>2
<1>5. Line = (own \o value.roles) \o stack
  BY DEF Line
<1> HIDE DEF own
<1>6. /\ Len(Line) = k + Len(stack) /\ k \in Nat /\ Len(stack) \in Nat
      /\ Line[k + 1] = top
      /\ value.roles # <<>> => Line[k] = Last(value.roles) /\ k > 0
      /\ k = 0 => own = <<>> /\ value.roles = <<>>
  BY <1>2, <1>3, <1>4, <1>5 DEF Last
<1> HIDE DEF k
<1>7. CASE k > 0
  <2>1. k \in 1..(Len(Line) - 1)
    BY <1>3, <1>6, <1>7
  <2>2. RoleArn(top) /\ SourceProfile(top) = Line[k]
    BY <1>1, <1>6, <2>1 DEF LineInv
  <2> QED
    BY <1>3, <1>6, <2>2
<1>8. CASE k = 0
  <2>1. Line # <<>> /\ value.owner = NoProfile /\ Line[1] = top
    BY <1>3, <1>4, <1>6, <1>8
  <2>2. Brings(top, value.base)
    BY <1>1, <2>1 DEF SourceInv
  <2> QED
    BY <1>3, <1>6, <1>8, <2>2 DEF Brings
<1> QED
  BY <1>6, <1>7, <1>8

\* Durations, prompts and sources depend on the files, the calls and the prompts.
LEMMA SameDuration ==
  UNCHANGED files => \A x : /\ Duration(x)' = Duration(x) /\ RoleArn(x)' = RoleArn(x)
                            /\ MfaSerial(x)' = MfaSerial(x)
                            /\ SourceProfile(x)' = SourceProfile(x)
BY DEF Duration, RoleArn, MfaSerial, SourceProfile, Cred, Conf

\* A call is sent for durations that are numbers, and the first that is not ends
\* resolve.
LEMMA DurationKept ==
  ASSUME IInv, DurationInv, [Next]_vars
  PROVE  DurationInv'
<1>1. CASE UNCHANGED vars
  <2>1. UNCHANGED <<files, calls, prompts, err>>
    BY <1>1 DEF vars, config
  <2> QED
    BY <2>1, SameDuration, SamePrompted DEF DurationInv, FoundLate
<1>2. CASE Next /\ ~AssumeRole
  <2>1. step # "done"
    BY <1>2 DEF Next, EnvProvider, WebIdentityProvider, ECSProvider,
       SharedProfileProvider, IMDSToken, IMDSRole, IMDSCreds, ResolveProfile, Cycle,
       BadRole, EnterSource, EnterCredentialSource, OwnCredentials, Entered, NoPrompt,
       Prompt
  <2>2. err = ""
    BY <2>1 DEF IInv, FlowInv
  <2>3. UNCHANGED <<files, calls>> /\ err' # "duration"
    BY <1>2, <2>2, OthersKeepCalls
  <2> QED
    BY <2>3, SameDuration DEF DurationInv
<1>3. CASE AssumeRole
  <2>1. /\ step = "sts" /\ err = "" /\ Typed /\ calls \in Seq(Profiles)
        /\ calls = value.roles
        /\ prompts = Prompted + (IF MfaSerial(top) THEN 1 ELSE 0)
    BY <1>3 DEF AssumeRole, IInv, FlowInv, Typed, CountInv, Unwinding
  <2>2. /\ top \in Profiles /\ RoleArn(top)
        /\ calls # <<>> => SourceProfile(top) = Last(calls)
    BY <2>1, TopOfLine
  <2>3. CASE Duration(top) = "junk"
    <3>1. UNCHANGED <<files, calls, prompts>> /\ err' = "duration"
      BY <1>3, <2>3 DEF AssumeRole, Fail, config
    <3>2. PICK t \in Profiles : t = top
      BY <2>2
    <3>3. FoundLate(t)
      BY <2>1, <2>2, <2>3, <3>2 DEF FoundLate
    <3>4. FoundLate(t)'
      BY <3>1, <3>3, SameDuration, SamePrompted DEF FoundLate
    <3> QED
      BY <3>1, <3>4, SameDuration DEF DurationInv
  <2>4. CASE Duration(top) # "junk"
    <3>1. UNCHANGED files /\ calls' = Append(calls, top) /\ err' # "duration"
      BY <1>3, <2>1, <2>4 DEF AssumeRole, Got, config
    <3>2. PICK t \in Profiles : t = top
      BY <2>2
    <3>3. \A i \in DOMAIN calls' : (i \in DOMAIN calls /\ calls'[i] = calls[i])
                                      \/ calls'[i] = t
      <4>1. \A c \in Seq(Profiles), y \in Profiles : \A i \in DOMAIN Append(c, y) :
              (i \in DOMAIN c /\ Append(c, y)[i] = c[i]) \/ Append(c, y)[i] = y
        OBVIOUS
      <4> QED
        BY <2>1, <3>1, <3>2, <4>1
    <3>4. \A i \in DOMAIN calls' : Duration(calls'[i]) # "junk"
      BY <2>4, <3>2, <3>3 DEF DurationInv
    <3> QED
      BY <3>1, <3>4, SameDuration DEF DurationInv
  <2> QED
    BY <2>3, <2>4
<1> QED
  BY <1>1, <1>2, <1>3

\* Both hold throughout.
THEOREM LateInvariance == Spec => [](MetaInv /\ DurationInv)
<1>1. Init => MetaInv /\ DurationInv
  <2>1. DOMAIN <<>> = {}
    OBVIOUS
  <2> QED
    BY <2>1 DEF Init, MetaInv, DurationInv
<1>2. IInv /\ MetaInv /\ DurationInv /\ [Next]_vars => (MetaInv /\ DurationInv)'
  BY MetaKept, DurationKept DEF IInv
<1> QED
  BY Invariance, <1>1, <1>2, PTL DEF Spec

\* The variables have their types, and the recursion of resolveProfile is never
\* deeper than one more than there are profiles, cycles or not.
THEOREM TypeCorrect == Spec => []TypeOK
<1>1. IInv /\ MetaInv => TypeOK
  <2> SUFFICES ASSUME IInv, MetaInv PROVE TypeOK
    OBVIOUS
  <2>1. Typed /\ DepthInv
    BY DEF IInv
  <2>2. /\ Cardinality(visited) \in Nat /\ Cardinality(Profiles) \in Nat
        /\ Cardinality(visited) <= Cardinality(Profiles)
    BY <2>1, VisitedFinite
  <2>3. Len(stack) \in Nat
    <3>1. stack \in Seq(Profiles)
      BY <2>1 DEF Typed
    <3> QED
      BY <3>1
  <2>4. Len(stack) <= Cardinality(Profiles) + 1
    BY <2>1, <2>2, <2>3 DEF DepthInv
  <2>5. value.roles \in Seq(Profiles) /\ value.owner \in Profiles \cup {NoProfile}
    BY <2>1 DEF Typed, ValueType
  <2> QED
    BY <2>1, <2>4, <2>5 DEF Typed, MetaInv, TypeOK
<1> QED
  BY Invariance, LateInvariance, <1>1, PTL

\* "No credentials found" is said only when nothing is configured and the
\* metadata service is disabled or has given no answer: one that answers, with an
\* error or without a role, ends resolve with an error of its own.
THEOREM NoneOnlyWhenNothing == Spec => []NoneOnlyIfNothing
<1>1. IInv /\ MetaInv => NoneOnlyIfNothing
  BY DEF IInv, NothingConfigured, MetaInv, NoneOnlyIfNothing
<1> QED
  BY Invariance, LateInvariance, <1>1, PTL

\* A chain of profiles that cannot work is refused before anybody is asked for a
\* token and before STS is called, but for a bad duration_seconds: that is found
\* after the roles of the profiles it is assumed from, and the prompt for its own
\* token, and before its own call.
THEOREM RefusedFirst == Spec => []RefusedBeforeAsking
<1>1. IInv /\ DurationInv => RefusedBeforeAsking
  BY DEF IInv, ShapeRefused, DurationInv, FoundLate, RefusedBeforeAsking
<1> QED
  BY Invariance, LateInvariance, <1>1, PTL

\* Reading a line of profiles from its end.
LEMMA Backwards ==
  ASSUME NEW r \in Seq(Profiles), NEW o \in Seq(Profiles), Len(o) <= 1
  PROVE  /\ o \o r \in Seq(Profiles) /\ Len(Reverse(r) \o o) = Len(o \o r)
         /\ \A i \in 1..Len(o \o r) :
              (Reverse(r) \o o)[i] = (o \o r)[Len(o \o r) + 1 - i]
<1> DEFINE b == Reverse(r)
<1>1. /\ Len(r) \in Nat /\ Len(o) \in {0, 1} /\ o \o r \in Seq(Profiles)
      /\ Len(o \o r) = Len(o) + Len(r)
  <2>1. o \o r \in Seq(Profiles) /\ Len(o \o r) = Len(o) + Len(r)
    OBVIOUS
  <2>2. Len(r) \in Nat /\ Len(o) \in Nat
    OBVIOUS
  <2>3. \A k \in Nat : k <= 1 => k \in {0, 1}
    OBVIOUS
  <2>4. Len(o) \in {0, 1}
    BY <2>2, <2>3
  <2> QED
    BY <2>1, <2>2, <2>4
<1>2. b \in Seq(Profiles) /\ Len(b) = Len(r)
      /\ \A i \in 1..Len(r) : b[i] = r[(Len(r) - i) + 1]
  BY <1>1 DEF Reverse
<1> HIDE DEF b
<1>3. Len(b \o o) = Len(o \o r)
  BY <1>1, <1>2
<1>4. ASSUME NEW i \in 1..Len(o \o r)
      PROVE  (b \o o)[i] = (o \o r)[Len(o \o r) + 1 - i]
  <2>1. CASE i <= Len(r)
    <3>1. (b \o o)[i] = r[(Len(r) - i) + 1]
      BY <1>1, <1>2, <2>1
    <3>2. (o \o r)[Len(o) + ((Len(r) - i) + 1)] = r[(Len(r) - i) + 1]
      BY <1>1, <2>1
    <3>3. Len(o \o r) + 1 - i = Len(o) + ((Len(r) - i) + 1)
      BY <1>1
    <3> QED
      BY <3>1, <3>2, <3>3
  <2>2. CASE i > Len(r)
    <3>1. Len(o) = 1 /\ i = Len(r) + 1
      BY <1>1, <2>2
    <3>2. (b \o o)[i] = o[1]
      BY <1>1, <1>2, <3>1
    <3>3. (o \o r)[1] = o[1]
      BY <1>1, <3>1
    <3>4. Len(o \o r) + 1 - i = 1
      BY <1>1, <3>1
    <3> QED
      BY <3>2, <3>3, <3>4
  <2>3. i \in Nat /\ Len(r) \in Nat
    BY <1>1
  <2>4. i <= Len(r) \/ i > Len(r)
    BY <2>3
  <2> QED
    BY <2>1, <2>2, <2>4
<1> QED
  BY <1>1, <1>3, <1>4 DEF b

\* What comes out of the shared files is what they say: the roles from the
\* credentials to the active profile, each assumed once, with the prompts that
\* their mfa_serial asks for.
THEOREM AsConfigured == Spec => []ChainAsConfigured
<1>1. IInv => ChainAsConfigured
  <2> SUFFICES ASSUME IInv, Obtained, ThroughProfile
               PROVE  ChainAsConfigured
    BY DEF ChainAsConfigured
  <2> DEFINE own == IF value.owner = NoProfile THEN <<>> ELSE <<value.owner>>
             n == Len(Line)
  <2>1. /\ Typed /\ LineInv /\ SourceInv /\ CountInv /\ stack = <<>>
        /\ step \notin Searching
    BY DEF IInv, FlowInv, Obtained, Searching
  <2>2. value.roles \in Seq(Profiles) /\ value.owner \in Profiles \cup {NoProfile}
    BY <2>1 DEF Typed, ValueType
  <2>3. /\ own \in Seq(Profiles) /\ Len(own) <= 1
        /\ value.owner # NoProfile => own[1] = value.owner /\ Len(own) = 1
        /\ value.owner = NoProfile => Len(own) = 0
    <3>1. CASE value.owner = NoProfile
      BY <3>1
    <3>2. CASE value.owner # NoProfile
      BY <2>2, <3>2
    <3> QED
      BY <3>1, <3>2
  <2>4. Line = own \o value.roles \o stack /\ Path = Reverse(value.roles) \o own
    BY DEF Line, Path
  <2> HIDE DEF own
  <2>5. Line = own \o value.roles
    <3>1. \A s \in Seq(Profiles) : s \o <<>> = s
      OBVIOUS
    <3>2. own \o value.roles \in Seq(Profiles)
      BY <2>2, <2>3
    <3> QED
      BY <2>1, <2>4, <3>1, <3>2
  <2>6. /\ Line \in Seq(Profiles) /\ Len(Path) = n
        /\ \A i \in 1..n : Path[i] = Line[n + 1 - i]
    BY SMTT(30), <2>2, <2>3, <2>4, <2>5, Backwards
  <2>7. n \in Nat /\ n > 0 /\ Line # <<>>
    <3>1. n = Len(own) + Len(value.roles)
      BY <2>2, <2>3, <2>5
    <3>2. value.roles # <<>> => Len(value.roles) > 0
      BY <2>2
    <3>3. Len(own) \in Nat /\ Len(value.roles) \in Nat
      BY <2>2, <2>3
    <3>4. n \in Nat /\ n > 0
      BY <2>3, <3>1, <3>2, <3>3 DEF ThroughProfile
    <3> QED
      BY <3>4
  <2> HIDE DEF n
  <2>8. Path[1] = Line[n] /\ Path[n] = Line[1]
    BY <2>6, <2>7
  <2>9. /\ Line[n] = Active
        /\ \A i \in 1..(n - 1) :
             RoleArn(Line[i + 1]) /\ SourceProfile(Line[i + 1]) = Line[i]
    BY <2>1, <2>7 DEF LineInv, n
  <2>10. ASSUME NEW i \in 1..(Len(Path) - 1)
         PROVE  RoleArn(Path[i]) /\ SourceProfile(Path[i]) = Path[i + 1]
    <3> DEFINE j == n - i
    <3>1. j \in 1..(n - 1) /\ n + 1 - i = j + 1 /\ n + 1 - (i + 1) = j
      BY <2>6, <2>7
    <3>2. i \in 1..n /\ i + 1 \in 1..n
      BY <2>6, <2>7
    <3>3. Path[i] = Line[j + 1] /\ Path[i + 1] = Line[j]
      BY <2>6, <3>1, <3>2
    <3> HIDE DEF j
    <3> QED
      BY <2>9, <3>1, <3>3
  <2>11. Last(Path) = Line[1]
    BY <2>6, <2>8 DEF Last
  <2>12. CASE value.owner = NoProfile
    <3>1. Brings(Line[1], value.base)
      BY <2>1, <2>7, <2>12 DEF SourceInv
    <3> QED
      BY <2>1, <2>8, <2>9, <2>10, <2>11, <2>12, <3>1
      DEF Brings, CountInv, Prompted, ChainAsConfigured
  <2>13. CASE value.owner # NoProfile
    <3>1. Line[1] = value.owner
      <4>1. (own \o value.roles)[1] = own[1]
        BY <2>2, <2>3, <2>13
      <4> QED
        BY <2>3, <2>5, <2>13, <4>1
    <3>2. OwnSource(Line[1])
      BY <2>1, <2>13, <3>1 DEF SourceInv
    <3> QED
      BY <2>1, <2>8, <2>9, <2>10, <2>11, <2>13, <3>2
      DEF CountInv, Prompted, ChainAsConfigured
  <2> QED
    BY <2>12, <2>13
<1> QED
  BY Invariance, <1>1, PTL

-----------------------------------------------------------------------------
(* How long resolve takes. *)

Rank == [env |-> 7, irsa |-> 6, ecs |-> 5, profile |-> 4, imds |-> 3,
         imdsRole |-> 2, imdsCreds |-> 1]
Providers == {"env", "irsa", "ecs", "profile", "imds", "imdsRole", "imdsCreds"}

\* A bound of the steps that remain: two for each profile that waits, and before
\* that the providers of a credential_source, the profiles not visited yet, and
\* the providers that are tried first.
StepsLeft ==
  LET n == Cardinality(Profiles)
  IN CASE step = "done" -> 0
       [] step = "sts" -> 2 * Len(stack) - 1
       [] step = "assume" -> 2 * Len(stack)
       [] step = "enter" -> 3 * n + 7 - Cardinality(visited)
       [] OTHER -> Rank[step] + (IF stack = <<>> THEN 3 * n + 4 ELSE 2 * n)

\* The ranks are those of the order in which the providers are tried.
LEMMA Ranked ==
  /\ \A s \in Providers : Rank[s] \in 1..7
  /\ Rank["env"] = 7 /\ Rank["irsa"] = 6 /\ Rank["ecs"] = 5 /\ Rank["profile"] = 4
  /\ Rank["imds"] = 3 /\ Rank["imdsRole"] = 2 /\ Rank["imdsCreds"] = 1
BY DEF Rank, Providers

\* The numbers that the bound is made of.
Numbers ==
  /\ Cardinality(Profiles) \in Nat /\ Cardinality(visited) \in Nat
  /\ Cardinality(visited) <= Cardinality(Profiles) /\ Len(stack) \in Nat
  /\ step # "enter" => Len(stack) <= Cardinality(visited)
  /\ step \in Unwinding => Len(stack) > 0
  /\ step \in Providers \cup {"enter", "assume", "sts", "done"}

\* They are numbers, and the stack is no deeper than profiles were visited.
LEMMA Counted == IInv => Numbers
<1> SUFFICES ASSUME IInv PROVE Numbers
  OBVIOUS
<1>1. Typed /\ FlowInv /\ DepthInv
  BY DEF IInv
<1>2. Len(stack) \in Nat /\ (stack # <<>> => Len(stack) > 0)
  BY <1>1, TopTyped DEF Typed
<1> QED
  BY <1>1, <1>2, VisitedFinite DEF Numbers, FlowInv, DepthInv, Typed, Steps, Providers

\* No more than three steps for each profile and eleven.
LEMMA StepsBounded ==
  Numbers => /\ StepsLeft \in 0..(3 * Cardinality(Profiles) + 11)
             /\ step # "done" => StepsLeft > 0
<1> SUFFICES ASSUME Numbers
             PROVE  /\ StepsLeft \in 0..(3 * Cardinality(Profiles) + 11)
                    /\ step # "done" => StepsLeft > 0
  OBVIOUS
<1> DEFINE n == Cardinality(Profiles)
           v == Cardinality(visited)
           d == Len(stack)
<1>1. /\ n \in Nat /\ v \in Nat /\ v <= n /\ d \in Nat
      /\ step # "enter" => d <= v
      /\ step \in Unwinding => d > 0
      /\ step \in Providers \cup {"enter", "assume", "sts", "done"}
  BY DEF Numbers
<1>2. step \in Providers => Rank[step] \in 1..7
  BY Ranked
<1>3. CASE step = "done"
  BY <1>1, <1>3 DEF StepsLeft
<1>4. CASE step = "sts" \/ step = "assume"
  <2>1. StepsLeft = 2 * d \/ StepsLeft = 2 * d - 1
    BY <1>4 DEF StepsLeft
  <2>2. d > 0 /\ d <= v
    BY <1>1, <1>4 DEF Unwinding
  <2> HIDE DEF n, v, d
  <2> QED
    BY <1>1, <2>1, <2>2 DEF n
<1>5. CASE step = "enter"
  <2>1. StepsLeft = 3 * n + 7 - v
    BY <1>5 DEF StepsLeft
  <2> HIDE DEF n, v, d
  <2> QED
    BY <1>1, <2>1 DEF n
<1>6. CASE step \in Providers
  <2>1. StepsLeft = Rank[step] + (IF stack = <<>> THEN 3 * n + 4 ELSE 2 * n)
    BY <1>6 DEF StepsLeft, Providers
  <2> DEFINE k == Rank[step]
  <2>2. k \in 1..7 /\ StepsLeft = k + (IF stack = <<>> THEN 3 * n + 4 ELSE 2 * n)
    BY <1>2, <1>6, <2>1
  <2> HIDE DEF n, v, d, k
  <2> QED
    BY <1>1, <2>2 DEF n
<1> QED
  BY <1>1, <1>3, <1>4, <1>5, <1>6

\* The ways on, each of which leaves fewer steps.
Onward ==
  \/ step' = "done"
  \/ /\ step \in Providers /\ step' \in Providers /\ stack' = stack
     /\ Rank[step'] < Rank[step]
  \/ step \in Providers \cup {"enter"} /\ step' = "assume"
  \/ step = "profile" /\ step' = "enter"
  \/ /\ step = "enter" /\ Cardinality(visited') = Cardinality(visited) + 1
     /\ step' = "enter" \/ (step' \in Providers /\ stack' # <<>>)
  \/ step = "assume" /\ step' = "sts" /\ stack' = stack
  \/ step = "sts" /\ step' = "assume" /\ Len(stack') = Len(stack) - 1

\* On each of them there are.
LEMMA OnwardNearer ==
  ASSUME IInv, Numbers, Numbers', step # "done", Onward
  PROVE  StepsLeft' < StepsLeft
<1> DEFINE n == Cardinality(Profiles)
           v == Cardinality(visited)
           d == Len(stack)
           k == Rank[step]
<1>1. /\ n \in Nat /\ v \in Nat /\ v <= n /\ d \in Nat
      /\ step \in Unwinding => d > 0
  BY DEF Numbers
<1>2. /\ v' \in Nat /\ v' <= n /\ d' \in Nat /\ (step' # "enter" => d' <= v')
      /\ step' \in Unwinding => d' > 0
  BY DEF Numbers
<1>3. \A s \in Providers : Rank[s] \in 1..7
  BY Ranked
<1>4. /\ step = "sts" => StepsLeft = 2 * d - 1
      /\ step = "assume" => StepsLeft = 2 * d
      /\ step = "enter" => StepsLeft = 3 * n + 7 - v
      /\ step \in Providers =>
           StepsLeft = k + (IF stack = <<>> THEN 3 * n + 4 ELSE 2 * n)
  BY DEF StepsLeft, Providers
<1>5. /\ step' = "done" => StepsLeft' = 0
      /\ step' = "sts" => StepsLeft' = 2 * d' - 1
      /\ step' = "assume" => StepsLeft' = 2 * d'
      /\ step' = "enter" => StepsLeft' = 3 * n + 7 - v'
      /\ step' \in Providers =>
           StepsLeft' = k' + (IF stack' = <<>> THEN 3 * n + 4 ELSE 2 * n)
  BY DEF StepsLeft, Providers
<1>6. step = "profile" => stack = <<>>
  BY DEF IInv, FlowInv
<1>15. /\ step \in Providers => k \in 1..7
       /\ step' \in Providers => k' \in 1..7
       /\ step = "profile" => k = 4 /\ step \in Providers
  BY <1>3, Ranked DEF Providers
<1> HIDE DEF n, v, d, k
<1>7. CASE step' = "done"
  BY StepsBounded, <1>5, <1>7
<1>8. CASE step \in Providers /\ step' \in Providers /\ stack' = stack /\ k' < k
  BY <1>1, <1>15, <1>4, <1>5, <1>8
<1>9. CASE step \in Providers \cup {"enter"} /\ step' = "assume"
  BY <1>1, <1>2, <1>15, <1>4, <1>5, <1>9
<1>10. CASE step = "profile" /\ step' = "enter"
  <2>1. StepsLeft = 3 * n + 8
    BY <1>1, <1>4, <1>6, <1>10, <1>15
  <2>2. StepsLeft' = 3 * n + 7 - v'
    BY <1>5, <1>10
  <2>3. n \in Nat /\ v' \in Nat
    BY <1>1, <1>2
  <2>4. \A i, j \in Nat : 3 * i + 7 - j < 3 * i + 8
    OBVIOUS
  <2>5. 3 * n + 7 - v' < 3 * n + 8
    BY <2>3, <2>4
  <2> QED
    BY <2>1, <2>2, <2>5
<1>11. CASE step = "enter" /\ step' = "enter" /\ v' = v + 1
  BY <1>1, <1>2, <1>4, <1>5, <1>11
<1>12. CASE step = "enter" /\ v' = v + 1 /\ step' \in Providers /\ stack' # <<>>
  BY <1>1, <1>2, <1>15, <1>4, <1>5, <1>12
<1>13. CASE step = "assume" /\ step' = "sts" /\ stack' = stack
  <2>1. d' = d
    BY <1>13 DEF d
  <2> QED
    BY <1>1, <1>4, <1>5, <1>13, <2>1
<1>14. CASE step = "sts" /\ step' = "assume" /\ d' = d - 1
  BY <1>1, <1>4, <1>5, <1>14
<1> QED
  BY <1>7, <1>8, <1>9, <1>10, <1>11, <1>12, <1>13, <1>14 DEF Onward, v, d, k

\* What errNoMatch, an answer and an error lead to.
LEMMA WaysOn ==
  ASSUME step \in Providers
  PROVE  /\ \A e : Fail(e) => Onward
         /\ \A w : Got(w, stack) \/ Fetch(w, stack) => Onward
         /\ \A r \in Providers : Rank[r] < Rank[step] /\ (Goto(r) \/ NoMatch(r)) => Onward
         /\ NoMatch("") => Onward
<1>1. \A x : Fail(x) => step' = "done"
  BY DEF Fail
<1>2. \A w : Got(w, stack) => step' \in {"done", "assume"}
  BY DEF Got
<1> QED
  BY <1>1, <1>2 DEF Fetch, Goto, NoMatch, Onward

\* The provider that is tried next has a lower rank.
LEMMA NextOnward ==
  /\ step = "env" /\ NoMatch("irsa") => Onward
  /\ step = "irsa" /\ NoMatch("ecs") => Onward
  /\ step = "ecs" /\ NoMatch("profile") => Onward
  /\ step = "profile" /\ NoMatch("imds") => Onward
  /\ step = "imds" /\ Goto("imdsRole") => Onward
  /\ step = "imdsRole" /\ Goto("imdsCreds") => Onward
<1>1. ASSUME NEW a \in Providers, NEW b \in Providers, Rank[b] < Rank[a], step = a,
             Goto(b) \/ NoMatch(b)
      PROVE  Onward
  BY <1>1, WaysOn
<1>2. /\ Rank["irsa"] < Rank["env"] /\ Rank["ecs"] < Rank["irsa"]
      /\ Rank["profile"] < Rank["ecs"] /\ Rank["imds"] < Rank["profile"]
      /\ Rank["imdsRole"] < Rank["imds"] /\ Rank["imdsCreds"] < Rank["imdsRole"]
  BY Ranked
<1>3. {"env", "irsa", "ecs", "profile", "imds", "imdsRole", "imdsCreds"} \subseteq Providers
  BY DEF Providers
<1> QED
  BY <1>1, <1>2, <1>3

\* The provider steps.
LEMMA ProvidersOnward ==
  ASSUME \/ EnvProvider \/ WebIdentityProvider \/ ECSProvider \/ SharedProfileProvider
         \/ IMDSToken \/ IMDSRole \/ IMDSCreds
  PROVE  Onward
<1> USE NextOnward DEF Providers
<1>1. CASE EnvProvider
  BY <1>1, WaysOn DEF EnvProvider
<1>2. CASE WebIdentityProvider
  BY <1>2, WaysOn DEF WebIdentityProvider
<1>3. CASE ECSProvider
  BY <1>3, WaysOn DEF ECSProvider
<1>4. CASE SharedProfileProvider
  <2>1. CASE step' = "enter"
    BY <1>4, <2>1 DEF SharedProfileProvider, Onward
  <2>2. CASE Fail("files") \/ NoMatch("imds")
    BY <1>4, <2>2, WaysOn DEF SharedProfileProvider
  <2> QED
    BY <1>4, <2>1, <2>2 DEF SharedProfileProvider
<1>5. CASE IMDSToken
  BY <1>5, WaysOn DEF IMDSToken
<1>6. CASE IMDSRole
  BY <1>6, WaysOn DEF IMDSRole
<1>7. CASE IMDSCreds
  BY <1>7, WaysOn DEF IMDSCreds
<1> QED
  BY <1>1, <1>2, <1>3, <1>4, <1>5, <1>6, <1>7

\* The steps of resolveProfile: a profile that is entered was not visited before.
LEMMA ProfileOnward ==
  ASSUME IInv, ResolveProfile
  PROVE  Onward
<1>1. Typed /\ FlowInv
  BY DEF IInv
<1>2. \A e : Fail(e) => Onward
  BY DEF Fail, Onward
<1>3. CASE Cycle \/ BadRole
  BY <1>2, <1>3 DEF Cycle, BadRole
<1>4. CASE EnterSource
  <2>1. top \notin visited /\ visited' = visited \cup {top} /\ step = "enter" /\ step' = "enter"
    BY <1>4 DEF EnterSource, Entered, Visit
  <2>2. Cardinality(visited') = Cardinality(visited) + 1
    BY <1>1, <2>1, VisitedFinite, FS_AddElement
  <2> QED
    BY <2>1, <2>2 DEF Onward
<1>5. CASE EnterCredentialSource
  <2>1. step = "enter" /\ stack # <<>>
    BY <1>1, <1>5 DEF EnterCredentialSource, Entered, FlowInv
  <2>4. visited' = visited \cup {top} => Cardinality(visited') = Cardinality(visited) + 1
    <3>1. top \notin visited
      BY <1>5 DEF EnterCredentialSource, Entered
    <3> QED
      BY <1>1, <3>1, VisitedFinite, FS_AddElement
  <2>2. CASE Fail("badsource")
    BY <1>2, <2>2
  <2>3. CASE step' \in {"env", "ecs", "imds"} /\ stack' = stack /\ visited' = visited \cup {top}
    BY <2>1, <2>3, <2>4 DEF Onward, Providers
  <2> QED
    BY <1>5, <2>2, <2>3 DEF EnterCredentialSource, Visit
<1>6. CASE OwnCredentials
  <2>1. step = "enter"
    BY <1>6 DEF OwnCredentials, Entered
  <2>2. \A w : Got(w, Tail(stack)) => step' \in {"done", "assume"}
    BY DEF Got
  <2>3. \A w : Got(w, Tail(stack)) \/ Fetch(w, Tail(stack)) => Onward
    BY <1>2, <2>1, <2>2 DEF Fetch, Onward
  <2> QED
    BY <1>2, <1>6, <2>3 DEF OwnCredentials
<1>7. CASE NoPrompt
  BY <1>7 DEF NoPrompt, Goto, Onward
<1>8. CASE Prompt
  BY <1>2, <1>8 DEF Prompt, Onward
<1>9. CASE AssumeRole
  <2>1. step = "sts" /\ Len(Tail(stack)) = Len(stack) - 1
    BY <1>1, <1>9, TopTyped DEF AssumeRole, FlowInv, Unwinding
  <2>2. \A w : Got(w, Tail(stack)) =>
          step' = "done" \/ (step' = "assume" /\ stack' = Tail(stack))
    BY DEF Got
  <2>3. \A w : Got(w, Tail(stack)) => Onward
    BY <2>1, <2>2 DEF Onward
  <2>4. step' = "done" => Onward
    BY DEF Onward
  <2> QED
    BY <1>2, <1>9, <2>3, <2>4 DEF AssumeRole
<1> QED
  BY <1>3, <1>4, <1>5, <1>6, <1>7, <1>8, <1>9 DEF ResolveProfile

\* Whatever the files say, cycles included, resolve takes at most three steps for
\* each profile and eleven: each one leaves fewer.
THEOREM EveryStepNearer ==
  Spec => /\ [](StepsLeft \in 0..(3 * Cardinality(Profiles) + 11))
          /\ [][StepsLeft' < StepsLeft]_vars
<1>1. Numbers => StepsLeft \in 0..(3 * Cardinality(Profiles) + 11)
  BY StepsBounded
<1>2. IInv /\ Numbers /\ Numbers' /\ [Next]_vars => [StepsLeft' < StepsLeft]_vars
  <2> SUFFICES ASSUME IInv, Numbers, Numbers', Next PROVE StepsLeft' < StepsLeft
    OBVIOUS
  <2>1. step # "done"
    BY DEF Next, EnvProvider, WebIdentityProvider, ECSProvider, SharedProfileProvider,
       IMDSToken, IMDSRole, IMDSCreds, ResolveProfile, Cycle, BadRole, EnterSource,
       EnterCredentialSource, OwnCredentials, Entered, NoPrompt, Prompt, AssumeRole
  <2>2. Onward
    BY ProvidersOnward, ProfileOnward DEF Next
  <2> QED
    BY <2>1, <2>2, OnwardNearer
<1> QED
  BY Invariance, Counted, <1>1, <1>2, PTL DEF Spec
=================================================================================
