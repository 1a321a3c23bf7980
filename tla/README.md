# A TLA+ model of skipstone

skipstone is a Go client for one API, Bedrock's ConverseStream. It has a retry
loop, an AWS credential chain, a SigV4 signer and a decoder of the
`application/vnd.amazon.eventstream` framing. This directory holds TLA+ modules
for the parts where order, time, failure and concurrency matter, TLC
configurations that check them on small instances, and TLAPS proofs of what
holds for every instance.

    tlc -config MCCredChain.cfg MCCredChain      # one run; the others alike
    tlapm CredChainProofs.tla                    # its proofs; the others alike

`PROJECT.json` lists runs, faulty variants, the source lines behind each
definition, findings, hazards and theorems.

## 1. Inventory

| Component | Source | State | Operations | Who calls it |
|---|---|---|---|---|
| Client configuration | `client.go` 30-163 | `Client`, fixed after `NewClient` | options, region and endpoint resolution | the user |
| ConverseStream call | `client.go` 165-239, `retry.go` | attempt counter, `resp`, timer, all local | build, retrieve, sign, send, judge, drain, sleep | the user, from any number of goroutines |
| Credential chain cache | `creds/creds.go` 121-159 | `mu`, `cached`, `have` | `Retrieve` | every SigV4 attempt of every call |
| Credential resolution | `creds/*.go` | `visited`, the Go stack, stdin | five providers, `resolveProfile` recursion, AssumeRole, MFA prompt, IMDS | the chain, with its mutex held |
| Shared config parser | `internal/awsini` | `File` maps | `Parse*`, `Load*`, `Get` | resolution, region lookup |
| SigV4 signer | `sigv4/sigv4.go` | none | `Sign` | call and AssumeRole |
| Event-stream decoder | `eventstream/eventstream.go` | how far the reader has been read | `Next`, `Encode` | `Stream.Recv` |
| Stream and events | `stream.go`, `events.go`, `errors.go` | the response body | `Recv`, `Close`, `decodeEvent` | the user |
| Request body and types | `request.go`, `types.go` | none | validation, JSON | the call, once |

How they interact: a call asks the chain for credentials on each attempt unless
a bearer token is set; the chain is shared by all calls of a Client, so calls
wait for one another at its mutex. A successful call gives its response body to
a Stream, which owns it until `Close`. Everything else is local to a call. The
user supplies callbacks (classifier, back-off, trace, MFA prompt, clock) and
contexts; net/http, STS, ECS, IMDS, child processes and the terminal are the
environment.

What is hard: callers queueing at a mutex that ignores their contexts; a refresh
decided before a slow call and acted on after it; a timer racing a cancellation;
a body that must be closed on every exit of the loop but one; failures that must
not turn into a weaker identity; recursion over files that may be cyclic; a byte
stream cut anywhere, read by a decoder that remembers no error. Nothing is
persisted, so there is no crash recovery to model.

What makes each correct:

* *chain*: one refresh at a time; never replaces good credentials; a cache hit
  stays valid for the slack; every caller is answered;
* *call*: each attempt is sent whole and freshly signed; Retry-After is obeyed;
  at most one attempt begins after cancellation; bounded requests; the result is
  the verdict on the last response; no body leaks; every call returns;
* *resolution*: the first configured source answers or fails, nothing weaker
  steps in; an answer is never taken for its absence; roles are assumed as the
  files say, each once; a chain that cannot work is refused before anyone is
  asked; it returns on cyclic files;
* *decoder*: slices in range; frames whole, in order, once; nothing lost in
  silence; a damaged message costs one frame; `Next` returns;
* *events*: a server error inside the stream reaches the user as one, in its
  place, whatever its type and payload look like;
* *header codec*: no index out of range; the map stands for exactly the bytes
  read; what `Encode` writes comes back;
* *config parser*: a loaded file holds what all its lines say; *command line*:
  the words keep every character;
* *client configuration*: the first of the documented places decides;
* *request body*: no block, tool or choice is dropped;
* *signer*: what is sent is what was signed, and a signature is good for one
  path and one set of parameters.

## 2. Modules

| Module | What it is |
|---|---|
| `Credentials` | values, expiry, the slack; shared vocabulary |
| `CredProvider` | abstract specification: a call to a provider is answered in one step |
| `CredChain` | the cache: mutex, test, slow resolution, store; refines `CredProvider` |
| `CredChainProofs` | TLAPS proofs about `CredChain` |
| `Resolve` | what happens inside the slow resolution |
| `ResolveProofs` | TLAPS proofs about `Resolve` |
| `Converse` | the attempt loop, composed with `CredChain` by a named INSTANCE |
| `ConverseProofs` | TLAPS proofs about `Converse`, which cite those about the chain |
| `FrameSource` | abstract specification: what the reader of a Stream may rely on |
| `EventStream` | the decoder on an unreliable body, and `Recv`; refines `FrameSource` |
| `EventStreamProofs` | TLAPS proofs about `EventStream` |
| `HeaderCodec` | `Encode` and `decodeHeaders`, byte by byte |
| `HeaderCodecProofs` | TLAPS proofs about `HeaderCodec` |
| `AwsIni` | the parser of the shared files, line by line |
| `CmdLine` | `splitCmdline` and the command made of its words |
| `Formats` | composition of the three parsers: a behaviour runs one of them |
| `ParserProofs` | TLAPS proofs about `AwsIni`, `CmdLine` and `Formats` |
| `ClientConfig` | `NewClient` |
| `RequestBody` | `buildRequestBody` as operators |
| `SigV4` | `Sign` as operators |
| `Request` | what is sent: configuration, body, attempts, signatures; uses the three above |
| `RequestProofs` | TLAPS proofs about these four |
| `SetInduction` | lemmas: induction over numbers, listing finite sets, lexical order, sorted sequences, joining sequences |
| `MC*` | constants for TLC |

### CredChain

`mu`, `have` and `cached` are the fields of `chain`. `pc[c]` says where caller
`c` is: `blocked` at `mu.Lock`, `locked` before the test, `resolving` inside
`resolve`, `answered` when an answer has been issued but has not been stored.
The mutex is held from `Lock` to `Hit`, `Store` or `Fail`. `Issue` is the
outside world; its value arrives (`Store`) or is lost (`Fail`). Key material is
reduced to the order of issue (`serial`). Time is a clock that may tick between
any two steps, so it can pass within `resolve`. `grant` is history: when a caller
was answered and whether from the cache.

`CredProvider` is what the `Provider` interface promises. The mapping hides
mutex and resolution: `blocked`, `locked`, `resolving` and `answered` are all
`pending`, and an answer that has not been stored is not visible. `Hit` maps to
`Reuse`, `Store` to `Renew`, `Fail` to `Refuse`; the rest stutter. What makes the
mapping work is `ResolveStillDue`: `Renew` and `Refuse` demand that the current
value is not good *now*, and the code tested it before the slow call.

### Resolve

`resolveProfile`'s Go stack is `stack`, innermost profile first. `step` names
what runs next; `enter` is the start of `resolveProfile`, `assume` the return of
the source's credentials into `assumeRoleFromProfile`. The provider steps serve
`resolve` when the stack is empty and `resolveCredentialSource` when it is not;
`NoMatch` and `Got` tell the two apart, as their callers do in the code. `value`
records provenance: source, file, profile and the roles assumed. A file holds a
section per profile and lookups follow `profileGet`, key by key, so a role may be
split over the two files. Environment variables and files do not change during
one call of `resolve`. Every outside step may fail, which covers cancelled
contexts and bad answers. `answered` is history: whether the metadata service
has answered, so that "nothing found" can be told from an answer that is hidden. The default MFA prompt takes any positive number of the
lines on stdin and uses the first: its buffer is private and dropped.

### Converse

`call[c]` holds the locals of one call and `st` its place in the loop. Steps that
retrieve credentials are steps of `Chain` at the same time: `BuildSigned` enters
`Retrieve`, `Chain!Advance` runs it, `Sign` and `NoCredentials` take its result.
`reader` is the state of the body reader (`full` until the transport has had it),
`open` the response body. Both arms of `sleep`'s select are actions, and both may
be enabled. Back-offs, statuses and headers are constants; the classifier of
`WithRetryClassifier`, where `setup` has one, may answer anything. `time.Duration` wraps at `HalfRange`.
`hist` is history: requests sent, attempts begun after the context ended, the
instant that Retry-After named, the last wake-up and the cache at that time.

A bad endpoint is `unparsable` (`NewRequest` fails) or `hostless` (`Sign` fails,
or `Do` where nothing is signed). `Do` refuses a context that has ended before it
sends anything, as net/http does.

### EventStream

A wire is a sequence of frames with sizes, claimed lengths and damage; the
decoder sees offsets. `cut` is where the body is cut, `arrived` what has come,
`ending` how reads end. `io.ReadFull` is one step, enabled when its bytes are
there or cannot come. A prelude is right only at the start of a frame with an
undamaged prelude: the assumption is that CRC-32 detects damage and
misalignment. A frame also carries what `Recv` asks of it: its message type,
whether its event type is one of the six, whether its payload decodes. The
result of a call is an event with or without a decoded payload (`decoded`,
`raw`), a server error (`apierror`), or the error of `Next`. The reader may call `Next` again after any result. TLC's instance
has a prelude of 3 and a trailer of 1 in place of 12 and 4; lengths wrap at `W`
in place of 2^32.

`FrameSource` is the promise, without bytes: frames come whole and in order,
none is missing before the first failure, the end is reported only at the end,
and a server error is never an event. The mapping counts as sent the frames that
the body holds whole; `last` is the highest frame that has come out.

### HeaderCodec, AwsIni, CmdLine, Formats

`decodeHeaders` is one action per field; `i` counts from 0 as in the code and
`At(k)` is the byte there. The block is any sequence of bytes, or what `Encode`
wrote for some map (`written`, history). `read` keeps the headers in order, to
compare with the bytes. A byte is a number below `Base`, and lengths wrap where
`Encode` converts them: `byte(len(k))`, `uint16(len(v))`. `SortedKeys` is the
ascending list of the keys.

`AwsIni` reads one line a step. `TrimSpace`, `IndexByte` and comments are the
kind of a line: blank, header (closed or not, with its words), setting, a line
without `=`, a line the scanner refuses. Lookups in `Resolve` work on what comes
out. `CmdLine` scans one character a step; its words hold the offsets of their
characters, so that a property can tell a character lost from one moved.
The lengths and checksums that `Encode` puts around headers and payload are in
`EventStream`, as claims of a frame. `Formats` puts the three side by side, with
`subject` for the one that runs, so that one run and one set of theorems speak of
all of them.

### ClientConfig, RequestBody, SigV4, Request

`NewClient` is a step per option and per field it completes. `Request` runs it,
builds the body once, and makes a request for each attempt; `sent` is what has
gone out. `now` moves to any later date before each signature, and `Retrieve` may
answer with other credentials each time, or none that are complete. There are
three callers. `client` is `ConverseStream`. `role` is `callAssumeRole` of the
chain, which takes region and endpoint by rules of its own (`StsRegion`,
`HostOf`), drops the errors of `NewRequest` and of `Sign`, and panics after the
first of them. `other` signs a request of any path, query and headers
(`SignOwn`), one that nobody has signed before and whose path is escaped
(`Unsigned`). What `NewRequest` makes no URL of is `NoURL`; an endpoint without a
host is in `NoHost`, and the transport sends nothing to it. The transport asks
for `/` where a path is empty (`OnWire`).

Signing is data, so it is operators: texts are sequences of characters (eleven for TLC)
with an order, `%` and two hex digits written as two elements. A signature is
the record of what was hashed, which is to take SHA-256 and HMAC for free of
collisions. `Verifies` is the service: it computes the canonical form from the
request it has received, by its own definitions (`RestVerifies` for all but the
query, `Recomputed` for the query).

A query is what stands on the wire: parts between `&`, each a key and a value
(`Part`) of characters that are escaped or not (`Unit`). `Parameters` is what
`u.Query()` makes of it: parts that are empty, have a `;` or a broken escape are
passed over, and a `+` is a space. The service reads every part as it stands and
sorts names and values encoded. The two agree where url.ParseQuery keeps all of
the query (`Whole`) and where each character that is escaped comes before all that
are not, as `%` does (`Aligned`); `SentVerifies` and `QueryUnambiguous` say where
they ask for that, and the run `query_dropped` shows what happens without the
first. `ConverseStream` and `callAssumeRole` send no query.

## 3. Runs

| Run | Checks | Bounds |
|---|---|---|
| `chain` | `TypeOK`, `OneResolver`, `ResolveStillDue`, `HitUsableForSlack`, `EveryRetrieveReturns`, `PromiseKept` | 3 callers, 2 issues, clock to 3 |
| `converse` | `TypeOK`, `BodyAccounted`, `FreshAttempt`, `HonorsRetryAfter`, `CancelStopsRetries`, `SendsBounded`, `VerdictOnLastResponse` | 1 call, 2 retries, 4 statuses, 3 headers, every kind of Client, clock to 6 |
| `converse_pair` | `EveryCallReturns` | 2 calls, 1 retry, 2 issues, credentials expire at 1 |
| `resolve` | `TypeOK`, `NoFallThrough`, `NoneOnlyIfNothing`, `ChainAsConfigured`, `RefusedBeforeAsking`, `ResolveReturns` | 3 profiles; 24 environments with 441 pairs of files, and 19683 pairs of files in one environment; 2 lines on stdin |
| `stream` | `TypeOK`, `SlicesInRange`, `DeliveredInOrder`, `NothingLostInSilence`, `OneBadFrameCostsOne`, `NextReturns`, `SourceKept` | any two frames of 12 kinds, or any between two of 4 kinds; every cut; 4 calls of `Recv` |
| `formats` | `TypesOK`, `IndexInRange`, `ReadExactly`, `NoHeaderRefused`, `RoundTrip`, `LoadedAsWritten`, `WordsAsQuoted` | `Base` 2: all blocks of 9 bytes, 625 maps; all files of 3 lines of 12 kinds and of 5 good lines; command lines of 6 characters |
| `request` | `RequestTypeOK`, `ClientAsDocumented`, `SentVerifies`, `QueryUnambiguous`, `PathUnambiguous`, `BodySaysInput` | up to 2 options of 6, of the region with 8 environments and 3 config files, of any field with 8 environments; bad regions and endpoints; 5 model IDs, blocks with up to two fields, with and without a text, 2 tools; 2 attempts on 2 dates; 24 ways to a region and endpoint of STS; queries of 3 parts, or of 2 that are odd or change places when escaped, headers of 5 characters; 49589 states |

Why these are enough. Three callers are the fewest with one in the critical
section, one queued behind it and one coming back; expiries at 1 and 3 with a
slack of 1 put credentials on both sides of the boundary and let them expire
during a refresh. Two retries are the first number with a middle attempt; two
calls the first at which one call's refresh serves or delays another. Three
profiles give cycles through the active profile and past it. Three frames give a
frame before and after a damaged one, and a length of 7 makes a damaged message
take bytes of its successor. A name of one byte and a value of three are the
longest whose lengths fit with `Base` 2, and one more of each makes them wrap;
nine bytes hold two headers, so that a name can come twice. Two equal sections
with another between them need five lines. Two options give an option that
overrides another; two attempts, credentials that change from one to the next.
The options and variables that decide on the region and those that decide on
endpoint and token are varied one after the other, since the fields of a client
depend on no others, but for the host, which has both kinds in `AccessSetups`.
Three parameters are the first number with two equal keys and one in between.
Bounds that only cap (`MaxTime`, `MaxIssued`,
`MaxNexts`) disable further ticks, issues or calls and nothing else.

Every property of these runs has a faulty variant of a definition of the model
("A faulty ...") that TLC shows to violate it.

`CHECK_DEADLOCK FALSE` is set where the modelled thing ends: a call returns,
`resolve` returns, `Next` is not called any more. `chain` checks deadlock. No run
uses symmetry, since most of them check liveness as well.

### Disagreements between the code and what is said of it

Each is a run with one property, written from the quoted text, that TLC violates.

* `converse_huge`: an enormous Retry-After overflows and is not honoured.
* `resolve_profile`: `WithProfile` is not "restricted to the given profile"
  (`client.go:57`).
* `resolve_mfa`: a prompt may read more than "a line from Stdin" (`creds.go:85`).
* `process_empty`: a `credential_process` of quotes alone panics where it should
  execute a command (`README.md:17`).
* `query_dropped`: a query with a part that has a `;` or a broken escape is signed
  without that part, and so not as "AWS Signature Version 4" (`sigv4.go:1`)
  wants it: `u.Query()` (`sigv4.go:191`) leaves the error of ParseQuery out. No
  request of this client has a query.

Further disagreements, which the model has but no run is spent on. The properties
named say what the code does, not what the text says.

* `stream.go` loses a whole frame for one header of another type than string, which
  `eventstream.go:16` says come "as raw bytes". `OneBadFrameCostsOne`: that frame
  and no other.
* An instance without a role is an error of its own, not `errNoMatch`, as
  `imds.go:21-22` has it. `NoneOnlyIfNothing`: an answer of the metadata service
  is never reported as "nothing found".
* A region or endpoint that makes no URL, for instance `region = us east` in a
  profile, makes `callAssumeRole` panic, with the chain's mutex held: the error
  is dropped, since "the endpoint is a well-formed URL" (`assumerole.go:142-143`).
  `Request` ends such a call in the state `panicked`. `webidentity.go:43` drops the
  same error.
* A `Text` beside a pointer field is dropped, though "exactly one field must be
  set" (`request.go:9`). `BodySaysInput` names it as the one thing that is.
* `canonicalQuery` sorts before it escapes, where AWS sorts the escaped text: the
  order differs for names such as `:` and `0`. `SentVerifies` asks for `Aligned`,
  and TLC's requests include queries that are not.

Remarks that no run stands for:

* `credential_source` Environment and EcsContainer (`README.md:19`) never lead to
  an assumed role through `DefaultChain`: with their variables set, an earlier
  provider answers.
* `NewClient` takes the region from the profile of AWS_PROFILE, also when
  `WithProfile` names another.
* A bad `duration_seconds` is found in `callAssumeRole` (`assumerole.go:122`),
  when the roles of the source profile have been assumed and the user has typed
  the token of this one; every other fault that the files show of a chain is found
  before, but for a region that makes no URL.
  `RefusedBeforeAsking` says both, and how far the first gets.
* A tool choice without tools sends `"tools":null`.
* `Decoded` is nil for a known type too, if the payload does not decode or is a
  server error (`stream.go:17`).
* `""` as an argument of `credential_process` vanishes.

Two more on what the properties say. The one-minute slack, "to avoid using
creds that expire mid-flight" (`creds.go:157`), is not applied to a value just
resolved; `HitUsableForSlack` is therefore about the cache. After ErrTruncated
the next call of `Next` returns io.EOF, inside a frame; `NothingLostInSilence`
speaks of the results up to the first error.

## 4. Fairness

* Go runs goroutines that can run: weak fairness of the code's own steps.
* `sync.Mutex` hands itself to a waiter that has starved for a millisecond:
  strong fairness of `Lock` for each caller.
* Contexts end: weak fairness of cancellation while a call is under way, and of
  the step with which a blocked operation reports it. This asks every caller to
  bring a deadline. With `context.Background()` and `http.DefaultClient`, which
  has no timeout, a silent server blocks its call, and a silent STS blocks every
  call of the Client at the mutex; the model says the same if the conjunct is
  dropped.
* Nothing is assumed of servers, providers or the clock.
* `resolve` assumes that each step of `resolve` returns, for which the above
  is the reason; an MFA prompt on a terminal nobody sits at is outside it.

## 5. Proofs

Every theorem holds for all values of the constants that satisfy the assumptions
named in the modules; TLC evaluates those on every run. Each inductive invariant
is a conjunction of named parts, and each step of the program is a case of its
proof.

Three devices recur. Induction over data is done on a *set* of numbers, which the
provers can instantiate where they cannot instantiate a predicate:
`SetInduction` has the principle, and from it that a finite set can be listed in
a strict order, that a sequence can be sorted and that two sorted sequences with
the same elements, each equally often, are equal, and what joining sequences
(`FlattenSeq`) gives piece by piece. A fact about every position of a text or a
block is stated of its first n elements and proved from n to n + 1. And that
nothing runs for ever is stated as a number: an operator bounds the steps left,
and the theorem says that each step lowers it. That is the half of liveness which
needs no fairness; that nothing stops halfway is the other half, and stays with
TLC.

### CredChainProofs

For any set of callers, any slack, any expiry times. `IInv` adds to `TypeOK` and
`ResolveStillDue`:

* `MutexInv`: `mu` names exactly the caller in the critical section. It gives
  `OneResolver`, and is why nobody else writes the cache during a refresh.
* `SerialInv`: no serial exceeds `issued`, so a new answer is the newest.
* `ValInv`: a call that was not answered has no value; the mapping needs it.
* `HitInv`: when a hit was granted its value was good for the slack then. The
  property speaks of the clock now; this speaks of the grant, which is inductive.

`ResolveStillDue` is the one about time: by `DueStays` what was due stays due,
and by `MutexInv` no other caller stores meanwhile. `CacheOnlyRenewed` is an
action property that follows from both: no step replaces a value that a hit could
still have used, and none replaces a newer value by an older one.

| Theorem | Establishes |
|---|---|
| `Invariance` | `Spec => []IInv` |
| `TypeCorrect`, `SingleRefresh`, `RefreshStillDue`, `CacheHitUsable` | `TypeOK`, `OneResolver`, `ResolveStillDue`, `HitUsableForSlack` |
| `CacheOnlyRenewed` | the cache changes only when it is due, to a newer value |
| `KeepsPromise` | `PromiseKept`, the refinement of `CredProvider` |

### ConverseProofs

For any number of concurrent calls, any `MaxRetries`, back-offs, statuses and
headers (`ConverseAssumption`). First, every step of `Converse` is on the chain's
variables a step of `CredChain` or none (`ImplementsChain`); with it the theorems
above hold among calls (`ChainInvariants`) and are cited, not proved again. Then
`IInv`, which is local to each call but for the cache:

* `LoopInv`: a result stands only at the end, a back-off only before a retry.
* `BodyInv`: a response body is open exactly in the states between its arrival
  and its closing, and in a Stream.
* `SendsInv`: requests sent against attempts begun.
* `LateInv`: an attempt that began late can only go on to an error.
* `VerdictInv`: the verdict from the moment it is taken to the result.
* `FreshInv`: what an attempt has so far (reader, signature, credentials) dates
  from after its wait. It needs `CacheInv` and, of the chain, `ResolveStillDue`:
  a value that `Retrieve` gives is at least as new as the cache was.
* `HonorInv`, for `HonorsRetryAfter`: the delay still to be waited covers the
  instant that was named.

| Theorem | Establishes |
|---|---|
| `ImplementsChain`, `ChainInvariants` | `Chain!Spec`; its `TypeOK`, `ResolveStillDue`, `OneResolver` |
| `Invariance`, `TypeCorrect` | `IInv`, `TypeOK` |
| `BodiesAccounted`, `RequestsBounded`, `LateAttempts` | `BodyAccounted`, `SendsBounded`, `CancelStopsRetries` |
| `VerdictKept`, `RequestsFresh` | `VerdictOnLastResponse`, `FreshAttempt` |
| `RetryAfterHonored` | `HonorsRetryAfter`, where all seconds that servers send are below `HalfRange` (`Representable`) |
| `EveryStepNearer` | a call takes at most 13 (`MaxRetries` + 1) steps |

`Representable` cannot be dropped: `converse_huge` violates the property without.

`StepsLeft(c)` is thirteen for each attempt that may still come and a few for the
rest of this one, with the place in `Retrieve` counted as well. A step of `c`
lowers it, whatever the server, the classifier and the back-offs say; a step of
another call, the chain's included, leaves it alone.

### ResolveProofs

For any finite set of profiles, any files, environments and stdin
(`ResolveAssumption`). `IInv` has `Typed` and `FlowInv` (which steps run inside
`resolveProfile`), `QuietInv` (nobody is asked before the first answer),
`DepthInv` (the stack is as deep as profiles were visited), `OrderInv` (a
provider runs only if those before it have nothing), `LineInv` and `SourceInv`:
the profile that brought the credentials, the roles assumed and the stack are,
behind one another, the chain of source profiles up to the active one, and
assuming a role only moves the boundary. `CountInv` ties prompts and calls to it.
`MetaInv` and `DurationInv` are proved on top of `IInv`: where the search may still
go on once the metadata service has answered (nowhere), and what has been asked
and sent when a bad `duration_seconds` is found.
The recursion ends on cyclic files because by `DepthInv` each level has visited
one profile more, and there are finitely many.

| Theorem | Establishes |
|---|---|
| `Invariance`, `LateInvariance`, `TypeCorrect` | `IInv`; `MetaInv` and `DurationInv`; `TypeOK` |
| `NothingPassedOver`, `NoneOnlyWhenNothing` | `NoFallThrough`, `NoneOnlyIfNothing` |
| `RefusedFirst`, `AsConfigured` | `RefusedBeforeAsking`, `ChainAsConfigured` |
| `EveryStepNearer` | `resolve` takes at most three steps for each profile and eleven |

### EventStreamProofs

For any number of frames of any size and damage, any cut, any sizes of prelude
and trailer and any width of the lengths (`EventStreamAssumption`).
`SlicesInRange` follows from `Accepted`, that the frame being read has passed
the test of its lengths, by `NoWrap`: once `total` is not less than the minimum,
the subtraction in unsigned arithmetic is the true one. `RoomLeft` bounds the
results. `FrameInv` speaks of `Limit`, the offset up to which frames have been
dealt with: `ReadInv` (what is being read starts there), `PlacedInv` (what came
out ends there or before), `EndInv`, `CleanInv` (before the first error
everything in front of it came out) and `CostInv` (where preludes are right,
every good frame in front of it did). The offsets of frames are a recursive
function whose equations are proved in the module. `ReadsProgress` is
the action property of a reader in a loop: a result stays, the position never goes
back, and a result that took no bytes comes only when the body has ended and all
that arrived has been read.

| Theorem | Establishes |
|---|---|
| `DecoderTyped`, `SlicesSafe` | `TypeOK`, `SlicesInRange` |
| `FrameInvariance` | `[](IInv /\ FrameInv)` |
| `WholeAndInOrder`, `NothingSkipped`, `OneForOne` | `DeliveredInOrder`, `NothingLostInSilence`, `OneBadFrameCostsOne` |
| `ReadsProgress` | each result has taken bytes, or there are none left |
| `ImplementsSource` | `SourceKept`, the refinement of `FrameSource` |

### HeaderCodecProofs

For any base, any blocks and any maps with finitely many keys (`CodecAssumption`).
`IInv` is `IndexInRange` with the types. `BlockInv`: the bytes before `i` are the
headers read and the fields of the next (`ReadInv`, `FieldInv`), and what was
refused begins with no header (`RefusedInv`). `TripInv`, for a block that came
from a map (`OriginInv`): what was read is the beginning of the list of its
headers. The keys of a map can be listed in order because `Before` is a strict
total order, which is proved.

| Theorem | Establishes |
|---|---|
| `DecoderTyped`, `DecoderInRange` | types, `IndexInRange`: `decodeHeaders` does not panic |
| `DecoderInvariance` | `[]BlockInv` |
| `EveryByteRead`, `RefusedIsNoHeader` | `ReadExactly`, `NoHeaderRefused` |
| `WhatIsWrittenComesBack` | `RoundTrip` |
| `DecoderEnds` | at most two fields are read for each byte, and two more |

### ParserProofs

For files and command lines of any length (`IniAssumption`, `CmdLineAssumption`).
`LoadInv`: where the parser is (`PlaceInv`), that the open section is that of the
last header (`SectionInv`), that no line was passed over (`LinesInv`), that no
section or key is without a name (`NamedInv`) and that the sections hold what the lines so far say, the later the better (`HeldInv`).
`SplitInv`: quoting is the parity of the quotes so far (`ScanInv`), the words
joined are the characters to keep, in order (`Listed`), and a word ends exactly
where a blank outside quotes stands (`WordInv`). A behaviour of `Formats` is, on
the variables of each parser, a behaviour of that parser (`ParsersApart`), so what
is proved of the three holds of the composition that the run `formats` checks.

| Theorem | Establishes |
|---|---|
| `LoadInvariance`, `LoaderTyped` | `LoadInv`, types |
| `FileHeld` | `LoadedAsWritten` |
| `SplitInvariance`, `SplitterTyped` | `SplitInv`, types |
| `EveryCharacterKept` | `WordsAsQuoted` |
| `LoaderEnds`, `SplitterEnds` | one step for each line, or character, and one or two more |

### RequestProofs

For any setups, inputs, requests and credentials, any characters and reserved
ones, any number of dates and attempts. `TextAssumption` is what percent-encoding
and sorting rest on: no two characters have the same rank, space, `%`, `/`, `&` and
`=` are reserved, each reserved character has digits of its own and these are not
reserved. `QuotedAreStrings` tells the provers that literals
are strings.

* `ConfigInv`: as far as `NewClient` has come, each field is what the options
  applied so far, and then environment and file, say of it.
* `TypeInv`, `FlowInv`: types; which step may follow which; the body is the one
  made of this input.
* `SignInv`: a request to be signed has no signature and none of the headers one
  adds; what has been signed or bears the token is right, until it is sent and
  after.

`SignedVerifies` is the lemma about `Sign`: for *any* unsigned request the
service, which writes header values (`SameWords`) and paths (`SameCode`) in a way
of its own, makes the same canonical form; `WholeQuery` and `AlignedOrder` are the
same for a query that is read as it stands and sorts alike before and after
escaping. `RoleFields` is what makes the lemma apply to the request of
`callAssumeRole`. `CodeInjective` is the one about
paths: escaping leaves the last character recognisable, since nothing that is
left ends in a percent sign, so equal codes come from equal texts, from the end
backwards. For queries there is an order besides: the lexical order of keys
and values is total because ranks tell characters apart, so `SortedPairs` is the
one sorted sequence for all queries with the same pairs. Its code can be read back: an
escaped text holds no `=` and no `&`, which therefore end each key and value
where the code put them.

| Theorem | Establishes |
|---|---|
| `ConfigInvariance`, `FlowInvariance`, `SignInvariance` | the three invariants |
| `RequestTyped` | `RequestTypeOK` |
| `DocumentedOrder` | `ClientAsDocumented` |
| `BodyFaithful` | `BodySaysInput` |
| `SignaturesVerify` | `SentVerifies` |
| `PathsTellApart` | `PathUnambiguous` |
| `QueriesTellApart` | `QueryUnambiguous` |

### Only model-checked

The four liveness properties, since fairness and ENABLED are out of the prover's
reach: `EveryRetrieveReturns`, `EveryCallReturns`, `ResolveReturns` and
`NextReturns`. What is proved beside them is that a call, `resolve` and the
parsers take boundedly many steps; that they are not stuck before the last one is
what TLC adds. Every other property of the passing runs is a theorem.

## 6. Plan

Done, in this order: `CredChain` with its abstract provider and proofs,
`Converse`, `Resolve`, `EventStream`; then `HeaderCodec`, `FrameSource` and the
events of `Recv`, `AwsIni`, `CmdLine`, `ClientConfig`, `RequestBody`, `SigV4` and
`Request`; then the proofs of the safety of all of them; then those of the
canonical query, of the composition `Formats`, of the action properties and of
the bounds on steps.

Left of the model: the Stream of `Converse` joined to `EventStream` as the reader
of `FrameSource`, `defaultBackoff`, the parsing of answers.

## 7. Not modelled, and why

* Cryptography, JSON, XML and HTTP syntax: external libraries; their results are
  outcomes.
* Fields of a request that are copied as they are: system, inference, the insides
  of blocks.
* The text of errors, prompts and session names, of the form sent to STS and of
  requests to ECS and IMDS: no property depends on it.
* `creds.Static` and `ProviderFunc`: they return a constant.
* `defaultBackoff`: `Converse` takes the back-offs as constants.
* Memory: `Next` allocates what a prelude claims before it arrives.
* `time.Until` in `retryAfter` uses the real clock even when `WithNow` replaces
  the Client's; the model has one clock.
* Redirects: net/http's own; a request whose body cannot be rewound is not
  redirected with it.
* `WithHTTPTrace` only observes.
* `e2e/`, CI and release files.
