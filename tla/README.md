# Verification of zitadel-grpc-auth

TLA+ models of the authentication and provisioning library in `src/`, TLC
configurations that check them on small instances, and proofs checked by TLAPS.
The code is the reference: a definition says what the code does, also where a
comment or the README of the library says something else; those places are stated as
properties that TLC refutes and are listed under *Disagreements*.

## 1. Inventory of the system

| Component | State | Operations | Interacts with | What is hard | What makes it correct |
|---|---|---|---|---|---|
| Introspection cache (`server/cache.go`) | `entries` map, `order` queue, singleflight flights | `resolve`, `get`, `put`, `evictOldestLocked`, `Close` | introspector, every RPC goroutine | callers race between two locks and a round trip; lazy expiry; leader's context; closing while in use | one introspection per token, bounded lifetimes and staleness, answers never go back in time, capacity |
| Enforcer (`server/interceptor.go`, `server/server.go`) | configuration only; per RPC a decision | `New`, `authorize`, `unary`, `stream`, `toGRPCStatus` | cache, policies, handler | order of the checks, expiry between cache and decision, errors of many kinds | default deny; no handler runs without every check; status codes blame the right side |
| Introspectors (`server/introspector.go`, `introspector_sdk.go`) | none | `Introspect` | Zitadel | time-outs, partial answers | inactive vs. failed are told apart |
| Policies, claims (`policy.go`, `claims.go`, `errors.go`, `context.go`, `redact.go`) | none | `All`, `Any`, `AuthorizeGlobPattern(Strict)`, claim accessors | enforcer | nil and empty lists, glob corners | conjunction/disjunction, deny wins |
| Bearer extraction (`internal/bearer`) | none | `FromIncomingMetadata` | enforcer | duplicated headers, odd characters | exactly one well-formed token or none |
| Client token attachment (`client/client.go`) | reused token, mutex of the token source | `withBearer`, interceptors | oauth2 token source, server | refresh under a lock, duplicate header | every RPC carries one live token or fails |
| Provisioning (`admin/onboard.go`, `human.go`, `revoke.go`, `metadata.go`) | none; Zitadel holds users, secrets, grants, metadata | `Onboard`, `OnboardHuman`, `ResetHumanPassword`, `Revoke` | Zitadel APIs | several remote calls per operation, each can fail or be interleaved with another operator's | what was asked is what is granted; re-running repairs |
| Bootstrap and action (`admin/bootstrap.go`, `action.go`) | none; Zitadel holds project, roles, app, action, trigger | `Bootstrap`, `RenderActionScript` | Zitadel | read-modify-write of the trigger list, failing reads | operators' actions are kept; re-running is safe |
| Web application (`admin/web_application.go`) | none; Zitadel holds the app | `EnsureWebApplication` | Zitadel | normalisation, drift | converges, never weakens the app |
| Verification (`admin/verify.go`) | none | `VerifyHumanAuthConfiguration` | Zitadel | paging while others write | reports drift iff there is some |
| Lookup (`admin/lookup.go`) | none | paged lookups by name | Zitadel | pages shift, totals missing | unique match or an error, terminates |
| Admin client (`admin/client.go`, `api.go`, `types.go`, `errors.go`) | gRPC connection | `NewClient`, `Close` | Zitadel | none beyond I/O | - |
| Setup script (`scripts/setup-sdk`) | the file with identifiers and secrets | runs `Bootstrap`, an `Onboard` per user, writes the file | admin package, other operators | dies between the steps; is run again | what a written file says stays true |
| Example service (`examples/greeter`) | none | - | client, server | - | - |

Components interact by calls: an RPC goroutine runs the interceptor, which reads
the bearer token, resolves it through the cache (shared by all goroutines), asks
the introspector on a miss, and runs the policies of the method. The
introspector asks Zitadel, whose contents the admin package writes.

## 2. Plan

In this order, the most important behaviour first:

| | Modules | State |
|---|---|---|
| 1 | `IntrospectionCache`: the shared, concurrent core | modelled, checked, proved |
| 2 | `AuthServer` on top of it (it EXTENDS the cache and runs its actions), and `AccessControl`, the abstract promise it implements | modelled, checked, proved, refinement included |
| 3 | `Policy` with `Glob`; `Bearer` (client interceptor and server extraction composed) | modelled, checked, proved, `matchGlob` against its reference included |
| 4 | `Provisioning`: several operators against a Zitadel that can fail at every call | modelled, checked, proved: what holds in every interleaving, and what an undisturbed operation achieves |
| 5 | `Bootstrap`: project, roles, application, action, shared trigger list | modelled, checked, proved |
| 6 | `ClientToken`: the reused token source, refreshed under one lock, and the RPC that carries the token to the server | modelled, checked; safety proved |
| 7 | `Paging`: the loop over pages of a list that changes (`lookup.go`, `verify.go`) | modelled, checked; safety proved |
| 8 | `WebApplication`: normalisation, drift, several operators and edits by hand | modelled, checked, proved |
| 9 | `Verification`, which EXTENDS `Provisioning` and INSTANCEs `Paging`: the report beside operators and edits by hand | modelled, checked, proved |
| 10 | `Setup`, which EXTENDS `Bootstrap`: the script, its crashes and re-runs | modelled, checked, proved |

Nothing can be proved here of recursive operators, or of library operators that take an operator.
The loop that filters the trigger's list (`Without`) is therefore a recursive function, and the
order of the authorizations (`InOrder`) is given by how many identifiers are not larger.

`AuthServer` runs the cache's actions, `Verification` those of `Provisioning`, and
`Setup` those of `Bootstrap`: a run of the composition fires the actions of both, and
a property of the part is checked in the company of the other.

## 3. The introspection cache

`IntrospectionCache.tla` models `resolve` as run by a set `Calls` of goroutines.

| Model | Code |
|---|---|
| `clock` | `time.Now()`; any amount of time passes between two steps |
| `entries`, `order` | the fields of `introspectionCache`; `closed` says `entries` is the nil map |
| `flight[t]` | the call registered in `singleflight.Group` for the key |
| `pc[c]` | `lookup`: `now` is read, the first `get` is next; `do`: about to call `sf.Do`; `recheck`: leading, inner `now` is read; `introspect`: the request is out; `answered`: the outcome is settled and travelling back; `publish`: stored; `wait`: a follower; `done`: `resolve` returns |
| `now[c]`, `out[c]`, `via[c]` | the local `now`, the result, and whether it came from the cache, by leading, or by sharing a flight |
| `out.asOf`, `expiresAt` | when the introspector settled the outcome; `cachedEntry.expiresAt` |

Each critical section of `c.mu` and of singleflight is one action (`Lookup`, `Do`,
`Recheck`, `Store`, `Publish`). The introspector is an environment action that may
answer, fail, or be cut short by the leader's context (`Answer`, `Fail`, `Cancel`).
`Kinds` are the outcomes it can have; `OwnErrors` are those that only an introspector of
the application's own can have (an error that wraps `ErrForbidden`, or is a gRPC status).
The cache stores and hands on an error as it is, so each keeps its kind. What they mean is
`AuthServer`'s business (section 4): the cache's own run has none of them.
`Close` may happen at any time; a store after it sets `crashed` (a write to a nil
map panics and singleflight re-raises it). Zitadel's clock is its own: it may call a
token active that has expired by ours. A token stands for its SHA-256 key.

Bounds: `MaxTime` stops the clock. A goroutine runs any number of RPCs one after
another, so only time is bounded, and every lifetime (`TTL`, the token's expiry,
`TransportErrorTTL`) ends before `MaxTime`, so an entry is stored, served, expired
and stored again within a run. Two calls are a leader and a follower or a late
comer; two tokens over a capacity of one evict each other. Three and more callers
are covered by the proofs. `Calls` is a symmetry set.

## 4. The server

`AuthServer.tla` EXTENDS the cache. An RPC slot is a goroutine of the cache:

| Model | Code |
|---|---|
| `cfg`, `New`, `validateMethodSets`, `buildDefaultIntrospector` | `server.Config` and its validation; every configuration `New` accepts is an initial state |
| `minted[t]`, `said[t]` | the claims Zitadel reports for `t` (fixed in the token's life); history of what the introspector has said of `t`: claims, inactive, or a failure. `confirmed` are the tokens of which it gave claims |
| `Arrive`, `Bypass`, `RejectBearer`, `Authenticate` | the interceptor up to the call of `resolve` |
| `Resolving`, `Introspection` | the cache's steps |
| `errOf` | the error `resolve` returned: `ErrUnauthenticated` for an inactive token, any other untouched |
| `Decide`, `decision` | the rest of `authorize` in its order: error, expiry against the clock read now, issuer, audience, registered method, policies; `toGRPCStatus` |
| `Shutdown` | the `Closer` returned by `New` |

A policy is known by the permission it asks for and the error it fails with. A unary
and a stream RPC are the same slot: `authorize` runs once, before the handler.
`Bearer` (section 5) says how the header's token is found.

`AccessControl.tla` is the promise, without cache, flights or order of checks: an RPC
is pending until it is allowed or denied; it is allowed only if its method is open or
its token is confirmed, unexpired, of the right issuer and audience and liked by every
policy *at that moment*. A refusal has a reason, and its code is that reason's:

- Unauthenticated, because there is no token, or it was found inactive, expired, or of the
  wrong issuer or audience (`Unwelcome`);
- what the table of `toGRPCStatus` makes of a failure the introspector had on this very
  token (`Failures`, `StatusOf`);
- what is held against the method (`Objections`: PermissionDenied for one that is not
  registered, else what the table makes of the error of one of its policies), and this only
  for callers who are authenticated.

The second reason is as the code has it, not as server.go:50 has it. The introspectors of this
repository fail with errors that become Internal; one of the application's own may fail with
an error that wraps `ErrForbidden` or carries one of six gRPC codes, and that code then
reaches a caller who was never authenticated (`IntrospectorFailuresAreInternal`, section 14).
The refinement maps `arrived` and `resolving` to `pending` and `Introspection` to `Say`.

Bounds: two RPC slots, one token, five configurations (strict, lax with reflection and
a custom introspector, authentication off, and two that `New` must refuse), a custom
introspector that may also fail with `ErrForbidden` or `NotFound`, five kinds
of claims (wrong issuer, wrong audience, partial and no permissions), four methods
(public, guarded, unregistered, reflection). The clock has two values, around the
token's expiry.

Fairness (`server_live` only): a goroutine that can take a step does, and an
introspection answers or fails. The first is Go's scheduler; the second is the
`defaultHTTPTimeout` of `introspector.go` (a custom introspector or a client without
a time-out would not satisfy it). Time, new RPCs and `Shutdown` are not forced. A
process that has crashed (section 14) decides nothing more, so the property is
relative to `crashed`.

## 5. Policies and bearer tokens

`Policy.tla` is the loop of `All` and of `Any`, one step per policy, over every list of up to
four policies that allow, fail with one of two errors, or are nil; and the two glob
checks over every name, pattern and list within the bounds. `Glob.tla` has
`matchGlob` as the code has it (a literal between an optional star at each end) and
`Wildcard`, the reference in which every star stands for any text: they agree on the
patterns the documentation describes. Names of three letters over an alphabet of two
tell apart prefix, suffix, infix and equality; loops of four policies have a first,
a last, an inner and a skipped one.

`Bearer.tla` composes the client's `withBearer` or `noop` with the server's
`FromIncomingMetadata`. A text is a sequence of classes of runes (the ones the code
tells apart: white for `TrimSpace`, below 0x21 or DEL, and their counterparts beyond
ASCII). Two values and two runes after the scheme reach every case of the code.
The programs of these modules end, so their runs do not check for deadlock.

## 6. Provisioning

`Provisioning.tla` runs `Onboard`, `OnboardHuman`, `ResetHumanPassword` and `Revoke`
(both forms) call by call. `op[o]` is the operation of operator `o`: `pc` names the
remote call that comes next, and the other fields are the code's locals (user id,
project id, minted secret, authorizations found). Every call may take effect and the
operation end nonetheless (`Abort`): a lost answer, a failure, or the death of the
process. An operation that fails leaves the operator with nothing and free to start
another; the fields of `zitadel` are what is left behind.

External assumptions about Zitadel: user names are unique; deleting what is gone answers
NotFound; an authorization needs its user and project; `Foreign` are the authorizations of other
users, there from the start; `ListAuthorizations` returns one page of `PageSize`; deleting several
metadata keys deletes those that exist (`PartialDelete`; the other answer is section 14's
`ProvMetadata`). Inputs are valid: validation is pure and comes first. A client knows its project by
id, by name, or as the only one of the organization (`r.by`): an id or a sole project that is not
there is an error before the first call, a name that is not found is not (`resolveProject`). A
request for the sole project stands for the project it finds; the service's metadata
are kept under that project.

`alone` is history: the operation had no other under way at any time. What concurrent
operations leave behind is promised by nobody, so `AppliesWhatWasAsked` and
`RevokedHoldsNothing` speak of operations that were alone, after any mess of others;
`DeliveredStaysValid`, `PasswordKept` and `OnboardStaysInProject` hold in every
interleaving.

Bounds: two operators, one user name (they are independent), two projects, eight requests (machine
and human, two role sets and passwords, by project name, by id and as the sole project, reset, both revocations). `MaxId
= 4` identifiers let a user be created with a secret and a grant and the grant be replaced, or the
user be removed and created again; then Zitadel refuses, which is one more failure.

## 7. Bootstrap

`Bootstrap.tla` runs `Bootstrap` call by call: project, roles, API application and its
secret, rendering (where the namespace is validated), the action, the read of the flow
and the write of the trigger's list. `script[a]` is the namespace rendered into action
`a`: the text is a function of it. `NameOf` is `actionNameForNamespace`, which is not
injective; the run lets both namespaces share one name. `dedupeOperations` drops operations without
a method before any role is added: one of the requests has such an operation. `EditByHand` is an
administrator who wires and unwires an action of their own at any time, and
`FlowMayFail` lets `GetFlow` fail.

Bounds: two operators, one project, two namespaces and one that is refused, one manual
action. `Boot.cfg` runs these actions as part of the script of section 11's `Setup`, so that
`BootstrapsCompletely` and `WiringKeepsOthers` are checked in its company, too.

## 8. The web application

`WebApplication.tla` runs `EnsureWebApplication` call by call, by several operators and
beside an administrator who creates, edits and deletes the application by hand.

| Model | Code |
|---|---|
| `normalizeWebURI`, `normalizeWebURISet`, `normalizeWebApplicationInput` | the functions of these names; of a URI the model keeps scheme, loopback host, upper-case letters, well-formedness and the path |
| `sameMembers`, `webApplicationMatches`, `Written`, `Requested` | the comparison as multisets, and what the create and the update request carry |
| `Start`, `Lookup`, `Create`, `Update`, `Finish` | the steps of `EnsureWebApplication` between its remote calls |
| `project`, `app`, `apps` | Zitadel: whether the project exists, the application of the name, and identifiers given out |
| `Abort`, `Edit`, `ProjectCreated` | lost answers and dead processes; others |

External: a name is unique in its project; an update names the application by its id and is
refused if it would change nothing. `alone` is the history variable of section 6.

Bounds: two operators, two paths, two identifiers (so that an application that was looked up can be
gone and another one stand in its place), eight requests: production, the same in another order and
case, development, and five that are refused; five edits: reordered, a URI twice, a weakened
profile, an API application of the same name. `Ops` is a symmetry set.

## 9. Paging

`Paging.tla` is the loop of `lookupUserByUsername` and `lookupApplicationByName`
(`kind = "lookup"`) and of `listAllAuthorizations` and `listAllUserMetadata`
(`kind = "all"`), while others create and delete entries anywhere in the list.

| Model | Code |
|---|---|
| `seen`, `offset` | the results appended so far; the next request's offset is their number |
| `Turn`, `Received` | one turn: request, page, and what is made of it |
| `Outcome`, `paginationComplete`, `Ambiguous` | the end of the loop: a second match, the last page, a page that does not advance |
| `totals`, `max` | the server: it reports the right total, none, or too much, and may cut pages shorter |
| `stayed`, `gone`, `came` | history: entries there throughout; whether an entry in front of the offset was deleted, or put there |

An offset cannot notice what moves in front of it. `StayersSeenOnce` and `AsIfAtOnce` say how
far the answer can be trusted, and that nothing else breaks it; `PaginationSafe` (section 14) is the
stronger reading that fails.

Fairness: `WF(ReadPage)`, the caller's goroutine goes on and each request is answered or fails;
others are not forced to do anything and may be at work for ever. Every turn either receives an
entry or ends the loop, and a page that does not advance is an error, so `WalkEnds` needs the finite
set of entries and nothing of the server.

Bounds: three entries, two of them with the wanted name, pages of two; a server that allows
one entry per page and one that allows more than was asked for. So there are walks of one, two
and more pages, short pages in the middle, and totals that are never reached. The walk ends,
so the run does not check for deadlock.

## 10. Verification

`Verification.tla` EXTENDS `Provisioning` and runs `VerifyHumanAuthConfiguration` beside
its operations and beside edits by hand. `Walk`, an INSTANCE of `Paging` over the
authorizations in the order of their creation, is the walk of `listAllAuthorizations`.

| Model | Code |
|---|---|
| `vpc` | the remote call that comes next: `actions`, `flow`, `application`, `authorizations` (once per page), `user` and `metadata` (once per human) |
| `in`, `seen`, `left`, `uid`, `drift` | the locals: input, authorizations received, humans not yet verified, the report |
| `asserts`, `action`, `app`, `inactive`, `altered` | Zitadel, beyond what `Provisioning` has; each as the outcome of its comparison |
| `verifyRoles`, `verifyAccessMetadata`, `validateHumanConfigurations` | the functions of these names |
| `Edit` | an administrator changes a setting, deactivates or deletes a grant, changes a user |
| `quiet`, `standing`, `deleted` | history since the verification started: nothing changed; authorizations there throughout; one was deleted |

`CurrentIsTrue` compares the report with a definition of "in place" that reads everything at once,
in both directions. `OnboardedIsCurrent` is about two components: that what `OnboardHuman` leaves is
what the verification asks for (the model has one namespace for both: the `ClaimNamespace` of the
verification's input and the namespace the client is configured with). `ExcessIsSeen` is what is left when others write.

`ListEnds` says when the walk over the authorizations can be trusted to reach their end: the server
reports a total, or sends as many entries as it is asked for. A server that reports none and cuts
pages shorter ends the walk after its first short page, and the rest is never compared. The
run and the theorems are about servers that satisfy it.

Bounds: one operator at work besides the verification and the edit, which onboards either of two
users (with and without roles and metadata, as a human or as a machine) or deletes one; inputs
with one human, two humans, and a list with one name twice, which is refused; pages of one and a
foreign authorization in front, so that every list of authorizations takes several pages; one
edit.

## 11. The set-up script

`Setup.tla` EXTENDS `Bootstrap`: the script is one of its operators. It bootstraps, onboards a list
of machine users and writes a file with the secrets; it dies anywhere (`Die`), also between a
Bootstrap that has ended and the next step, or between truncating the file and writing it, and is run
again (`Launch`), after `bootstrap-zitadel.sh` has
removed the file or not. `Onboard` is taken by its promise (section 6): a secret is returned if and
only if the user was created, and a failure leaves one of the states of `Partly`.

| Model | Code |
|---|---|
| `step`, `pending`, `held` | where `main` is; specs to do; results so far |
| `user`, `file` | Zitadel's users; `generated-config.json` |

`FileIsUsable` says that what a file promises stays true for as long as it lies there.
Bounds: those of section 7, and two users, with roles and without.

## 12. The client's token

`ClientToken.tla` is the dialling side: `New` with its three outcomes, unary and streaming RPCs,
the token source they share, and the server that judges the token on arrival.

| Model | Code |
|---|---|
| `mode`, `New` | the interceptors `New` returned: pass-through, none (an error), or attaching |
| `holder`, `last` | the mutex and the token of `oauth2.ReuseTokenSource` (external) |
| `Token`, `Issue`, `Receive`, `RequestFails` | `src.Token()`: reuse under the mutex, or a request with the mutex held |
| `withBearer`, `Arrive` | the RPC with its token; the server's expiry check |
| `cancelled`, `rpc[r].over` | the lifetime context given to `New`; the context of an RPC, which `src.Token()` does not know |

Fairness: `SF(Token(r))`, because a Go mutex in starvation mode goes to the one who has waited
longest; `WF(RequestFails(r) /\ lifetime)`, because an HTTP request ends once its context is done;
`WF(withBearer(r))`, a goroutine goes on. Nothing forces the endpoint to answer, so without the end
of the lifetime context an RPC may wait for ever: `DeadlineReleases`, that the end of the RPC's own
context would release it, fails. No document promises it, so it is no disagreement, but whoever
calls with a deadline should know (`client.go:188`).

Bounds: two RPC slots of either kind, two tokens, lifetimes of one (not longer than the margin) and
three, four ticks. A client that `New` refused does nothing more, so the run does not check for
deadlock.

## 13. What is checked and what is proved

| Run | Question | Proved for all constants |
|---|---|---|
| `cache` | races of two calls over two tokens and one place: `OneFlight`, `NoOrphan`, `IntrospectsOnlyUncached`, `BoundedStaleness`, `NotPastExpiry`, `NoRegression`, `SizeBounded` | all of them |
| `server` | the enforcer implements `AccessControl` (`KeepsPromise`), the reasons and codes of refusals included; claims are confirmed; a guarded method is never served as public; types | all of them |
| `server_live` | `EveryRPCDecided` | no (liveness) |
| `policy` | `AllIsConjunction`, `AnyIsDisjunction`, `ShortCircuit`; `StrictMeansCovered`, `RevokingNeverGrants` | all of them |
| `bearer` | `TokenIsTheClients`, `CleanTokenArrives`, `AcceptedIsClean` | all of them |
| `prov` | `AppliesWhatWasAsked`, `RevokedHoldsNothing`, `DeliveredStaysValid`, `PasswordKept`, `OnboardStaysInProject` | all of them, the first two if Zitadel cooperates |
| `boot` | the script with other operators: `BootstrapsCompletely`, `WiringKeepsOthers`, `FileIsUsable` | all of them |
| `web` | `EnsuredIsInPlace`, `UpdatesOnlyDrift`, `WritesAreSafe` | all of them |
| `paging` | `StayersSeenOnce`, `AsIfAtOnce`; `WalkEnds` | all but `WalkEnds` (liveness) |
| `verify` | `CurrentIsTrue`, `OnboardedIsCurrent`, `ExcessIsSeen` | all of them if the list ends (`ListEnds`), `OnboardedIsCurrent` if Zitadel cooperates |
| `client` | `ExpiredOnlyIfSlow`, `OneTokenInUse`; `CancelReleases` | all but `CancelReleases` (liveness) |
| `verify_repair` | a disagreement, see section 14 | |

Each property has a mutant of the code that breaks it (`PROJECT.json`); the mutated
definitions stand next to the ones they replace. The type invariants and the parts of the
inductive invariants (`EntryBounds`, `OrderCovers`, `HeaderInv`, ...) are proved and listed in no
configuration, except `ServerTypeOK`; `LaxOnlyWithoutAllow` is only proved.

Every invariant and every action property of the passing runs is proved, under the hypotheses the table
names. What stays with TLC is liveness
under fairness (`EveryRPCDecided`, `WalkEnds`, `CancelReleases`): it needs ENABLED, which the prover
does not have. Theorems with an operator as parameter cannot be used, so there is no
induction over lists or texts; where a loop or a recursive function has to be followed for any length
(`Without`, the runs of letters of `Wildcard`), the proof takes the least position at which the claim
would fail, which is a theorem about sets of numbers (`NatLessThanWellFounded`, `WFMin`).

### The cache (first part of `AuthServerProofs.tla`)

None of the interesting invariants is inductive alone; `IInv` adds

- `FlightInv`: the singleflight table names exactly the leading calls. It makes the
  leader of a token unique, so nobody can store an entry while a flight introspects;
- `TimeInv`: the leader's reading of the clock is not later than the outcome. This
  is why lifetimes counted from before the round trip bound staleness;
- `OrderCovers` with finiteness of the map: eviction finds a victim whenever the map
  is full, which `Capacity` needs (`Eviction`, `PutKeeps`);
- `PublishInv`: an outcome stored and not yet published is what the cache holds, so
  a hit and a flight never disagree, which `NoRegression` needs.

The only assumption is `CacheAssumption` (types of the constants).

### The server (second part of `AuthServerProofs.tla`)

`Underneath`: whatever the enforcer does is a step of the cache or none, so the cache's `IInv`
carries over. `ServerIInv` adds that the configuration was validated (`Validated`), that `resolve` is
only called for RPCs that need it (`Undecided`), and `HeardInv`: everything cached, shared or handed
on about a token was said by the introspector of that token, and a slot that was told nothing
holds nothing the next RPC could take for its own. Without it neither claims (`NoForgedClaims`) nor the
errors that explain a refusal could be traced through cache and flights. `Refinement` then shows each
action to be one of `AccessControl` or a stutter: `OKMeansAllowed` and `RefusalsAreDue` are the two
directions of `Decide`, the latter with the three reasons of section 4. Configurations, claims,
policies, methods and the errors of a custom introspector are arbitrary; the assumptions are
`CacheAssumption` and `ServerAssumption` (types of the constants, among them that a method's
policies are a sequence).

### Provisioning (first part of `VerificationProofs.tla`)

`IInv` of `Provisioning.tla` holds whatever operations race and wherever they are cut off,
for any operators, names, services, requests and bounds. Beside the shapes of the data
it has three parts:

- `StageInv`: what an operation is, given the call it has come to; that a human is
  what `SetPassword` is called for, and that what onboarding found is in its project;
- `FreshInv`: identifiers in use were given out, and one identifier never means two
  authorizations, not even one that is gone and still in somebody's list. So
  deleting what was listed a while ago deletes just that (`OnboardingStaysInProject`),
  and a new user has no password to overwrite (`PasswordsAreKept`);
- `SecretInv`: a user in creation belongs to one operation, and nobody has been given
  a secret of it. So `AddSecret`, which replaces the user's secret, never
  replaces one that was handed out (`SecretsStayValid`).

`Quiet` is the case of all actions that create, delete and deliver nothing; the others
have a lemma each. The only assumption is `ProvisioningAssumption`: the types of
constants, and that the authorizations of others have distinct identifiers and belong to users that
are not created here.

What an undisturbed operation achieves needs more of Zitadel. `Cooperative` says it: a page holds
all authorizations, and a bulk deletion deletes the keys that exist. Without the one or the other the
properties fail (`ProvPaging` and `ProvMetadata` in section 14). Under it `Undisturbed` proves `UndisturbedInv`:

- `ProjectInv`: a grant is in a project that exists. An onboarding that found no project
  therefore need not reconcile any grants;
- `AloneInv`: an operation that is alone has Zitadel to itself, and has come as far as
  the call it is at says (`OnboardProgress`, `RevokeProgress`): what it listed covers what the user
  holds, before it grants nothing is held, and so on to what was asked for.

Nothing is assumed of what earlier operations left, so `OnboardingReconciles` and
`RevocationIsComplete` are about the repair of any mess of failed and concurrent ones.

### Verification (second part of `VerificationProofs.tla`)

An edit by hand is no step of `Provisioning`, so its invariants have to survive edits, too:
`VerProvisioning` is `IInv` and `HeldInv` (the grant of a user created here has roles, and
metadata are values) under `VerSpec`, and `VerUndisturbed` adds `UndisturbedInv`.

The argument is about the list of authorizations, which grows and shrinks while it is walked.
`Places` and `Order` say what `InOrder` is: each authorization once, the older one first. New
identifiers are larger than all that were given out, so while nothing is deleted the list only grows at
its end (`OrderGrows`), and what was received so far stays its beginning (`BeginningStays`).
`VerIInv` is then

- `LocalInv`: the humans still to be verified are a part of the input, with distinct names;
- `ReceivedInv`: until something is deleted, what was received is the beginning of the list, and once
  the walk has ended it has everything that was there all the time. `WalkTurn` has this from one turn of
  `Paging`, `Rest` from the end of the walk; this is where `ListEnds` is needed;
- `DriftInv`: so far, drift was found if and only if something compared is not in place. `Graded`
  and `Listed` are the humans whose grants and whose metadata were compared. `RolesFound` and
  `MetadataCompared` say for one human that the code's early returns do not hide or invent
  anything, `RolesCompared` that the roles in the list are those in Zitadel;
- `ExcuseInv`: of a human for whom everything is applied only what is excusable was reported;
- `ExcessInv`: while no drift was found, no human compared had more than is expected.

`VerInvariance` proves all of it under `ListEnds`, and `VerifiedIsTrue` (both directions of
`CurrentIsTrue`) and `ExcessIsReported` follow. `OnboardingIsVerified` joins `ExcuseInv` with
`UndisturbedInv`, so that it needs `Cooperative`, too. Inputs, page sizes, operators, edits and the
users' other authorizations are arbitrary.

### Bootstrap and the set-up script (`SetupProofs.tla`)

`IInv` is about Bootstrap beside any others: `Zitadel` (no action is wired twice, and
none of Bootstrap's is wired without its script), `OpInv` (what an operation has done is still there, and
the list it is about to set has its own action and drops none that it read) and `Solitude` (who is
alone has nobody else at work). What Zitadel has only grows (`Grows`), so an operation with
company keeps what it relies on (`Bystander`), and only one that is alone has to be told
that others change nothing. `WithoutProperties` and `UnionProperties` say what the loop of
`unionTriggerActions` makes of a list: the own action, and the others, each once.

`ScriptInv` is about the script: `Underway` (a first run has secrets to hand out, for nobody has
made the application or a user before), `HeldInv` (what `Bootstrap` was asked for is in place, and each
user done with is as the spec says, with the secret that was returned or none) and `FileInv` (the
same of a file that lies there). `FileIsUsable` is not inductive without them, for the file
is written from what was held since long before. `SetupInductive` proves both, for any lists of users,
operators, namespaces and permissions, wherever the script dies. The assumptions are
`BootstrapAssumption` and `SetupAssumption`: types, user names that are distinct in the list, and that
`None` is none of the values it stands beside.

### The web application (`WebApplicationProofs.tla`)

`IInv` is `WantInv` (what is wanted is the normalized request), `IdInv` (an identifier never
means two applications, so what is updated is of the type that was looked at) and `AloneInv`
(what an undisturbed operation has seen still holds). The lemmas before it are about
normalization and comparison: `NormalizedInput`, that the result has the folded URIs of
the input, each once, all safe; and `MatchesMeansDescribes`, that equality as multisets is what the
request describes (`SameBags`, `RangeSize`: a list as long as its set has no
member twice). `NothingUnsafeIsWritten` needs no `alone`: URIs and mode are written together.

### Paging (`PagingProofs.tla`)

Any lists, page sizes and servers. `WalkInv` is about the entries that stayed: in front of the
offset they have been received, behind it not, and none twice; `PrefixInv`, that without movement in
front of the offset what was received is the beginning of the list; `DoneInv`, that an honest
server's last page is the last. `InsertProperties` and `RemoveProperties` say where entries lie
after a change.

### The client's token (`ClientTokenProofs.tla`)

`HolderInv` (the mutex belongs to the RPC that requests, and it requests because the last token is
no longer good), `LastInv` (a token still good is the last one) and `TimeInv` (issued, received,
handed out in this order). The lifetimes and the margin are arbitrary.

### Bearer tokens (`BearerProofs.tla`)

Any number of values and runes. `HeaderInv` says of what the header consists; `TrimProperties`, from
the first and the last position that is not white, that trimming takes nothing else away.

### The policies (`PolicyProofs.tla`)

`LoopInv` is the invariant of the loops: everything before `i` was called unless nil, did
not decide the answer, and `lastErr` is the error of the last failing policy before `i`.
Lists have any length. `ListsAreMonotone` compares two pairs of lists for any matcher, so
`RevocationIsMonotone` does not depend on `matchGlob`.

`StrictIsCoverage` does: `GlobIsWildcard` is that `matchGlob` and `Wildcard` agree on every name and
every pattern with stars at its ends only (`Documented`), of any length. `PrefixByLetters`,
`SuffixByLetters` and `LiesAt...` are what prefix, suffix and substring mean letter by letter;
`CutsInARow` and `MatchesInARow` follow `Wildcard` through a run of letters without a star.

## 14. Disagreements between the code and its documents

Each is refuted by TLC. `verify_repair` is a run of the project; the others are kept to be repeated
by hand, with the configuration named, or with one of a run in which the properties (and the line
`SYMMETRY`) are replaced by the property named.

| Configuration | Property | Document | Code |
|---|---|---|---|
| `VerifyRepair` (run `verify_repair`) | `RepairsExactly` | HUMAN_LOGIN_IMPLEMENTATION_PLAN.md:288: "grant and metadata drift is repaired exactly" | a grant that was deactivated stays so: onboarding again looks at roles only and reports success |
| `VerifyRepair` | `SeesEveryGrant` | HUMAN_LOGIN_IMPLEMENTATION_PLAN.md:23: "reports drift in ... grants" | a deletion during the walk shifts a grant out of the pages, and "current" is reported |
| `Paging` | `PaginationSafe` | HUMAN_LOGIN_IMPLEMENTATION_PLAN.md:20: "exact, pagination-safe" lookups | the same of users and applications |
| `Web` | `RepairIsIdempotent` | HUMAN_LOGIN_IMPLEMENTATION_PLAN.md:291: "creation is idempotent and drift is reconciled" | an operation whose update another one has made meanwhile fails |
| `CacheClose` | `CloseIsHarmless` | cache.go:204: Close is a "no-op today" | it makes the next store panic |
| `CacheChange` | `ChangeWithinTTL` | README:361: a change takes effect "at most CacheTTL later" | followers of a slow flight can be answered from an older state |
| `CacheOldest` | `EvictsOldest` | cache.go:104: "drops the oldest live entry" | can drop the newest: a key stored again keeps its old queue position |
| `CacheOrder` | `OrderBounded` | cache.go:82: "cost is bounded" | the queue grows without bound below capacity |
| `CacheClose` | `FailureIsCached` | README:341: failures are cached for 1 second | a failure slower than a second is stored expired |
| `CacheClose` | `TransportErrorsNotCached` | README:355: "Transport errors are NOT cached" | they are |
| `ServerErrors` | `IntrospectorFailuresAreInternal` | server.go:50: the interceptor "translates them to codes.Internal" | a custom introspector's `ErrForbidden` or gRPC status reaches a caller who was never authenticated |
| `ServerInternal` | `InternalIsServerSide` | interceptor.go:141: Internal is "a server-side failure, not the client's fault" | one client's cancellation is handed to followers, and cached, as a failure |
| `ServerInternal` | `OtherErrorsInternal` | policy.go:19: any other error is Internal | a policy's own gRPC status reaches the caller |
| `Policy` | `AnyNeedsConsent` | policy.go:48: Any "allows if any one returns nil" | Any of nil policies only allows |
| `Policy` | `StarAnywhere` | policy.go:145: `"*" anywhere` | a star in the middle is literal |
| `Bearer` | `NoControlNoWhitespace` | bearer.go:21: "no control characters and no whitespace inside" | only ASCII ones are refused |
| `ProvPaging` | `AppliesWhatWasAsked` | README:143: repeating OnboardHuman "reconciles project roles" | only the first page of all authorizations is read; withdrawn roles stay |
| `ProvMetadata` | `AppliesWhatWasAsked` | README:143: repeating OnboardHuman reconciles "resource metadata" | if Zitadel refuses a bulk deletion because one key is absent, the other survives and success is reported |
| `ProvSecret` | `SecretNotLost` | setup-sdk main.go:6: "idempotent — safe to re-run" | an Onboard that fails after minting the secret loses it; the retry returns none |
| `ProvRevoke` | `RevokeStaysInProject` | doc.go:1: manages "state for a single service" | Revoke deletes the user's grants of all projects |
| `Boot` | `NeverDropsActions` | bootstrap.go:187: "protects operators who have manually wired additional actions" | a failed GetFlow is taken for an empty flow and drops them |
| `BootOrder` | `RewiringIsIdempotent` | bootstrap.go:185: the existing list "with actionID appended" | the action is put in front, which reorders the others |
| `Boot` | `NamespacesCoexist` | setup-sdk main.go:31: "action wiring without clobbering" | two namespaces with one action name overwrite each other's script |
| `Boot` | `ValidatedFirst` | doc.go:35: inputs are validated "before any side effect" | the namespace is validated after project, roles and application exist |
| `Boot` | `ApiSecretNotLost` | setup-sdk main.go:6: "idempotent — safe to re-run" | a failure after CreateApplication loses the API secret |
| `Boot` | `RerunKeepsSecrets` | setup-sdk main.go:6: "idempotent — safe to re-run" | the file of a second run has no secrets: it replaces the only copy by empty ones |

For instance `tlc -config CacheOldest.cfg MCIntrospectionCache`; `Boot.cfg` belongs to `MCSetup`,
`BootOrder.cfg` to `MCBootstrap`, every other configuration to the `MC` module of its component.

## 15. What is not modelled

- Parsing of the introspector's answers and of URLs, TLS and connection set-up, the claim accessors
  and redaction: pure functions or I/O without state of their own.
- The admin client's connection (`client.go`, `api.go`) and its input validation, which is pure and
  comes before the first call.
- Sorting and formatting of the verification's report, and the fields of the action, the application
  and the profile one by one: each comparison is kept as its outcome.
- Tokens without an expiry, and a clock of the client that runs differently from the server's, in
  `ClientToken`.
- Lookups are one atomic call where they are a part of another operation (sections 6 to 10);
  `Paging` has them page by page, for every user of the loop. `ListProjects` and `ListActions`
  (onboard.go:201 and 229, bootstrap.go:150, verify.go:127) ask for one page; it is taken to hold
  all projects and actions of the organization.
- A stream after it was opened: the code authorizes it once and promises no more.
- The example service and generated code.
