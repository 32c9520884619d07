# Triproto launchpad in TLA+

Triproto launches AI agents with an identity and a *standing consent window*: a human operator
opens, pauses or withdraws it at any time, and everything else in the system has to follow. This
directory holds TLA+ models of the parts of the repository that keep that promise, TLC
configurations that check them on small instances, and TLAPS proofs of the most important results
for every instance. Paths are relative to the repository root (`src/`).

Run `tlc -workers 2 -config <run>.cfg <module>` for a run of the table in section 4 and
`tlapm <module>.tla` for a proof module.

## 1. Inventory

### Launch registry, ERC-721 core and ENS leg: `contracts/src`

- **State.** Per agent: owner and approval (`MinimalERC721.sol`), a record (manifest hash, node,
  consent window, listed flag), the ERC-8004 metadata keys, the token URI. Globally: the pad, the
  hire recorders and blessers, the wired `ENSv2SubnameIssuer`. In the ENS leg: the registered
  subnames, some for ever and some until an expiry, and the text records of each resolver.
- **Operations.** `launchAgent`, `register`, `setConsent`, `delist`, `relist`, `setSubnameIssuer`,
  `anchorSubname`, `recordHire`, `bless`, `setAgentURI`, `updateManifestHash`, `setMetadata`,
  role changes, and the ERC-721 transfers and approvals; `issue` and `syncConsent` in the issuer.
- **Interaction.** The registry calls the issuer, which writes the ENSv2 registry and the resolver,
  in the same transaction; events are its only output to the subgraph.
- **Hard.** The window is stored three times (record, metadata, resolver). Three kinds of account
  act on it. `relist` checks only a flag, so it works on ids that do not exist yet. A handoff must
  take every power from the old owner. A name expires without the registry being told, and the pad
  may wire another issuer, of another family, while agents keep the nodes of the last.
- **Correct when** a withdrawn agent is off the marketplace, the copies agree, the window changes
  only by the operator's hand, a name is not taken over before it expires, and nothing survives a handoff.

### Pulse subgraph: `subgraph`

- **State.** One `Agent` entity per id, one `PulseStats`; event rows that are never read back.
- **Operations.** Eight handlers, one per event, in chain order but any time later.
- **Hard.** Several events of one transaction touch one entity; events of ids that were not minted
  arrive for entities that do not exist.
- **Correct when** a caught-up entity equals the record, the totals equal the sums, and every
  withdrawal gets through.

### Consent server: `consent-server`

- **State.** One Durable Object: sessions, burned token ids (jti), consents, ledger events, a rate
  limiter.
- **Operations.** `/v1/consent/begin`, `/v1/verify`, `/v1/consent/deny`, `/v1/consent/check`,
  `/v1/consent/:id`, `/v1/revoke`, `/v1/admin/reset`. The Worker is stateless and calls the object
  several times per request.
- **Hard.** Between two calls of a request any other request can run, and the request can die.
  Expiry is lazy. A reset can fall into a request.
- **Correct when** a token mints at most one consent, a revoked consent stays revoked, nothing is
  authorised outside the active state, and the ledger tells what happened.

### Aqua treasury, BlessingPool, BlessingSwap: `contracts/aqua`

- **State.** Aqua: virtual balances and liveness of each strategy, the treasury's approval and
  balance of each token. Pool and swap: which blessings their own record calls active.
- **Operations.** `bless`, `revoke`, `payWage`; `bless`, `reship`, `revoke`, `swapExactIn` with a
  callback to the taker; anyone may push.
- **Hard.** The contracts keep a record next to the registry's own. Approvals are per token and
  shared by positions. The taker runs arbitrary calls in the middle of a swap, including another
  swap, and calls may revert at any depth. The price is floored twice.
- **Correct when** record and registry agree, an approval stays within its blessing, a gift is
  never worn down by trading, and a revoked gift gives nothing more, even in mid-swap.

### Launchpad page: `web/demo/app.js`

- **State.** The screen, the agent on it, the authority the human gave, and one `wire` record
  (session, device code, id token, consent id, receipt token) that each consent screen resets.
- **Operations.** Navigation, begin, device mint, poll, verify, retry, bless, deny, utility work,
  stop, expiry; all network answers are callbacks.
- **Hard.** Callbacks outlive the screen that asked and look only at the screen's name.
- **Correct when** no answer for one card changes another, and Stop revokes what was granted.

### Pit intake worker and PoolGuard: `workers/pit-intake`, `contracts/aqua/src/PoolGuard.sol`

- **State.** A feed per pit in a Durable Object, clips in R2, rate limits; one slot per human on
  chain.
- **Operations.** `/submit`, `/upload`, `DELETE /entry`, the World proxy, `/aqua/claim`.
- **Hard.** Storage and feed are changed by separate calls; a claim reads, sends, waits and reads
  again, against other claims and a timeout.
- **Correct when** a human holds at most one slot and is told the right one, a feed is what was
  accepted and not removed, and every clip it lists is stored.

### World ID verifier: `integrations/world`

- **State.** In the browser a button's state and an abort controller; on the server a file of
  nullifiers.
- **Operations.** `start`, `cancel` and the callbacks of a chain of promises; `POST
  /api/world/verify`.
- **Interaction.** The button's last fetch is a request to the server; other pages ask it too.
- **Hard.** The file is read before and written whole after an `await`, and may be cut short. A
  cancel aborts only a poll, so a cancelled chain runs on next to the chain of the next start. An
  error that speaks of an abort ends a chain without a word, and the fetches have no timeout.
- **Correct when** a green badge stands for a proof the portal accepted, and a button that ignores
  clicks has a chain at work.

### IDKit gate: `integrations/world-idp`

- **State.** The set of used nullifiers, in the memory of the server (`route.ts`); the page's outcome.
- **Operations.** One `POST` per attempt, which may ask World's portal; restarts.
- **Hard.** Requests overlap at the portal; an answer may be lost after the nullifier was used.
- **Correct when** a nullifier is allowed at most once while the server lives, and for an agent
  whose assurance its credential meets.

### Payment screening: `apps/spector-scan`

- **State.** None beyond one payment: the amount, the service's answer, the verdict.
- **Hard.** Thresholds, gates and missing numbers are combined in a fixed order of cases.
- **Correct when** more risk or more money never gets a laxer verdict, and a service that does not
  answer never gets a payment signed.

### Cohort deployer: `integrations/fetch-cli`

- **State.** A ledger file; the platform's records; the wallet's FET.
- **Operations.** Preflight and gate, one record per token, the ledger at the end.
- **Hard.** Links are paid by a human while the run still creates; a call may fail after it did its
  work; a run may be interrupted before the ledger is written.
- **Correct when** the gate's sum stays right during the run and the ledger names real records.

### The rest

Scripts (`contracts/ens`, `contracts/script`), the x402 rail (`integrations/hedera`), the scanners
of `apps`, pages that render (`web`), documents and vendored libraries. Section 7 says why they are
not modelled.

## 2. Modules

| module | models | built on |
| --- | --- | --- |
| `MinimalERC721` | `MinimalERC721.sol` | |
| `ENSv2SubnameIssuer` | `ENSv2SubnameIssuer.sol` and the ENSv2 doubles it writes to | |
| `AgentLaunchRegistry` | `AgentLaunchRegistry.sol` | the two above |
| `PulseSubgraph` | `mapping.ts`, composed with the registry through a queue of events | `AgentLaunchRegistry` |
| `ConsentLife` | abstract: the life of one identity token | |
| `ConsentServer` | `index.ts`, `do.ts`, `verify.ts` | refines `ConsentLife` |
| `Aqua` | the registry and the ERC-20 approvals, after `MockAqua.sol` | |
| `Gift` | abstract: an amount that is opened once, drawn from, closed for good | |
| `BlessingPool` | `BlessingPool.sol` | `Aqua`, refines `Gift` |
| `BlessingSwap` | `BlessingSwap.sol` with nested callbacks | `Aqua` |
| `Launchpad` | the page's ceremony, `app.js` | |
| `PoolGuard` | `PoolGuard.sol` | |
| `PitClaims` | `POST /aqua/claim` of the intake worker, with the chain between | `PoolGuard` |
| `PitIntake` | the feeds, clips, limits and removals of the intake worker | |
| `WorldServer` | `server.mjs` and its file of nullifiers | |
| `WorldButton` | `verify.js` | `WorldServer` |
| `IdkitGate` | `verify.mjs`, `route.ts`, `page.tsx` | |
| `Screening` | `intercepta-screen.mjs`, `screen.mjs` | |
| `CohortDeploy` | `deploy-cohort.mjs`, `preflight.mjs` | |
| `MCRegistry`, `MCPulse`, `MCConsent`, `MCPool`, `MCSwap`, `MCLaunchpad`, `MCServices` | small instances | |
| `AgentLaunchRegistryProofs`, `RegistrySafetyProofs`, `PulseProofs`, `ConsentProofs`, `PoolProofs`, `SwapProofs`, `LaunchpadProofs`, `ServicesProofs` | theorems | |

### How state and actions correspond to the code

**Registry.** One action per external function, with `caller` for `msg.sender`; guards are the
requires and modifiers, and a function's internal calls (`_syncIssuer`, `_mint`, the issuer's
calls) are part of its action. `emitted` holds the events of the last transaction in order.
`consentContact` and `pitPointer` always travel together and are one value, a *door*. Fields that
are written once and that no function reads (`launchedAt`, `expiry`, `ensTokenId`) are left out of
the record. A name is known by its node, which the issuer's family and the label give (`Namehash`).
What `launchAgent` does with a duration is `Forever`: the UserRegistry keeps a permanent name for
ever, and any other may lapse at any time (`Expiry`), after which its label can be registered again;
the registry is not told and the agent's record keeps the node. `setSubnameIssuer` takes any issuer
(`IssuerChoices`), each with a family and a resolver of its own. The receiver callback of a safe transfer can
revert the transfer or call the registry afterwards as any account can, which the interleaving of
transactions already covers.

**Subgraph.** `Transact` is any registry transaction; its events are appended to `backlog`.
`Index` takes the oldest event through its handler.

**Consent server.** A method of the Durable Object is one step: the object's input gates keep
other events out while it waits for storage. `/consent/begin`, `/verify` and `/consent/deny` are
one action per call of the object, because other requests run between the calls; the pure checks in
between are guards. A begin passes the limiter (`BeginStarts`) before its body is read, so one that
is then refused counts all the same (`BeginRefused`) and one that goes on creates its session
whenever it comes to it, maybe under the next window (`BeginCreates`); `window` and `era` of a
request and of a session remember which window admitted it. `RequestDies` is an RPC that throws or a Worker that is evicted at any of those points.
Tokens are a set: `TokenExp`, `TokenNonce` and `Bindable` say what the signature check would find
in them, so a forged token is simply not a member. The ledger is a count per kind and consent.
Ids are random and never drawn twice.

**Aqua, pool and swap.** A contract call is one action, because a call that reverts changes
nothing; the exception is `swapExactIn`, which is `SwapPulls`, then whatever the taker does, then
`SwapSettles` or `SwapReverts`. `swaps` is the stack of calls that wait for their callback. A
frame keeps the state before it (`undo`), so a revert takes back everything done inside. A revert
of an inner swap may be caught by the outer taker, so `SwapReverts` pops one frame. A strategy
hash stands for the whole struct it is the hash of (pair, fee, steward, blessing, salt). The
output of a swap goes to someone outside the treasury. A blessing of amount zero is a blessing;
pulls and pushes of zero are left out: they change nothing. Amounts are 256 bits wide and virtual
balances 248: `Cast` drops the high bits where the code casts, in `ship`, `pull` and `push`, while
approvals and transfers keep the whole amount. No token has 2^248 units to hold (`MaxHolding`).

**Page.** A *flow* is one run of `attemptLive`: it waits for the health gate, opens a session,
mints a device code, polls it, verifies the token. It has one callback under way at any time, so
it is one record whose `at` says which answer it waits for. What a flow obtains (session, code,
token, consent) bears its number. A click is an action; so is an answer, which comes at any time,
well or badly, on whatever screen the human is by then. Some answers write to the wire of the
moment, as the code does, and that is where cards can mix. A timer of 0 ms is part of the
navigation that set it, a timer of some length is an action of its own. `orphans` are the work
timers whose id a second tap on Run overwrote. Requests whose answer leaves the page as it is
(deny, revoke, claiming a pool slot) have no state here; what they do to the server is in
`ConsentServer`. The model is of a live origin with registered agents: on other origins the page
makes no call and no flow starts. `SeeBlessed` waits for `orphans = {}` because its button is
enabled by a timer of at least 3.2 s and a work timer runs 0.9 s. The enabling timer looks its
button up by id, so one left by an earlier binding screen can enable it sooner: a human who walked
the whole ceremony three times within four seconds is not modelled.

**Claims.** A request is a record whose `at` says what it waits for: the first read of the slot, the
send, the receipt, the second read. A read may come from a node that is behind, so it gives the slot
or none. A transaction is pending, then mined, reverted, or replaced by one of the same nonce, in
nonce order; the wait of a request may end before, and viem resolves it with the receipt of whatever
took the nonce, reverted or not. The checks on the token before the first read leave no state.

**Intake.** `/submit` and `/upload` pass the limiter (`LetIn`), read their body (`Submits`,
`Uploads`, which also stores the clip), then add the entry (`Adds`); `DELETE /entry` takes the entry
out, then the clip. `Dies` (a body that is refused, a store or a bucket that fails, a worker that is
evicted) may come at any of these points. The limiter counts per client; one client stands for all,
so a window that ends is a step of its own. Texts and links are the number of the entry; of a clip's
name it matters only whether it holds two dots in a row (`dotted`): `sanitizeFilename` keeps them,
and `GET /file` refuses such a key.

**World ID.** A *chain* is one run of `start`, a record whose `at` says which promise it waits for.
`cancel` aborts the controller of the last start and nothing else. `RequestReady` takes the
controller of the moment, as the code does, so a chain may be polling under a later one's. An
aborted poll resolves with `cancelled` (`PollAborted`), which the button treats as the human's own
cancel. Any promise of a chain may reject: an ordinary error fails the button (`Throws`), one whose
text speaks of an abort is kept quiet, whether anyone cancelled or not (`ThrowsAbort`), and the
chain is then at `silent`. The store is a plain object, so a request for a name every object
inherits is found in it (`Inherited`); no proof has such a nullifier. A caller
of the server between `LoadsStore` and its answer waits for the portal; `PortalAccepts` writes the
store it read before, with its nullifier. A write cut short is read as an empty file, as
`loadStore` does. The server keeps the nullifier the portal returns and looks up the one of the
request, which the portal's own check makes the same; a success without a nullifier is answered ok
and not kept, and is left out.

**IDKit gate.** A request is at the portal or decided; from the portal's answer to the nullifier
being kept, only settled promises are awaited, so `Decides` is one step. `unheard` is an answer that
did not reach the page. In mock mode a proof without a nullifier skips the replay guard (`NoMark`).

**Screening.** `VerdictOn` is `decideVerdict`, case by case. Amounts are whole numbers of parts of a
millionth (`Millionth` of them), so that `ResolveCap` rounds to the nearest millionth as the code
does, up or down. The policy is not checked by the code and is any numbers here. A trait is known by
the class the policy puts it in. The next payment is external.

**Cohort.** Records are numbered in the order of creation. `HandsOff` is the human who pays for a
record's link, at any time; `Moves` is anything else that happens to the wallet, and `astray`
remembers that FET left the wallet for something else during the run. The ledger is written in one
step: the code writes the file whole.

## 3. Properties and what they are about

- **WithdrawnIsUnlisted, MetadataMirrorsRecord, ResolverMirrorsRegistry**: the one-word revoke,
  seen in each place that stores the window. The resolver follows only while some issuer that
  writes on it stays wired and no other agent's record holds the node: the pad can unwire and
  anchor, and an expired name leaves its node in the record of the agent that had it. The code lets
  this happen, so the property says so (`OnlyResolver`, `Unshared`).
- **WindowChangesAreSigned**: who may change a window, and that the change is announced.
- **IssuedNameStays**: an action property. No step gives a registered name to another agent or
  frees it, the expiry its launch asked for excepted; a permanent name is never freed.
- **BlankUntilMinted, HandoffRevokesDeputies, BalancesCountTokens**: what long sequences of legal
  calls must not reach.
- **PulseMirrorsRegistry, TotalsAddUp, WithdrawalReachesPulse**: what a late indexer shows.
- **TokenMintsOnce, RevokedIsFinal, LedgerAccounts, BeginsBounded, ImplementsLife**: the consent
  server under interleaved and dying requests. A reset between two burns of a token is the one way
  to a second consent, and `TokenMintsOnce` says so through `era`. `BeginsBounded` is about the
  window that admitted a begin: the sessions created while one window runs can be more than the
  limit, because those admitted before may come late.
- **RecordMirrorsAqua, ApprovalWithinBlessing, ImplementsGift**: the pool.
- **GateIsProbed, ConsentScreenAnswers**: nobody waits for the health gate, or looks at a spinner,
  for ever, however probes, second probes and refused begins overlap.
- **WorkIsBlessed, BlessingEnds**: an agent works only under the authority given to it, although
  timers survive a second tap, and the authority ends on its own.
- **ClaimsAreHonest**: "same human, same slot", against overlapping claims, timeouts and replaced
  transactions.
- **ListedClipsAreStored, FeedIsHonest**: feed and bucket are changed by separate calls, and a
  listed clip is still always stored (and can be fetched, but for a name with two dots in a row);
  an entry leaves a feed by the admin's hand or by `Cap` newer ones and never comes back.
- **BadgeIsEarned, StuckOnlyInSilence**: the button over its server. The server may forget a
  nullifier (an overlap writes an older store), and this costs another call of the portal, never a
  false badge. The second says when a button can be stuck: a chain still waits for an answer, or one
  ended on an error that `verify.js:234` keeps quiet. That an attempt ends is not claimed: the
  fetches have no timeout.
- **AllowedOnce, RiskNeverRelaxes, RunIsCovered**: the gate, the screen and the cohort's gate sum.
- **StewardshipIsGranted, GiftNeverShrinks, SwapsSettleAlive**: the swap. `GiftNeverShrinks` is
  about states between top-level swaps: inside a callback the output is out and the input not in.

### Seen while modelling

Behaviour of the code that a reader of its comments may not expect. The four in `findings` of
`PROJECT.json` are shown by a run; these are read off the source:

- `mapping.ts:100` counts an agent that is launched in `totalRegistered` too; `schema.graphql:139`
  keeps the two totals apart.
- `index.ts:205` of the intake worker drops the oldest entries at the cap; a clip they named stays
  in the bucket, and no request can remove it.
- `verify.js:120` calls success sticky. A forced `emit` is not held by it: a cancel after the
  success, or the late answer of an earlier chain, replaces it. `verify.js:234` keeps quiet any
  error whose text holds `abort`, also in a chain nobody cancelled, and the button stays as it was.
- `index.ts:550` of the intake worker refuses a key with two dots in a row, and
  `sanitizeFilename` keeps them: a clip named `clip..mp4` is stored and listed and answers 404.
- `server.mjs:97` looks a nullifier up in a plain object: a request for `constructor` is answered
  ok without the portal, and keeps nothing.
- `BlessingPool.sol:107` sets the approval of a token to the amount of the newest position on it, so
  a smaller blessing leaves an earlier live one with less approval than it holds, until the next.
- `verify.mjs:146` says that a proof must carry a nullifier; the mock path accepts one without. An
  allow whose answer is lost has used up the nullifier, so the human's next attempt is refused until
  the server restarts.
- `intercepta-screen.mjs` counts an answer without a numeric score as 0; the always-ask amount does
  not apply to an unknown amount; a fixed `capAmount` may exceed the amount it caps,
  and a share of it may, by the rounding.

## 4. Runs

| run | module | shows | states |
| --- | --- | --- | --- |
| `registry` | `MCRegistry` | the registry's nine properties with two identities, one label in two families, names that expire, a pad, two owners and a deputy | 232k |
| `registry_lookup` | `MCRegistry` | violation: after a name lapsed and was launched again, a flip by the agent that had it rewrites what a lookup answers | |
| `pulse` | `MCPulse` | the subgraph behind the whole registry, with hires, blessings, role changes and the issuer wired or not; liveness of a withdrawal | 798k |
| `consent` | `MCConsent` | the server's safety with two requests in flight, begins included, one reset, one denial | 1.2M |
| `consent_life` | `MCConsent` | the server refines `ConsentLife` | 606k |
| `consent_exactly_one` | `MCConsent` | violation: a request that dies after the burn leaves a token that never mints | |
| `consent_denied` | `MCConsent` | violation: a denial that arrives while a verify is past its check does not stop the grant | |
| `pool` | `MCPool` | two wage positions over one treasury, amounts wider than a virtual balance; refinement of `Gift` | 41k |
| `swap` | `MCSwap` | three gifts, swaps nested two deep, re-ship and revoke inside callbacks | 1.9M |
| `launchpad` | `MCLaunchpad` | two cards and two attempts to go live, every answer early, late, failed or on another screen; two liveness properties | 282k |
| `launchpad_leak` | `MCLaunchpad` | violation: a begin sent from one card is answered on the next card's consent screen and puts its session there | |
| `services` | `MCServices` | claims, feeds, World button and server, IDKit gate, screening and cohort, each with overlaps, failures and restarts | 1.7M |

The four violations are disagreements between the code and what a comment or a README
says of it; `PROJECT.json` quotes each line. None of them is about funds that can be taken: they
are a retry that must use a new token, a denial that comes too
late, a lookup of a name that changed hands, and a card that shows the session of the card before it (the
server then refuses the verify, because the session is another agent's).

### Bounds, and why they are enough

- `registry`: `MaxAgents = 2` (every property relates at most two agents), two issuers on
  one resolver, so that one label has two nodes: two agents can clash on a name, the pad can change
  the issuer, and a node can be anchored by hand or cleared; permanent names and names that lapse;
  one door, no free metadata notes. The pad is fixed by `MCInit` and the roles are empty because
  `pulse` exercises them. The owners are symmetric, and so are the issuers with their nodes. `MCView`
  drops `emitted`, which only the action property reads, in the step that writes it.
- `registry_lookup`: the same without anchors, every launch timed.
- `pulse`: one agent, `MaxEvents = 6` posted events: a launch takes two (three with a name), a
  withdrawal two and a relist of a withdrawn agent two, so a withdrawal and the relist that resets it
  can both be waiting when the indexer comes to the first.
- `consent`: two request slots, two sessions, two tokens (one that echoes the nonce of a session and
  one without), `MaxTime = 1` with a token that expires at 1, `MaxConsents = 2`, `MaxResets = 1`,
  `MaxDenials = 1`. The properties speak of one token, one consent or one session; a second of each
  lets them interfere. One begin per window of one tick, so that one admitted in a window creates its
  session in the next, beside that window's own. `consent_life` lifts the limit (`BeginLimit = 0`,
  which `BeginsBounded` says nothing of) and trades the reset for a longer clock with skew, so that a token
  past its `exp` is still accepted and expiry happens in all its places.
- `pool`: two positions on the same pair, blessings of 0, 1, 2 and 5 of each token under virtual
  balances of two bits (`Uint248 = 4`), so that 5 is recorded as 1; calls of 1 and 2 (`MaxAmount`), a
  treasury of 2 and at most 3 (`MaxHolding`), so that balances and approvals run out. The view drops
  `paid`, which `ImplementsGift` reads in the step that pays; tokens, and positions with their
  agents, are symmetric.
- `swap`: `MaxDepth = 2`, `MaxSwaps = 2` swaps begun, gifts of 4 or 9 under virtual
  balances of three bits (`Uint248 = 8`), so that 9 is recorded as 1, inputs of 2, fees of 0 and
  40%, so that both floors cut. Three strategies: one, its re-shipped form, and one under another
  blessing. The two tokens are symmetric.
- `launchpad`: two cards and two flows (`MaxFlows = 2`; each entry to a consent screen and each tap
  on a begin's retry card starts one), so that what one left under way meets the other. Polls,
  retries of a device code and probes have no bound.

- `services`: the six services share no state, so a behaviour picks one (`service`) and the run
  explores their sum. Claims: two requests, two humans, three transactions, so that one is
  replaced and one reverts. Intake: two pits, `Cap = 2` and three entries, so that one falls off;
  two workers; one door without limit, one that admits two and one that admits one. World: two
  starts, one cancel, three callers (the button's two and one elsewhere), two nullifiers, so that
  an overlap loses one, and a name the store's object inherits. Gate: agents that need 5 and 1, two nullifiers, two requests, one restart,
  both configurations. Screening: the scores at and below each threshold (0, 14, 15, 40, 70) and
  amounts at and above the always-ask one, capped at 90% of it in quarters of a millionth, so that
  the rounding goes both ways. Cohort: two tokens at fee 2 and buffer 1, up to 6 FET,
  three records, so that a second run follows an interrupted one.

`CHECK_DEADLOCK FALSE` is set where the system really stops: the registry's model stops only at its
bounds (an id that cannot be minted, an event that cannot be posted), the consent server stops when
time and ids are used up, a service stops at its bounds of entries, transactions, starts or
records, and a docked strategy hash can never be shipped again, so pool and swap
come to an end.

### Fairness

`PulseSpec` assumes weak fairness of `Index`: graph-node polls the chain and runs the next handler
as long as it is up. `LaunchpadSpec` assumes weak fairness of `ProbeAnswered`, of `Answered(f)` for
each flow and of `Expire`: `wireFetch` and `proxyFetch` call back after 6 s and 8 s at the latest,
whatever the network does, and the browser runs due timers. Which answer comes is not assumed, so
a code may be pending for ever. The World button gets no fairness: its fetches have no timeout and
may hang. Nobody is assumed to send a transaction, tap a button or settle a
swap. Everything else is safety and holds without fairness.

## 5. Proofs

All theorems hold for every value of the constants under the named assumptions of the modules.

- `AgentLaunchRegistryProofs`: `TypeCorrect`, one lemma per action.
- `RegistrySafetyProofs`: `RegistryInvariant` is the inductive invariant. None of the safety
  properties is inductive alone: that a withdrawn agent is unlisted needs that ids not yet minted
  are blank (a launch overwrites the record, a relist does not need the id), and that a registered
  name belongs to a minted agent anchored at its node needs that ids grow with `totalAgents`. The
  invariant is `TypeOK`, a condition on the storage of each agent (`AgentOK`) and `NamesOK`. From it: `WithdrawnStaysUnlisted`,
  `MetadataFollowsRecord`, `UnmintedIsBlank`, and the action properties `NamesStay`,
  `HandoffLeavesNoDeputy` and `WindowChangesAlwaysSigned`. `ResolverAlwaysMirrors` adds
  `ResolverInv`: where every issuer writes on one resolver and none is unwired, some issuer is wired
  as long as a name is registered, so each flip is written through; an anchor once set stays, so a
  name that is shared stays shared until it expires.
  `BalancesAlwaysCount`, for the ERC-721 core: a mint or a transfer changes the owner of one token
  (`TokenSteps`), which moves one from the set of tokens an account holds to another (`HeldMoves`).
- `PulseProofs`: `PulseInvariant` is about the events not indexed yet. For each field of a minted
  agent, either the last unread event that sets it sets what the registry holds (`LastWord`), or no
  unread event sets it and the entity shows what the registry holds. It also says when an entity may
  be missing: the agent's registration is unread, with at most relists of its id before it. A
  transaction is judged by what it emits (its last word on a field is what it wrote), a handler by
  the event it takes. With nothing unread this is `PulseAlwaysMirrors`; `PulseTyped` falls out.
  `TotalsAlwaysAddUp`: the handlers drop a hire or a blessing of an agent they cannot load but count
  it in the totals, so the two agree only because no such event is read before its agent's entity is
  there (`NextEvent`); then entity and total gain the same (`IndexCounts`). That a sum over agents
  grows by what one of them gains (`SummedGrows`) is proved on the definition of the fold, by the
  least number of agents for which it would fail (`LeastOf`).
- `ConsentProofs`: `ServerInv` is the inductive invariant. `TokensHeld` gives each burned token one
  holder within an era, the request about to write its consent or the consent itself, which is why
  two requests that overlap cannot both mint; `GrantsPending` and `LedgerBlank` say that what is
  about to be entered in the ledger is not there yet. From it `ServerTyped`, `TokensMintOnce`,
  `LedgerAlwaysAccounts`, `RevokedStaysRevoked` (an action property), and `ServerImplementsLife`:
  under `MaxResets = 0` there is one era, so the `CHOOSE` in `Life` has one candidate, and each step
  is one step of `ConsentLife` (`BurnSpends`, `PutGrants`, `ConsentCallMovesLife`) or a rest.
  `BeginsAlwaysBounded` counts, for each window, the sessions it admitted and the requests it
  admitted that may still create one (`Admitted`): every window keeps within the limit, the running
  one has counted its own, and none has the closing time of a window not yet opened (`AdmittedInv`).
  That needs a window longer than nothing, which `config.ts:58` grants (a window of 0 seconds reads
  as the default, 60).
- `PoolProofs`: `PoolInvariant` adds one conjunct to the checked invariants, `NewestTrades`: the
  position an approval was last given for trades that token. Without it a blessing of another pair
  could seem to change a position whose approval it does not overwrite. From it
  `PoolRecordMirrors`, `ApprovalStaysWithin`, and `PoolImplementsGift`: each call of the pool is one
  step of `Gift` (`BlessOpens`, `RevokeCloses`, `WageDraws`, `TopUpAdds`), a deposit is a stutter.
  `PoolTyped` falls out. The casts keep a recorded amount no larger than the one approved for it,
  and a pull takes the whole amount off a balance because what is paid out is less than 2^248.
- `SwapProofs`: `QuoteKeepsProduct`: for every fee up to 100%, all balances and every input, the
  quoted output is within the balance and leaves the constant product no smaller, in spite of the
  two roundings. `SwapInv` is the inductive invariant: the state is `Sound` under all open swaps,
  and the state each frame would restore is sound under the frames it is nested in, which is what
  lets a revert at any depth keep it. Sound means: registry and record agree (`Registered`), a gift
  no frame is on holds its product (`Kept`), and a gift under an open swap would hold it if the
  input owed were there (`KeptOncePaid`); the lock makes that frame the only one on its gift. From
  it `SwapTyped`, `SwapRecordMirrors`, `StewardshipAlwaysGranted`, `GiftNeverShrinksAlways`, and
  `SwapsSettleOnlyAlive`, which also needs that more than nothing is owed.
- `LaunchpadProofs`: two inductive invariants. `PageInv` adds to the types `TimersOfCard`: the
  named work timer exists on the utility screen only and is of the card's agent, an orphan may
  outlive that screen but is of the card's agent on it, and none is left when a blessing is shown.
  That is what makes the code's check of screen and authority enough: it gives `WorkAlwaysBlessed`.
  `FlowsInv` adds to the types that a retry card names a flow, that a poll has a code, and
  `GateIsProbed`; it gives `LaunchpadTyped` and `GateAlwaysProbed`.
- `ServicesProofs`: `ClaimsAreHonestAlways`, from: a claim that is under way has a human, a
  transaction sent has one, and an index answered is the slot held. `RiskNeverRelaxesAlways`, for
  any policy: a decision is the verdict of the answer and the amount at hand (`DecisionIsVerdict`),
  verdicts grow with risk and money, and rounding adds half a millionth at most (`RoundedBelow`). `RunIsCoveredAlways`, for any fee, buffer and number of
  tokens: records are numbered in order, the run's links are its own records and no more than the
  tokens done (`RecordsInOrder`, `LinksAreReal`), and the gate holds (`GateHolds`).
  `BadgeIsEarnedAlways`: that a button's verdict is about a nullifier the portal accepted needs that
  a request bears the nullifier of its chain (`NamedRequests`) and that file, snapshots and answers
  vouch only for proved nullifiers, or inherited names no proof has (`FileIsProved`), however the
  file is overwritten. `StuckOnlyInSilenceAlways` is inductive with the types: each step that puts
  the button to work leaves the chain that took it at work.
  `AllowedOnceAlways` is inductive with the types. `IntakeInvariant` is about the numbers that
  entries and clips bear: a number is with one request, in one place of one pit's history, or taken
  out, and these exclude each other (`WorkerInv`, `PitInv`). So a request that deletes a clip deletes
  one no feed shows or will show: `ListedClipsAlwaysStored`. For `FeedsAlwaysHonest` a feed must be a
  `Selection` of the history: the entry at place `i` of the feed has at least `i - 1` newer ones in
  the history, which is not in the property but is what makes an entry dropped at the cap older than
  `Cap` others, whatever removals made room before. `SelectionAdds` and `SelectionRemoves` are the two
  methods of the Durable Object.

**Only model-checked.** The three liveness properties (`WithdrawalReachesPulse`, `BlessingEnds`,
`ConsentScreenAnswers`): TLAPS has no rules here for liveness under fairness.
Every invariant and action property that a passing run checks is the subject of a theorem. The
library's induction rules cannot be used (they take a predicate as a parameter), so the five
properties that are about sums, cardinalities and lists are proved without them: by what one step
does to a set or a list, and for the fold over agents by a least counterexample, whose existence is
a fact about a set of naturals.

## 6. Plan

1. Done: registry, ERC-721, ENS leg, subgraph, consent server, Aqua, pool, swap, with the runs and
   theorems above.
2. Done: `Launchpad`. Left: the page composed with `ConsentServer`, for what neither shows alone: a
   verify that times out in the page and is minted on the server, after which Stop has no receipt
   token to revoke with, and a return to the consent screen, which drops a consent the wire held.
3. Done: `PoolGuard`, the claims and the feeds of the intake worker; the World button and server;
   the IDKit gate; payment screening; the cohort deployer; the proofs of the consent server.
4. Left: the page composed with `ConsentServer`, for the two hazards section 7 names.
5. Done: the swap's properties from an invariant over the frames of `swaps`, and
   `WindowChangesAreSigned` and `ResolverMirrorsRegistry` from `RegistryInv`, and
   `PulseMirrorsRegistry` from an invariant over the events not indexed yet.
6. Done: the properties about sums, cardinalities and lists (`TotalsAddUp`, `BalancesCountTokens`,
   `BeginsBounded`, `FeedIsHonest`, `ListedClipsAreStored`).

## 7. Not modelled

- **ERC-20 tokens, the deployed Aqua, ENSv2 and World services**: their code is not here. What the
  repository's own code relies on is modelled from its test doubles and interfaces, and the map
  marks what is external.
- **Views**, logging, CORS, JSON shapes, HTML: no state.
- **ENS and deploy scripts**: sequential scripts run by a person; their effects on chain are
  transactions the models already allow.
- **The page's last two hazards** (`app.js:323`, `:334`): a verify body built before its session, and
  a verify that times out in the page and mints on the server. They need page and server in one model, whose instance is beyond the
  bounds a run has; `Launchpad` allows each of these steps, and no property speaks of them.
- **Hedera rail**: configuration of a third-party payment middleware.
- **Scanners** (`apps/`, other than the screen of a payment): text processing without state.
- **`contracts/lib`**, vendored scripts, assets and documents.
