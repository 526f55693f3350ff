# A verification project for liteSoroban

liteSoroban is a Stellar ledger inside the process of a TypeScript test. Its
classic layer (`src/classic.ts`) is a port of what stellar-core does to a
transaction before and after the contract runs; the contract itself is run by
the real Soroban host, compiled to WebAssembly (`crates/host-wasm`). This
project models the program as TLA+ modules, checks them with TLC on small
instances and proves what matters most with TLAPS for every instance.

Paths below are relative to the repository.

## The system

| Component | State it keeps | Operations | Talks to |
|---|---|---|---|
| Classic transaction layer, `src/classic.ts` | none of its own: account entries live in the ledger; a `SignatureChecker` per envelope | `applyTransaction`, `fundAccount`, `checkSignature` | reads and writes entries of the ledger, calls its `send` |
| Soroban ledger, `SorobanEnv` of `crates/host-wasm/src/lib.rs`, wrapped by `Ledger` of `src/index.ts` | the store (entry and TTL per key), ledger sequence, timestamp, nonce generator, module cache, settings, snapshots | `send`, `simulate`, `put_entry`, `remove_entry`, `advance_ledgers`, `set_timestamp`, `snapshot`, `restore`, settings | the host crate |
| Fee arithmetic, `crates/host-wasm/src/fees.rs` | fee settings | `compute_resource_fee`, `compute_rent_fee`, size limits | the host crate's formulas |
| Host crate, soroban-env-host (external) | none between calls | `invoke_host_function` | gets the footprint's entries, returns changes |
| In-process RPC server, `src/fake-rpc.ts` | submitted transactions, event log, counters | `simulateTransaction`, `sendTransaction`, `getTransaction`, `getEvents`, `getLedgerEntries`, friendbot | a ledger, through the facade |
| Facade, `src/litestellar.ts` | validation switches, cached payer, salt counter | `deployContract`, `invokeContract`, `sendTransaction`, `snapshot`, `restore`, `sandboxed`, `warpToLedger` | ledger, classic layer |
| Fixtures, `src/fixtures.ts` | none | wallets, adopted accounts, trustlines, tokens | writes entries, calls simulate and send |
| Authorization round trip, `src/auth.ts` | none | `signAuthEntries`, `authorizeAndSend` | simulate, await the signer, simulate again, send |
| Settings loaders, `src/cost-params.ts`, `fee-settings.ts`, `state-archival.ts` | none | one-shot reads of an RPC server | settings of the ledger |

The classic layer and the ledger are synchronous: `applyTransaction` validates,
charges, runs and refunds in one call that nothing interleaves. What is hard
there is not threads but the order of effects on shared entries (the payer's account is
written by the sequence bump, the fee, the contract and the refund, in that
order), what survives a failed operation, what a long history of legal calls
(re-funding an account, going back in time, restoring a snapshot) does to
invariants that hold on a network, and the checks' many numeric edges. Above
them, tasks do interleave: applications that talk to the RPC server between
their requests, and authorization round trips while a signer is awaited; the
ledger may change, or go back in time, between a look at it and what is built on
that look. And two pieces of state are outside a snapshot: the RPC server's
records and events, and the facade's payer and salt counter, whose salts a test may choose too. `PROJECT.json` lists each hazard
with its line and the property that watches it.

What makes each component correct:

- *Classic layer.* No transaction is applied twice, none without the weight it
  needs; the fee reported is the fee paid and lies within the bid; a rejection
  changes nothing and a failed operation only its sequence and fee; reserves
  survive; archived entries come back by restoring alone.
- *Soroban ledger.* A failed call changes nothing; TTLs only grow; restore
  brings back exactly what the snapshot held, caches included.
- *Fees.* What is charged for declared resources bounds what is consumed.
- *RPC server.* A hash has one fate, in the ledger and in the server's record;
  polling ends; the event log agrees with what was applied.
- *Facade and fixtures.* Isolation: what runs inside `sandboxed` leaves no
  trace; what the facade remembers fits every ledger it may go back to; tokens
  and sub-entries add up.
- *Round trip.* A signed authorization is used at most once, and concurrent round
  trips do not get in each other's way.

## Modules

| Module | Models | State |
|---|---|---|
| `Signatures` | `SignatureChecker.checkSignature`: the pass per signer type (`Verified`), the match of a signature against the signers left (`Matching`, by index; the first counts), capped weights, the early return (`done`). `HasWeight` is the declarative reading it is checked against | operators |
| `SignatureChecker` | one checker object over the checks of one envelope | `signatures`, `used`, `checks`, `verdict` |
| `Envelopes` | what is decided from an envelope alone: fees, shape, declared resources, footprint of the TTL operations | operators |
| `FootprintTtl` | `applyExtendFootprintTtl`, `applyRestoreFootprint`, `moveTtls` | operators |
| `HostCalls` | what the classic layer may take an invocation to leave behind, and what that costs; `ClassicTx` uses it, `HostLedger` is shown to keep to it | operators |
| `ClassicTx` | `applyTransaction`, `fundAccount`, `advanceLedgers`, `setTimestamp` over one ledger | see below |
| `TxLedger` | the abstract specification: what a ledger promises the sender of a transaction | `seqNum`, `feesPaid`, `consumed` |
| `HostLedger` | `SorobanEnv`: `send` with its auto-restore, direct writes, the clock, TTL preflights and the operations built from them, snapshots, the module cache | see below |
| `RpcServer` | the RPC server on top of `ClassicTx` (which it extends), the applications that poll it, a reader of its events, and the test that owns the ledger | see below |
| `LiteStellar` | the facade, its fixtures and the authorization round trips over a ledger reduced to what they touch | see below |
| `ClassicTx_proofs`, `HostLedger_proofs`, `RpcServer_proofs`, `LiteStellar_proofs`, `LiteStellarTokens_proofs`, `SignatureChecker_proofs` | the theorems about the module each is named after | |
| `SignatureTheorems` | what one signature check computes, for lists of any length | |
| `FoldTheorems` | what the folds of the community modules compute: over a sequence, over the domain of one, and sums over a finite set | |
| `MCSignatureChecker`, `MCClassicTx`, `MCHostLedger`, `MCRpcServer`, `MCLiteStellar` | the instances TLC checks | |

### ClassicTx and the code

`accounts` is the account entry of each id in the store (balance, sequence,
thresholds, signers, the v3 extension's `seqLedger` and `seqTime`), or `None`.
`entries` is the TTL of each Soroban entry in the store; an archived persistent
entry stays there, expired, as in the code. `ledgerSeq` and `timestamp` are the
ledger's. `outcome` is the `TxOutcome` the last call returned. Three history
variables record what no single state shows: `applied` (what was applied since
its source was funded), `credits` (what each account was given and received, so
that `FeesPaid` is what it lost to fees) and `fundings` (a bound).

An action is one call. `Apply(e)` (the effects `ApplyEffects(e)`, within the
bound on ledgers) and `Reject(e)` together are `applyTransaction`: `Problems(e)` lists every condition in the order the code
tests it, with the code and the nominal fee it is reported with, and
`Rejection` reports the first that holds. An envelope with none is applied:
`Committed` bumps the sequence and debits the payer, `OpResults` runs the
operation on what that left, and `Settled` refunds on what the operation left.
The host is nondeterministic in what the code lets through (`HostResults`): it
may fail for any reason, must fail while the footprint names an archived
persistent entry or when rent and events exceed the refundable fee, and
otherwise leaves each footprint key in a TTL the host may give it (`CallTtls` of
`HostCalls`: any between what it has, or the shortest life when it is created,
and the longest; `HostLedger` has the reasons) and may make one of the native transfers the envelope's account entries allow.
`ClassicTx` does not follow the sizes of entries from call to call: a TTL
operation may find any of `Sizes`, and an invocation may leave any (`CallRents`
takes its rent over all of them). A native
transfer respects the sender's reserve and the receiver's limit, as the native
asset contract does.

Data is abstract. A signature is who signed what; a hash is a name, and two
envelopes with one hash agree on source and sequence (`HashAssumption`); what a
resource declaration costs is a field of the envelope, and what changes of size
and TTL cost is the constant operator `RentFee` (the host crate's formula). v0 envelopes,
which the code refuses outright, are left out.

### HostLedger and the code

`store` is the entry of each key, a value and the last ledger it is live in;
`ledgerSeq`, `timestamp`, `prngCounter` and `snapshots` are the fields of
`SorobanEnv`, and `moduleCache` is the set of contract code its cache holds.
`outcome` is what the last call or TTL operation returned. Two history
variables: `taken` is the ledger as it was at each `snapshot()`, and `quote` the
last TTL preflight while nothing was written since.

`Send` is the whole of `send`. The footprint loop is `Present`, `GivenTtl`,
`DiskBytes` and `FailsBeforeHost`: which entries are handed over, with which
TTL, and what fails before the host runs. `PreparedCache` tops the cache up and
takes restored code out, whatever becomes of the call. The host then refuses an
entry whose TTL is past, fails, or completes with any of `HostRuns`; `Verdict`
is `check_written_entries` and `consume_refundable`, and `Landed` the write
loop. `SendEnvelope` is the same call as `applyTransaction` makes it, with no
restored indices. The host itself is external: from what it is handed, it may
create entries with the shortest TTL the network allows or any longer one up to
the maximum (a constructor may extend what it creates), rewrite in any size or
remove what is read-write, keep a TTL or extend it to any ledger up to the
maximum, and nothing else: `extend_ttl` sets the smaller of what it is asked for
and the maximum (`test/validation/ttl-archival.test.ts:198`). The size of an
entry is that of its value (`SizeOf`). `RunChanges` is `extract_rent_changes`:
each entry left behind, with the size and TTL it was handed over with, none if it
was absent or restored; those that live longer or have grown pay
(`RentOfChanges`).

`SimulateTtl` is `simulateExtendTtl` and `simulateRestore`, in the open ledger
or in the last closed one as the RPC server asks for; `SubmitQuote` applies the
quoted operation by the classic layer's own rules (`FootprintTtl`), so that the
two are checked against each other. `simulate` of an invocation is modelled by
what it leaves behind, a step of the nonce generator; what it returns is not.
The archival and fee settings are constants, as a test fixes them at its start.

A u32 keeps its width: `U32Max` stands for 2^32 - 1, `advance_ledgers`
saturates there, and a TTL crosses from the classic layer into the store modulo
`U32Max + 1`.

### RpcServer and the code

`RpcServer` extends `ClassicTx`: the accounts, entries, clock and histories are
the ledger the server is attached to, and its submissions are `Reject` or
`ApplyEffects` of that module. `submitted` and `eventLog` are the server's map
and array; neither is in a snapshot, and `snapshots` keeps the ledger alone (the
records are kept with it as history, to say what was recorded since). `past` is
the history of the ledger as it is: what was applied to it and which accounts the
test funded over, in order, the same envelope as often as it was applied; a
return to a snapshot sets it back with the ledger.
`SendTransaction` is the whole handler: submit, refuse with ERROR or log the
events, store the record and close the ledger. `Friendbot`, `GetEvents` and
`StatusOf` are the other handlers applications depend on. `loose` is a history:
the hashes whose effects the test itself has undone, by funding their account
over or by going back; records may rightly differ from the ledger for those.

An application is external, modelled the way the SDK and the repository's tests
use the server: look accounts up, ask friendbot for one that is missing, build a
transaction on the sequence number read, submit, poll; while it waits it may
submit the same envelope again, and after an ERROR to its first submission it
builds another. Each of these is a step of its own, so that what another
application or the test does comes in between. The reader asks for the events
after the latest ledger it was told of. `simulateTransaction` changes nothing
that is modelled here and is part of `Build`.

### LiteStellar and the code

`ledger` is what a snapshot covers, reduced to what facade and fixtures touch:
sequence, nonce generator, sub-entries of each account, trustlines, deployed
contracts and asset contracts, the nonces taken. `payer`, `saltCounter`,
`wallets` and `tokens` are what the facade and the test hold outside of it.
Histories in the ledger go back with it: what was minted, the authorizations
used and how many calls they authorized, the trustlines an account does not
count.

A synchronous call is one action, with all its simulations and sends; it may fail
half way and leaves what the code leaves (`Minted`, `Transfer`: the trustline
stays). `authorizeAndSend` is `Begin` up to its first await, and `Answer` or
`SignerFails` after it; any number run at once. `sandboxed` is `EnterSandbox`,
then whatever steps its body is, then `LeaveSandbox`. What waits goes on only
outside sandboxes, because a sandbox runs to its end (or its body's first await)
before the event loop turns: so a round trip begun inside one is answered after
its ledger is gone, which is what the code does. An authorization is the nonce
drawn and its expiry. All authorizations are of one account, the case in which
nonces can collide. The host decides about them: `Expired`, `Accepted` and
`Used` are external, the life of a nonce entry is `send`'s (`Taken`).

`Deploy` covers `deployContract` and `deployFromHash`: the salt is the counter's
or any the test gives, the counter's next ones included, and a second deployment
to the same address fails, its draws made and its salt spent; `Fund` covers `airdrop`,
`fund`, `preFundedWallet` and `adoptAccount`, with a new key pair or one the test
has; a token's own `trust` does what `Trust` does or nothing.

## Runs

| Run | Question | States | Result |
|---|---|---|---|
| `signature_checker` | do the passes decide what the weights decide, and consume only what was asked for? | 69,352 | holds |
| `classic_replay` | is anything applied twice or unauthorised; does the path implement `TxLedger`? | 12,891 | holds |
| `classic_fees` | do the books balance, do reserves and the archive hold, does a failure only pay? | 20,919 | holds |
| `host_sends` | does a failed call change nothing, does the archive open by restoring alone, is a TTL quote enough, does an invocation do what `ClassicTx` takes it to? | 10,656 | holds |
| `host_time_travel` | does a return in time give the ledger back, and does the cache it leaves alone matter? | 234,822 | holds |
| `rpc_server` | do records and ledger agree, is no job done twice, does polling end, is each event read once? | 110,398 | holds |
| `facade` | do sandboxes, default salts, nonces, tokens and sub-entries survive every order of calls? | 1,164,133 | holds |
| `envelope_archived` | does an envelope that marks its archived entries get them restored? | | violated |
| `stale_restore_mark` | does a call leave live entries their life? | | violated |
| `resubmission` | does ERROR mean that a transaction was not applied? | | violated |
| `salt_collision` | is a default salt free, whatever salts the test chose? | | violated |
| `lost_payer` | is the default payer's account there? | | violated |

*Bounds.* Signatures: up to three from five, two checks in a row, seven signer
lists on both sides of the weights 1, 2 and 255 and of every signer type. One
check more repeats the second from an already reachable `used`; with three
signatures a list holds a needed, a repeated and a superfluous one. Replay: two
accounts, three fundings (both accounts once and one again), two ledgers, and
twelve envelopes that differ in sequence (strict, relaxed, one they share),
source of the operation, extra signer, signatures and bump; the same inner
transaction appears alone and bumped. Fees: two accounts, each funded, rich or just above its
reserve, three ledgers so that an entry lives, expires and comes back, and
envelopes one step on each side of the declared fee, of the write bytes and of
`extendTo`. `MaxLedger`, `MaxFundings` and `Timestamps` are the only caps on a
behaviour; the amounts are scaled down (base fee 10, reserve 10).
`host_sends`: a persistent and a temporary entry, each with a short or a long
value (the long temporary one above the size limit), four calls on each side of
the declared bytes and of the refundable cap, no snapshots, and a ledger sequence
that saturates at 5, so that an entry lives, expires, is restored and meets the
end of the range. The longest life is three ledgers, so that an entry's TTL may
be its old one, the maximum or one in between, and a created one may have the
shortest life or a longer one; three sizes for the classic runs, two here, let an
entry grow and shrink across the size limit.
`host_time_travel`: the code alone, seeded, uploaded, archived, restored and
removed, under two snapshots, which is what it takes to return to them out of
order; the last ledger is 3. One code key is enough for the cache: what it holds
of one is independent of what it holds of another.

`rpc_server`: two applications share one account and have a choice of two
transactions each, on two sequence numbers, the second application's wrapped in
fee bumps, which is what it takes for one to overtake the other between its look
and its submission, and for both to ask friendbot for the same account. The test
may interfere twice (a funding, a snapshot), go back once, and pass ledgers.
Signature checks and fees are switched off there (`Sigverify`, `FeeCharging`):
they are the question of the classic runs, and liveness is costly to evaluate.
`facade`: an issuer and two accounts, one asset, one salt for the test to choose,
which is the first of the counter's, two round trips (they are
interchangeable, hence the symmetry), five calls of the test, four draws of the
nonce generator, two snapshots. Five calls are a snapshot or sandbox, two round
trips, a return and one more; two snapshots let sandboxes nest and be left past a
return to an older one; a signature is good for one ledger more and three ledgers
pass, so that it expires and its nonce entry does too. The longest
counterexamples to the mutated definitions are within these bounds.

Deadlock is checked in the `ClassicTx` and `HostLedger` runs: a call can always
be made. It is not where the system may stop: a validation ends
(`signature_checker`), applications finish and the test may do nothing more
(`rpc_server`), and the test's calls are over (`facade`).

*Fairness.* `ClassicTx`, `HostLedger` and `LiteStellar` assume none: a
synchronous library acts only when it is called, and a signer need not answer.
`RpcServer` assumes weak fairness of each application's own steps (look, ask
friendbot, build, submit, poll) and of the reader. What justifies it is that the
adapter answers every request at once, from the ledger in the same process, so a
loop that asks again gets on; polling is fair only once the transaction is found,
so that a record the server lost would leave its application waiting for ever.
Nobody is obliged to submit again and the test is obliged to nothing. `JobsEnd`
and `EventsRead` hold under this fairness, also when the test goes back in time.

*The violated runs* are disagreements between the code and what the repository
says of it. `test/validation` is the battery the repository itself says
deliberately pins known gaps (`vitest.config.ts`), and a run shows the state such
a gap leads to. (One that needs no run is the repeated footprint key of
`layer-gaps-round2.test.ts:388`: nothing in the code looks for it, and the models
price such a key twice, as the code does.)
`envelope_archived` is the defect `r2-autorestore-envelope.test.ts:130` names:
`applyTransaction` passes `send` no indices to restore (`classic.ts:1073`).
`stale_restore_mark` shows what `send` does with a mark whose entry is live by
the time of the call: the comment at `lib.rs:1109` is about an archived entry,
the code gives every marked entry the life of a new one, which may be shorter.
`resubmission` is the case `rpc-live-parity.test.ts:305` describes: an
application that waits for a transaction submits it again and is answered ERROR,
for its sequence number, although it was applied; `JobsAppliedOnce` shows that
one which goes on polling nevertheless is safe, so the damage is in what the
answer makes retry logic do. `salt_collision` is the defect
`facade-api.test.ts:183` names: the counter starts at 32 zero bytes, which a test
may have chosen itself before, and the default deployment then throws
(`litestellar.ts:687`), although `GUIDE.md:441` says a salt is only for who wants a
specific address. `DefaultDeploysSucceed` says that this is the one way it can
fail. `lost_payer` is the defect
`facade-api.test.ts:220` names: the payer is cached outside the snapshot.

## Proofs

`ClassicTx_proofs` proves, for every set of accounts and envelopes and every
value of the network's constants; `HostLedger_proofs`, for every set of keys
and calls and every value of the settings; `RpcServer_proofs`, for every set of
applications and jobs over every such ledger; `LiteStellar_proofs` and
`LiteStellarTokens_proofs`, for every set of accounts and round trips, every
finite set of assets and every bound; and `SignatureChecker_proofs`, for
signatures and signers of any number and any number of checks:

| Theorem | States |
|---|---|
| `CheckDecides` | one check: what it consumes, and that it says yes of exactly the signers with the weight needed, whatever was consumed before |
| `LastConsumedNeeded` | a check of ed25519 signers that consumes the last signature would fail without it |
| `TypeCorrect` (`SignatureChecker_proofs`) | `[]TypeOK` of `SignatureChecker` |
| `VerdictsAreWeights` | `[]VerdictIsWeight` |
| `StrangersUnused` | `[]OnlyAskedSignersConsume` |
| `LastNeeded` | `[]LastSignatureNeeded` |
| `TypeCorrect` | `[]TypeOK`: types, and no TTL beyond `maxEntryTtl` ledgers |
| `SequenceCovers` | `[]SeqCoversApplied`: a sequence number has passed everything its account applied |
| `ReplayProtection` | `AppliedOnce`, while sequences are checked |
| `AppliedAuthorized` | `AppliedIsAuthorized` |
| `FeesBalance` | `FeeReportedIsFeePaid` |
| `FeesWithinBids` | `[]FeeWithinBid` |
| `ReservesKept` | `ReserveKept` |
| `FailuresOnlyPay` | `FailedOnlyPays` |
| `ArchiveOpens` | `ArchiveOpensByRestore` of `ClassicTx` |
| `ApplyPathImplementsLedger` | `Spec` implements `TxLedger`, while sequences are checked |
| `LedgerTypeCorrect` | `[]TypeOK` of `HostLedger`: types, and sequence numbers and TTLs within a u32 |
| `FailedSendsKeepStore` | `FailedSendKeepsStore` |
| `RestoresExact` | `RestoreIsExact` |
| `CacheMirrors` | `CacheMirrorsLedger` |
| `ArchiveOpens` (`HostLedger_proofs`) | `ArchiveOpensByRestore` of `HostLedger` |
| `QuotesSuffice` | `QuoteSuffices`, if rent is never negative |
| `EnvelopesKeep` | `EnvelopesKeepPromise`: `HostLedger`'s invocations do what `ClassicTx` takes a call to do |
| `ServerTypeCorrect` | `[]ServerTypeOK` of `RpcServer` |
| `RecordsMirror` | `[]RecordsMirrorLedger`, while sequences are checked |
| `FateIsSealed` | `OneFate`, while sequences are checked |
| `JobsOnce` | `[]JobsAppliedOnce`, while sequences are checked |
| `ReaderIsExact` | `[]ReaderExact` |
| `FacadeTypeCorrect` | `[]TypeOK` of `LiteStellar` |
| `TokensStay` | `[]TokensConserved` |
| `SubEntries` | `[]SubEntriesCounted` |
| `UsedOnceOnly` | `[]AuthorizationUsedOnce` |
| `SandboxesRestore` | `SandboxLeavesNoTrace` |
| `DefaultSalts` | `DefaultDeploysSucceed`, whatever salts the test chooses |
| `RoundTripsReach` | `[]RoundTripsLand` |

*Assumptions.* The named `ASSUME`s of `ClassicTx` and `HostLedger`: constants are
of their types, a hash fixes source and sequence, a funded account starts with no
`seqLedger` and `seqTime`, code keys are persistent, the network's minimum TTLs
are at least 1, signatures and signers come in lists and weights are numbers; of
`SignatureChecker`, the last two again, and that a signer has one of the four types;
of `RpcServer`, that a bump's hash fixes what it wraps and that
applications do not share transactions; of `LiteStellar`, that the salts a test
chooses are numbers, as the counter's are. TLC evaluates them
in every run. Replay protection, the refinement, `RecordsMirror`,
`FateIsSealed` and `JobsOnce` also assume `SequenceCheck`: the switch turns off what they rest
on. `QuotesSuffice` assumes `RentNeverNegative`: changes that lengthen a life cost a
number that is not negative. Rent is the host crate's formula, here a constant
operator; with a negative rent the refundable fee could not be what was quoted.

*Argument.* `AppliedOnce` is not inductive by itself: that a hash is new says
nothing of the next transaction. `SeqCoversApplied` is what makes it so. An
application needs its sequence to be above the source's (strictly, also with
`minSeqNum`) and moves the source to it, so everything applied stays covered; a
funding, which may set the number back, forgets what that account applied. The
money theorems go through `ApplyFacts`, which states what one application does
as one equation per account: its balance changes by what was transferred, less
the fee reported if it is the payer. It rests on one lemma per write
(`BumpSequenceFacts`, `DebitFacts`, `TransferredFacts`, `SettledFacts`) and on
what passing the validation implies (`EnvelopeValid`, `BumpValid`,
`InnerValid`). Fees, reserves, failures and the refinement are then arithmetic
on that equation.

For `HostLedger` the invariant `IInv` adds to `TypeOK` that a snapshot is what
`taken` says it is (a return must find what was put there), that a quote's
numbers are numbers (it is applied in a later step), and that the cache holds
only code the host can parse. The cache theorem then rests on one fact,
`HandedOverIsLive`: a call that completes was handed only persistent entries
within their TTL or marked. So everything live in its footprint was put into the
cache by the call itself, and what older steps or another timeline left there
cannot matter. The same fact gives the part of `ArchiveOpens` about calls; the
part about TTL operations, and `ArchiveOpens` of `ClassicTx`, follow from which keys
a list's selection holds. `QuotesSuffice` needs one more invariant,
`QuoteCurrent`: while a quote stands, the TTLs it was computed from are those of
the store, so its bytes and rent can be computed again from the entries as they
are. In a later ledger a restoration still finds everything it quoted archived,
and an extension checks no bytes.

`EnvelopesKeep` ties the two ledgers together. `ClassicTx` has no hosts and no
values: a call there leaves `entries` in any of `CallEntries` and costs one of
`CallRents`, over every size its entries may have had and may have been given.
`HostLedger` has the whole of `send`, over entries with values, sizes and TTLs,
marks and limits, with `Ttls` as its view of what `ClassicTx` calls `entries`.
The host may do the same in both, lengthen a life to any ledger it may have and
make an entry any size; what the theorem is about is `send`, which decides what
the host is handed and what becomes of what it returns. It says
that a successful `SendEnvelope` maps to such a call, for every footprint: its
footprint names nothing archived, the new TTLs are in `CallEntries` of the old
ones, the rent reported is one of `CallRents` of the two, and within the
refundable fee for some cost of the events. What is live to `ClassicTx` is exactly
what the host is handed and accepts (`HandedOverAsHeld`, `AcceptedIsLive`), so a
key's change is one `CallTtls` allows (`RunLife`), and what pays rent in the run
is what the store then shows longer or larger, from the life and size it had
(`RentOfTheRun`). A
failed one maps to a failure, which changes nothing (`FailedSendsKeepStore`). It
holds while every Soroban entry has a TTL and no classic one does
(`TtlsComplete`), which `ClassicTx` takes for granted and a direct write of
`putEntry` need not keep.

For `RpcServer` the invariant is about the ledger as it is *and* as every
snapshot has it, because any of them may be the ledger of the next step. The
classic layer's `TypeOK` and `SeqCoversApplied` are kept by reusing the lemmas of
`ClassicTx_proofs` for each submission. `MirrorInv` says of each snapshot that
what was applied in it has a record that still stands, so a return leaves records
and ledger in agreement up to `loose`. `FateIsSealed` then rests on replay
protection: to replace a record, the same hash would have to be applied again,
and a hash whose record is not loose is in `applied`. `JobsOnce` has two
halves. That no second envelope of a job is applied is `JobsInv`: what an
application has had applied, now or in any snapshot, is
the one transaction it is waiting for or has finished with, because it builds
another only after an ERROR to its first submission. That the one is not applied
again is `PastInv`: whatever is in the past of a ledger is in its `applied` or was
followed by a funding of its source, so by replay protection two applications of
one envelope have such a funding between them. `EventsInv` says that no
event is in a ledger that is still open.

For `LiteStellar`, `FacadeInv` is again about the ledger and every snapshot
(`LedgerOK`); most calls are *quiet* (`Quiet`: they leave the clock, the contracts
and the nonces as they are), which is proved once for each and composed.
`UsedOnce` is strengthened by why it holds: the nonce of an authorization that was
used is taken for at least as long as the authorization is valid, so an accepted
one cannot have been used. `SaltsInv` says that no ledger there is or was holds a
contract whose salt the counter gave and is still to give: one in the way of a
default deployment is of the test's choosing, and `SandboxesHold` that a
sandbox's snapshot is the ledger it was called in. `RoundTripsLand` takes a second
invariant, `NoncesInv`: until the ledger goes back under a round trip, the
generator is past every nonce used or waited for, and those waited for are free
and different.

`TokensConserved` is about sums over the holders of a token. `LiteStellarTokens_proofs`
shows for each call which holders' balances it changes and by what, and that the
sum over a finite set moves by the same (`SumChanged`, `SumWith` of
`FoldTheorems`). A transfer takes and gives in two such steps; a trustline that
is established again keeps its balance, which is what the invariant rests on; and
since the invariant holds of every snapshot, a return keeps it.

The signature check is three passes and a pre-pass, each a fold. `IsSound` of
`SignatureTheorems` is the invariant of its loops: the signers no longer left are
exactly those matched, each of them counts by the declarative reading, the total
is the sum of their capped weights, and every newly consumed signature verifies
for one of them. So what says yes has the weight. The converse is that a pass
exhausts its type (`PassFacts`): a signer of a pass's type that is still left
when the pass ends undone verifies for no signature. That takes distinct keys: a
signature counts for the first signer it verifies for, so of two with one key the
second would need a signature of its own. `VerdictsAreWeights` and
`AppliedAuthorized` follow: in an envelope the checks are made one after the
other over one set of consumed signatures, and `CheckDecides` holds for any such
set. `LastConsumer` is the inductive invariant of `LastNeeded`: once the last
signature is consumed, the check that consumed it is one that would have failed
without it. `AppliedAuthorized` needs no distinct keys, only that yes means
weight; the extra signers all count because each weighs one and as many are
needed (`AllMustCount`).

*Model-checked only.* The liveness properties `JobsEnd` and `EventsRead`:
liveness under fairness is out of the prover's reach. Every other property of a
passing run is a theorem. The properties of the violated runs are, of course,
not.

*Induction.* The library's induction theorems take an operator, which the
installed provers cannot instantiate. `FoldTheorems` uses sets instead: a property
of numbers is the set of numbers that have it, and a set that holds 0 and each
member's successor is `Nat` (`AllNumbers`, from the well-foundedness of `<`). From
there it shows that the recursion by which the community modules define every
fold has a solution on the subsets of a finite set, so that a fold has a table of partial
results, which the other proofs go through step by step.

## Plan

1. *Done.* The classic layer: modules, runs, the theorems above.
2. *Done.* `HostLedger`: `SorobanEnv` with its runs and theorems.
3. *Done.* `RpcServer`: submissions, statuses and events over the classic layer;
   retries and returns in between; liveness of the polling loop; theorems.
4. *Done.* `LiteStellar`: payer, salts, sandboxes, fixtures and authorization
   round trips; theorems.
5. *Done.* That `HostLedger`'s `send` under the classic layer does what `ClassicTx`
   assumes of a call.
6. Left: the fee arithmetic of `fees.rs`; paging by `getTransactions` and
   `getLedgers`.

## Not modelled

Contract execution, metering and cost calibration (the host crate); XDR, base64,
strkeys and key encodings; `signatureWeight`, which no path of the code calls;
what `simulate` returns for an invocation, over RPC too; the filters and limits
of `getEvents`, `getTransactions`, `getLedgers` and the other queries of the RPC
server, which change nothing; the native token, `uploadContract`, explicit
expiries, limits and balances of the fixtures; the proof builders of `auth.ts`; the settings setters of `SorobanEnv`;
the settings loaders; build scripts. Components the plan has left are listed in
`PROJECT.json` with their status.
