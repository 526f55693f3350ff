---------------------------- MODULE LiteStellar -----------------------------
(***************************************************************************)
(* The facade a test drives a ledger with (src/litestellar.ts), its        *)
(* fixtures (src/fixtures.ts) and the authorization round trip             *)
(* (src/auth.ts).  Calls are synchronous, one step each; a round trip      *)
(* awaits a signer half way, and whatever the test does meanwhile comes in *)
(* between.  sandboxed runs its body, which are further steps, and goes    *)
(* back before anything that waits goes on.                                *)
(*                                                                         *)
(* The ledger is a record: what a snapshot covers.  The facade's own state *)
(* is not in it.  An authorization is the nonce the simulation drew for it *)
(* and the last ledger it is valid in; all of them are of one account.     *)
(***************************************************************************)
EXTENDS Integers, Sequences, FiniteSetsExt, Functions

CONSTANTS
  None,
  Accounts,         \* key pairs, and the addresses one may adopt
  Assets, IssuerOf, \* the assets a test issues, and whose they are
  ExplicitSalts,    \* salts a test may choose itself, any
  RoundTrips,       \* the asynchronous calls of authorizeAndSend
  AUTH_TTL,         \* how long a signature is valid: 100 in the code
  MinTemporaryTtl,  \* the shortest life of a nonce entry
  LIMIT,            \* of a trustline
  FirstLedger, MaxLedger,
  MaxCalls, MaxSimulations, MaxSnapshots, MaxMinted   \* bounds: how often, how much

ASSUME FacadeAssumption ==
  /\ IssuerOf \in [Assets -> Accounts]
  /\ None \notin Accounts /\ None \notin Int
  /\ ExplicitSalts \subseteq Nat
  /\ {AUTH_TTL, LIMIT, FirstLedger, MaxLedger, MaxCalls, MaxSimulations, MaxSnapshots, MaxMinted}
       \subseteq Nat
  /\ FirstLedger > 0 /\ MinTemporaryTtl \in Nat \ {0}
  /\ IsFiniteSet(Accounts) /\ IsFiniteSet(Assets)
  /\ None \notin [balance : Nat, authorized : BOOLEAN]

VARIABLES
  ledger,           \* what the ledger holds, see below
  snapshots,        \* what snapshot() kept, by id
  payer,            \* payerWallet, or None until it is first used
  saltCounter,
  wallets,          \* the accounts the test holds a wallet of
  tokens,           \* the assets the test holds a token handle of
  sandboxes,        \* the sandboxed calls running, innermost last
  roundTrips,       \* of each round trip, how far it is
  calls,            \* bound: the calls the test has made
  overtaken         \* history: the ledger went back while a round trip waited

vars == <<ledger, snapshots, payer, saltCounter, wallets, tokens, sandboxes, roundTrips, calls,
          overtaken>>
facade == <<payer, saltCounter, wallets, tokens>>
-----------------------------------------------------------------------------
(***************************************************************************)
(* The ledger: its sequence and nonce generator; numSubEntries of each     *)
(* account, or None; trustlines; deployed contracts and asset contracts;   *)
(* until when each nonce is taken (0: it never was).  History: what was    *)
(* minted, the trustlines an account does not count because it was written *)
(* anew or was not there, the authorizations used and how many calls they  *)
(* authorized.                                                             *)
(***************************************************************************)
NewLedger ==
  [seq |-> FirstLedger, prng |-> 0,
   accounts |-> [a \in Accounts |-> None],
   trustlines |-> [a \in Accounts |-> [t \in Assets |-> None]],
   contracts |-> {}, assets |-> {},
   nonces |-> [n \in 0 .. MaxSimulations |-> 0],
   minted |-> [t \in Assets |-> 0],
   uncounted |-> [a \in Accounts |-> {}],
   used |-> {}, authorized |-> 0]

Trustlines(l, a) == {t \in Assets : l.trustlines[a][t] # None}

\* fundAccount, which preFundedWallet and adoptAccount come to.
Funded(l, a) ==
  [l EXCEPT !.accounts[a] = 0, !.uncounted[a] = Trustlines(l, a)]

\* Mutant of Simulated: the nonce generator stays where it is.
Simulated_SameSeed(l) == l

\* Every simulation, recording or enforcing, draws a seed.
Simulated(l) == [l EXCEPT !.prng = @ + 1]

\* Mutants of EstablishTrustline: every call counts as a new sub-entry; the
\* balance is written anew.
EstablishTrustline_Counts(l, a, t, authorized) ==
  LET old == l.trustlines[a][t]
      written == [l EXCEPT !.trustlines[a][t] =
                    [balance |-> IF old = None THEN 0 ELSE old.balance, authorized |-> authorized]]
  IN  IF l.accounts[a] = None THEN [written EXCEPT !.uncounted[a] = @ \cup {t}]
      ELSE [written EXCEPT !.accounts[a] = @ + 1]
EstablishTrustline_Zeroes(l, a, t, authorized) ==
  LET written == [l EXCEPT !.trustlines[a][t] = [balance |-> 0, authorized |-> authorized]]
  IN  IF l.trustlines[a][t] # None THEN written
      ELSE IF l.accounts[a] = None THEN [written EXCEPT !.uncounted[a] = @ \cup {t}]
      ELSE [written EXCEPT !.accounts[a] = @ + 1]

\* establishTrustline: a new one is one more sub-entry, if there is an account.
EstablishTrustline(l, a, t, authorized) ==
  LET old == l.trustlines[a][t]
      written == [l EXCEPT !.trustlines[a][t] =
                    [balance |-> IF old = None THEN 0 ELSE old.balance, authorized |-> authorized]]
  IN  IF old # None THEN written
      ELSE IF l.accounts[a] = None THEN [written EXCEPT !.uncounted[a] = @ \cup {t}]
      ELSE [written EXCEPT !.accounts[a] = @ + 1]

EstablishTrustlineIfMissing(l, a, t) ==
  IF l.trustlines[a][t] # None THEN l ELSE EstablishTrustline(l, a, t, TRUE)

\* What the asset contract lets an account take and give.
MayReceive(l, a, t, amount) ==
  /\ t \in l.assets /\ l.trustlines[a][t] # None
  /\ l.trustlines[a][t].authorized /\ l.trustlines[a][t].balance + amount <= LIMIT
MaySend(l, a, t, amount) ==
  /\ t \in l.assets /\ l.trustlines[a][t] # None
  /\ l.trustlines[a][t].authorized /\ l.trustlines[a][t].balance >= amount
Credited(l, a, t, amount) == [l EXCEPT !.trustlines[a][t].balance = @ + amount]
-----------------------------------------------------------------------------
(***************************************************************************)
(* A call the one custom account must authorize.  The enforcing host takes *)
(* an authorization that has not expired and whose nonce is free, and      *)
(* takes its nonce; __check_auth reads more than a recording simulation,   *)
(* which does not run it, finds out.                                       *)
(***************************************************************************)
RecordedReads == {"call", "nonce"}
EnforcedReads == {"call", "nonce", "signers"}

\* Mutant of Taken: the entry of a nonce is gone in its last ledger.
Taken_Early(l, n) == l.nonces[n] > l.seq

\* A nonce is taken until its temporary entry expires.
Taken(l, n) == l.nonces[n] >= l.seq

Recorded(l) == [nonce |-> l.prng, validUntil |-> l.seq + AUTH_TTL]
Expired(l, auth) == auth.validUntil < l.seq
Accepted(l, auth) == ~Expired(l, auth) /\ ~Taken(l, auth.nonce)

Used(l, auth) ==
  [l EXCEPT !.nonces[auth.nonce] =
              IF auth.validUntil >= l.seq + MinTemporaryTtl - 1 THEN auth.validUntil
              ELSE l.seq + MinTemporaryTtl - 1,
            !.used = @ \cup {auth}, !.authorized = @ + 1]

\* Mutant of SentFootprint: the one of the recording simulation.
SentFootprint_Recorded == RecordedReads

\* send is given the resources of the enforcing simulation.
SentFootprint == EnforcedReads

\* simulateWithAuth, then send, with no await between them.
EnforceAndSend(l, auth) ==
  LET simulated == Simulated(l)
  IN  CASE Expired(l, auth) -> [ledger |-> simulated, result |-> "expired"]
        [] ~Expired(l, auth) /\ ~Accepted(l, auth) -> [ledger |-> simulated, result |-> "refused"]
        [] Accepted(l, auth) /\ ~(EnforcedReads \subseteq SentFootprint) ->
             [ledger |-> simulated, result |-> "unsent"]
        [] Accepted(l, auth) /\ EnforcedReads \subseteq SentFootprint ->
             [ledger |-> Used(simulated, auth), result |-> "landed"]
-----------------------------------------------------------------------------
\* Bounds, of everything the test calls.
MayCall ==
  /\ calls < MaxCalls
  /\ calls' = calls + 1
MaySimulate == MayCall /\ ledger.prng < MaxSimulations

(***************************************************************************)
(* The source of a call: the one it names, or the payer, which is a newly  *)
(* funded wallet the first time.                                           *)
(***************************************************************************)
SourcesOf(as) ==
  IF as # None THEN {as} ELSE IF payer # None THEN {payer} ELSE Accounts \ wallets

CreatesPayer(as) == as = None /\ payer = None
SourceOf(as, source) ==
  /\ source \in SourcesOf(as)
  /\ payer' = IF as = None THEN source ELSE payer
  /\ wallets' = wallets \cup {source}
Sourced(as, source) == IF CreatesPayer(as) THEN Funded(ledger, source) ELSE ledger

\* airdrop, fund and adoptAccount: a wallet of a new key pair, or of one the test
\* has, whose account is written anew.
Fund(a) ==
  /\ MayCall
  /\ ledger' = Funded(ledger, a)
  /\ wallets' = wallets \cup {a}
  /\ UNCHANGED <<snapshots, payer, saltCounter, tokens, sandboxes, roundTrips, overtaken>>

WithPayer(a) ==
  /\ MayCall
  /\ a \in wallets
  /\ payer' = a
  /\ UNCHANGED <<ledger, snapshots, saltCounter, wallets, tokens, sandboxes, roundTrips, overtaken>>

\* Mutant of WarpToLedger: it takes any sequence.
WarpToLedger_Anywhere(sequence) ==
  /\ MayCall
  /\ ledger' = [ledger EXCEPT !.seq = sequence]
  /\ UNCHANGED <<snapshots, facade, sandboxes, roundTrips, overtaken>>

\* warpToLedger, and advanceLedgers by the difference: not backwards.
WarpToLedger(sequence) ==
  /\ MayCall
  /\ sequence >= ledger.seq
  /\ ledger' = [ledger EXCEPT !.seq = sequence]
  /\ UNCHANGED <<snapshots, facade, sandboxes, roundTrips, overtaken>>

\* Mutant of NextSalt: always the first.
NextSalt_Fixed == 0

NextSalt == saltCounter

\* A contract is known by its deployer and salt.  History: the test chose the salt.
ContractOf(source, salt) ==
  [deployer |-> source, salt |-> IF salt = None THEN NextSalt ELSE salt, chosen |-> salt # None]
SameAddress(c, d) == c.deployer = d.deployer /\ c.salt = d.salt

Deployed(l, contract) ==
  IF \E c \in l.contracts : SameAddress(c, contract) THEN l
  ELSE [l EXCEPT !.contracts = @ \cup {contract}]

\* deployContract, deployFromHash, with a salt of the test's or of the counter.  A
\* second deployment to an address fails, having drawn what it drew.
Deploy(as, salt) ==
  /\ MaySimulate
  /\ saltCounter' = IF salt = None THEN saltCounter + 1 ELSE saltCounter
  /\ \E source \in SourcesOf(as) :
       /\ SourceOf(as, source)
       /\ ledger' = Deployed(Simulated(Sourced(as, source)), ContractOf(source, salt))
  /\ UNCHANGED <<snapshots, tokens, sandboxes, roundTrips, overtaken>>

\* invokeContract with signAuth: the same round trip, with a signer that answers
\* at once.
Invoke(as) ==
  /\ MaySimulate
  /\ \E source \in SourcesOf(as) :
       /\ SourceOf(as, source)
       /\ LET l == Sourced(as, source)
          IN  ledger' = IF Taken(l, l.prng) THEN Simulated(l)
                        ELSE EnforceAndSend(Simulated(l), Recorded(l)).ledger
  /\ UNCHANGED <<snapshots, saltCounter, tokens, sandboxes, roundTrips, overtaken>>
-----------------------------------------------------------------------------
(***************************************************************************)
(* Tokens.                                                                 *)
(***************************************************************************)
Holders(t) == Accounts \ {IssuerOf[t]}

\* deployToken: the issuer is a wallet the test has, or a newly funded one; an
\* asset has one contract, and the issuer's account is to exist.
DeployToken(t) ==
  /\ MaySimulate
  /\ wallets' = wallets \cup {IssuerOf[t]}
  /\ LET l == Simulated(IF IssuerOf[t] \in wallets THEN ledger ELSE Funded(ledger, IssuerOf[t]))
     IN  \/ t \notin l.assets /\ tokens' = tokens \cup {t}
            /\ ledger' = [l EXCEPT !.assets = @ \cup {t}]
         \/ (t \in l.assets \/ l.accounts[IssuerOf[t]] = None)
            /\ ledger' = l /\ UNCHANGED tokens
  /\ UNCHANGED <<snapshots, payer, saltCounter, sandboxes, roundTrips, overtaken>>

\* trust: the trustline is written whether or not there is one.
Trust(a, t, authorized) ==
  /\ MayCall
  /\ a \in wallets \cap Holders(t)
  /\ ledger' = EstablishTrustline(ledger, a, t, authorized)
  /\ UNCHANGED <<snapshots, facade, sandboxes, roundTrips, overtaken>>

\* mint: the trustline is there to stay when the call then fails, for whatever
\* reason the host has.
Minted(l, a, t, amount) ==
  {l} \cup
    (IF MayReceive(l, a, t, amount)
     THEN {[Credited(l, a, t, amount) EXCEPT !.minted[t] = @ + amount]} ELSE {})
Mint(a, t, amount) ==
  /\ MaySimulate
  /\ t \in tokens /\ a \in wallets \cap Holders(t)
  /\ ledger.minted[t] + amount <= MaxMinted
  /\ ledger' \in Minted(Simulated(EstablishTrustlineIfMissing(ledger, a, t)), a, t, amount)
  /\ UNCHANGED <<snapshots, facade, sandboxes, roundTrips, overtaken>>

Transfer(a, b, t, amount) ==
  /\ MaySimulate
  /\ t \in tokens /\ {a, b} \subseteq wallets \cap Holders(t) /\ a # b
  /\ LET l == Simulated(EstablishTrustlineIfMissing(ledger, b, t))
     IN  \/ ledger' = l
         \/ /\ MaySend(l, a, t, amount) /\ MayReceive(l, b, t, amount)
            /\ ledger' = Credited(Credited(l, a, t, -amount), b, t, amount)
  /\ UNCHANGED <<snapshots, facade, sandboxes, roundTrips, overtaken>>

\* setupWorld: a funded wallet, a token with an issuer of its own, and a mint.
SetupWorld(a, t) ==
  /\ MayCall /\ ledger.prng + 1 < MaxSimulations
  /\ a \notin wallets /\ IssuerOf[t] \notin wallets /\ a \in Holders(t)
  /\ ledger.minted[t] < MaxMinted
  /\ LET funded == Funded(Funded(ledger, a), IssuerOf[t])
         deployed == [Simulated(funded) EXCEPT !.assets = @ \cup {t}]
     IN  ledger' \in Minted(Simulated(EstablishTrustlineIfMissing(deployed, a, t)), a, t, 1)
  /\ wallets' = wallets \cup {a, IssuerOf[t]}
  /\ tokens' = tokens \cup {t}
  /\ UNCHANGED <<snapshots, payer, saltCounter, sandboxes, roundTrips, overtaken>>
-----------------------------------------------------------------------------
(***************************************************************************)
(* Going back.                                                             *)
(***************************************************************************)
Waiting == {r \in RoundTrips : roundTrips[r].phase = "signing"}

Snapshot ==
  /\ MayCall
  /\ Len(snapshots) < MaxSnapshots
  /\ snapshots' = Append(snapshots, ledger)
  /\ UNCHANGED <<ledger, facade, sandboxes, roundTrips, overtaken>>

Restored(id) ==
  /\ ledger' = snapshots[id]
  /\ overtaken' = (overtaken \/ Waiting # {})

Restore(id) ==
  /\ MayCall
  /\ Restored(id)
  /\ UNCHANGED <<snapshots, facade, sandboxes, roundTrips>>

\* sandboxed, up to its body.
EnterSandbox ==
  /\ MayCall
  /\ Len(snapshots) < MaxSnapshots
  /\ snapshots' = Append(snapshots, ledger)
  /\ sandboxes' = Append(sandboxes, [snap |-> Len(snapshots) + 1, before |-> ledger])
  /\ UNCHANGED <<ledger, facade, roundTrips, overtaken>>

\* Mutant of SandboxSnapshot: the latest there is.
SandboxSnapshot_Latest == Len(snapshots)

SandboxSnapshot == sandboxes[Len(sandboxes)].snap

\* Its finally: the body returned, threw or came to its first await.
LeaveSandbox ==
  /\ sandboxes # <<>>
  /\ Restored(SandboxSnapshot)
  /\ sandboxes' = SubSeq(sandboxes, 1, Len(sandboxes) - 1)
  /\ UNCHANGED <<snapshots, facade, roundTrips, calls>>
-----------------------------------------------------------------------------
(***************************************************************************)
(* authorizeAndSend.                                                       *)
(***************************************************************************)
Idle == [phase |-> "idle", auth |-> None]
Ended(result) == [phase |-> result, auth |-> None]

\* Up to the first await: the expiry is read before the signer is asked.  Whether a
\* recording simulation minds that the nonce it drew is taken is the host's.
Begin(r) ==
  /\ MaySimulate
  /\ roundTrips[r] = Idle
  /\ ledger' = Simulated(ledger)
  /\ \/ roundTrips' = [roundTrips EXCEPT ![r] = [phase |-> "signing", auth |-> Recorded(ledger)]]
     \/ /\ Taken(ledger, ledger.prng)
        /\ roundTrips' = [roundTrips EXCEPT ![r] = Ended("unrecorded")]
  /\ UNCHANGED <<snapshots, facade, sandboxes, overtaken>>

\* The signer has answered: the rest runs with no call in progress.
Answer(r) ==
  /\ r \in Waiting
  /\ sandboxes = <<>>
  /\ LET done == EnforceAndSend(ledger, roundTrips[r].auth)
     IN  /\ ledger' = done.ledger
         /\ roundTrips' = [roundTrips EXCEPT ![r] = Ended(done.result)]
  /\ UNCHANGED <<snapshots, facade, sandboxes, calls, overtaken>>

\* The signer has failed, and the call throws.
SignerFails(r) ==
  /\ r \in Waiting
  /\ sandboxes = <<>>
  /\ roundTrips' = [roundTrips EXCEPT ![r] = Ended("unsigned")]
  /\ UNCHANGED <<ledger, snapshots, facade, sandboxes, calls, overtaken>>
-----------------------------------------------------------------------------
Init ==
  /\ ledger = NewLedger
  /\ snapshots = <<>> /\ sandboxes = <<>>
  /\ payer = None /\ saltCounter = 0 /\ wallets = {} /\ tokens = {}
  /\ roundTrips = [r \in RoundTrips |-> Idle]
  /\ calls = 0 /\ overtaken = FALSE

Next ==
  \/ \E a \in Accounts : Fund(a) \/ WithPayer(a)
  \/ \E sequence \in FirstLedger .. MaxLedger : WarpToLedger(sequence)
  \/ \E as \in wallets \cup {None} :
       \/ \E salt \in ExplicitSalts \cup {None} : Deploy(as, salt)
       \/ Invoke(as)
  \/ \E t \in Assets :
       \/ DeployToken(t) \/ \E a \in Accounts : SetupWorld(a, t)
       \/ \E a \in Accounts, authorized \in BOOLEAN : Trust(a, t, authorized)
       \/ \E a \in Accounts, amount \in 1 .. LIMIT :
            Mint(a, t, amount) \/ \E b \in Accounts : Transfer(a, b, t, amount)
  \/ Snapshot \/ EnterSandbox \/ LeaveSandbox
  \/ \E id \in DOMAIN snapshots : Restore(id)
  \/ \E r \in RoundTrips : Begin(r) \/ Answer(r) \/ SignerFails(r)

Spec == Init /\ [][Next]_vars
-----------------------------------------------------------------------------
(***************************************************************************)
(* Types, with three bounds that take several calls to break: a trustline  *)
(* holds between nothing and its limit, an authorization that waits is not *)
(* valid for longer than AUTH_TTL from now, as only a return sets the      *)
(* clock back, and a sandbox that runs has its snapshot.                   *)
(***************************************************************************)
TypeOK ==
  /\ ledger.seq \in Nat /\ ledger.seq >= FirstLedger /\ ledger.prng \in Nat
  /\ payer \in wallets \cup {None} /\ wallets \subseteq Accounts
  /\ saltCounter \in Nat /\ tokens \subseteq Assets
  /\ \A a \in Accounts, t \in Assets :
       ledger.trustlines[a][t] # None => ledger.trustlines[a][t].balance \in 0 .. LIMIT
  /\ ~overtaken => \A r \in Waiting : roundTrips[r].auth.validUntil <= ledger.seq + AUTH_TTL
  /\ \A i \in DOMAIN sandboxes : sandboxes[i].snap \in DOMAIN snapshots

(***************************************************************************)
(* What locks an account's reserve: numSubEntries counts each of its       *)
(* trustlines once, however often trust, mint and transfer establish them, *)
(* except those it held when it was funded over or before it was funded,   *)
(* which it does not count.                                                *)
(***************************************************************************)
SubEntriesCounted ==
  \A a \in Accounts : ledger.accounts[a] # None =>
    ledger.accounts[a] + Cardinality(ledger.uncounted[a]) = Cardinality(Trustlines(ledger, a))

\* Who holds how much of an asset.
Balances(l, t) ==
  [a \in {a \in Accounts : t \in Trustlines(l, a)} |-> l.trustlines[a][t].balance]

(***************************************************************************)
(* Tokens come from minting alone and stay: calls that fail half way,      *)
(* trustlines that are written again, accounts that are funded over and    *)
(* returns in time neither make nor lose any.                              *)
(***************************************************************************)
TokensConserved ==
  \A t \in Assets : FoldFunction(+, 0, Balances(ledger, t)) = ledger.minted[t]

(***************************************************************************)
(* A signed authorization authorizes one call in the history of the ledger *)
(* as it now is: also when the ledger went back and drew its nonce for     *)
(* another round trip, which then holds the very same authorization.       *)
(***************************************************************************)
AuthorizationUsedOnce == Cardinality(ledger.used) = ledger.authorized

(***************************************************************************)
(* Round trips do not get in each other's way: whatever the test and other *)
(* round trips did while the signer was awaited, a call whose signer       *)
(* answers before the signature expires lands, with a footprint that       *)
(* covers __check_auth, unless the ledger went back while one waited.      *)
(***************************************************************************)
RoundTripsLand ==
  \A r \in RoundTrips :
    /\ roundTrips[r].phase # "unsent"
    /\ ~overtaken => roundTrips[r].phase \notin {"unrecorded", "refused"}

(***************************************************************************)
(* sandboxed gives the ledger back as it was when it was called, whatever  *)
(* its body called: other sandboxes, snapshots of its own and returns to   *)
(* them, deployments, round trips begun.                                   *)
(***************************************************************************)
SandboxLeavesNoTrace ==
  [][Len(sandboxes') < Len(sandboxes) => ledger' = sandboxes[Len(sandboxes)].before]_vars

(***************************************************************************)
(* A deployment that leaves the salt to the facade fails only where the    *)
(* test itself chose that very salt for a contract of the same deployer:   *)
(* two deployments by default never collide, although the counter the salt *)
(* comes from and the ledger that holds the contracts do not go back       *)
(* together.                                                               *)
(***************************************************************************)
DefaultDeploysSucceed ==
  [][\A as \in wallets \cup {None} :
       Deploy(as, None) /\ ledger'.contracts = ledger.contracts =>
         \E c \in ledger.contracts :
           /\ c.deployer = (IF as = None THEN payer' ELSE as)
           /\ c.salt = saltCounter /\ c.chosen]_vars

(***************************************************************************)
(* What test/validation/facade-api.test.ts:202 says of it: the default     *)
(* salt does not collide with a salt the test chose before.                *)
(***************************************************************************)
DefaultSaltsFree ==
  [][saltCounter' # saltCounter => ledger'.contracts # ledger.contracts]_vars

(***************************************************************************)
(* What test/validation/facade-api.test.ts:220 says of the default payer:  *)
(* it is there after a rollback that removed it.                           *)
(***************************************************************************)
PayerExists == payer # None => ledger.accounts[payer] # None
=============================================================================
