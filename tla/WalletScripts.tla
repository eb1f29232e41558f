--------------------------- MODULE WalletScripts ---------------------------
(***************************************************************************)
(* The token account a wallet keeps its XNT in, and the scripts that need  *)
(* it: wrap-sol.ts turns native coins into XNT there, every other script   *)
(* of a user calls ensureAta first.  ensureAta looks for the account,      *)
(* sends a transaction of its own to create it when it is missing, takes   *)
(* no notice of how that ended, and looks again.  Two scripts of a wallet  *)
(* may do so at the same time.                                             *)
(*                                                                         *)
(* Here tx[r] is that creation, or the wrapping.  What mine.ts does with   *)
(* the account, pay with it, is one step here; StakerScripts has the life  *)
(* of that transaction.  A script talks to the cluster its environment     *)
(* names, and two places read the environment: wrap-sol.ts reads RPC_URL,  *)
(* which its comment and that of mine.ts name, getConnection does not.     *)
(***************************************************************************)
EXTENDS Transactions, FiniteSets

CONSTANTS
  Script,          \* Script[r]: "wrap-sol.ts" or "mine.ts"
  Clusters,        \* what an RPC endpoint may belong to
  DefaultCluster,  \* rpc.testnet.x1.xyz
  Env,             \* Env[r][v]: the cluster variable v names for run r, or Unset
  Unset,
  Amount,          \* AMOUNT, in lamports
  Cost,            \* XNT a run of mine.ts pays
  Native           \* native coins of the wallet at the start, on each cluster

ASSUME WalletAssumption ==
  /\ DefaultCluster \in Clusters /\ Unset \notin Clusters
  /\ Env \in [Runs -> [{"RPC_URL", "ANCHOR_PROVIDER_URL", "SOLANA_URL"}
                          -> Clusters \cup {Unset}]]
  /\ IsFiniteSet(Runs)
  /\ Amount \in Nat /\ Cost \in Nat /\ Native \in Nat

CONSTANT HadAta   \* the clusters where the wallet has the account already

VARIABLES
  native,     \* native coins of the wallet
  ata,        \* the clusters where the token account exists
  lamports,   \* native coins in the token account
  tokens,     \* the amount the token program has recorded for it
  verdict     \* what became of ensureAta, and of the run

walletVars == <<stage, tx, native, ata, lamports, tokens, verdict>>

Of(script) == {r \in Runs : Script[r] = script}

\* process.env.A || process.env.B || the default
FirstSet(e, a, b) ==
  IF e[a] # Unset THEN e[a] ELSE IF e[b] # Unset THEN e[b] ELSE DefaultCluster

\* Mutant: the variable of the wallet tools comes first.
getConnectionSolana(e) == FirstSet(e, "SOLANA_URL", "ANCHOR_PROVIDER_URL")

getConnection(e) == FirstSet(e, "ANCHOR_PROVIDER_URL", "SOLANA_URL")
wrapConnection(e) == FirstSet(e, "RPC_URL", "ANCHOR_PROVIDER_URL")
Endpoint(r) == IF r \in Of("wrap-sol.ts") THEN wrapConnection(Env[r]) ELSE getConnection(Env[r])

WalletInit ==
  /\ TxInit
  /\ native = [c \in Clusters |-> Native]
  /\ ata = HadAta
  /\ lamports = [c \in Clusters |-> 0]
  /\ tokens = [c \in Clusters |-> 0]
  /\ verdict = [r \in Runs |-> "none"]

Decides(r, v) == verdict[r] = "none" /\ verdict' = [verdict EXCEPT ![r] = v]

(***************************************************************************)
(* ensureAta.                                                              *)
(***************************************************************************)
LooksFirst(r) ==
  /\ r \in Of("mine.ts")
  /\ \/ Endpoint(r) \in ata /\ EndsUnsent(r) /\ Decides(r, "have")
     \/ Endpoint(r) \notin ata /\ Build(r) /\ UNCHANGED verdict
  /\ UNCHANGED <<native, ata, lamports, tokens>>

\* Only a missing account is expected; another error is thrown.
FirstLookFails(r) ==
  /\ r \in Of("mine.ts")
  /\ Goes(r, "started", "failed") /\ Decides(r, "unread")
  /\ UNCHANGED <<tx, native, ata, lamports, tokens>>

\* The creation is refused when the account exists.
CreationLands(r) ==
  /\ r \in Of("mine.ts")
  /\ Land(r)
  /\ Endpoint(r) \notin ata
  /\ ata' = ata \cup {Endpoint(r)}
  /\ UNCHANGED <<native, lamports, tokens, verdict>>

\* Mutant: an error of the creation is thrown.
LooksUnlessError(r) ==
  /\ r \in Of("mine.ts")
  /\ stage[r] \in {"done", "failed"}
  /\ Decides(r, IF stage[r] = "done" /\ Endpoint(r) \in ata THEN "have" ELSE "throws")
  /\ UNCHANGED <<stage, tx, native, ata, lamports, tokens>>

\* Success or error, all is decided by the second look.
LooksAgain(r) ==
  /\ r \in Of("mine.ts")
  /\ stage[r] \in {"done", "failed"}
  /\ Decides(r, IF Endpoint(r) \in ata THEN "have" ELSE "throws")
  /\ UNCHANGED <<stage, tx, native, ata, lamports, tokens>>

SecondLookFails(r) ==
  /\ r \in Of("mine.ts")
  /\ stage[r] \in {"done", "failed"} /\ Decides(r, "unread")
  /\ UNCHANGED <<stage, tx, native, ata, lamports, tokens>>

\* The deposit of mine_with_rig: a transfer of wrapped coins moves both amounts.
Pays(r) ==
  /\ verdict[r] = "have"
  /\ tokens[Endpoint(r)] >= Cost
  /\ tokens' = [tokens EXCEPT ![Endpoint(r)] = @ - Cost]
  /\ lamports' = [lamports EXCEPT ![Endpoint(r)] = @ - Cost]
  /\ verdict' = [verdict EXCEPT ![r] = "paid"]
  /\ UNCHANGED <<stage, tx, native, ata>>

(***************************************************************************)
(* wrap-sol.ts.                                                            *)
(***************************************************************************)
\* With a missing account the transaction begins with its creation, which the
\* account itself has to sign.  Only the wallet signs: the SDK throws.
WrapReads(r) ==
  /\ r \in Of("wrap-sol.ts")
  /\ \/ Endpoint(r) \in ata /\ Build(r) /\ UNCHANGED verdict
     \/ /\ Endpoint(r) \notin ata
        /\ Goes(r, "started", "failed") /\ UNCHANGED tx
        /\ Decides(r, "unsigned")
  /\ UNCHANGED <<native, ata, lamports, tokens>>

\* Mutant: the amount is not brought up to date.
WrapWithoutSync(r) ==
  /\ r \in Of("wrap-sol.ts")
  /\ Land(r)
  /\ native[Endpoint(r)] >= Amount
  /\ native' = [native EXCEPT ![Endpoint(r)] = @ - Amount]
  /\ lamports' = [lamports EXCEPT ![Endpoint(r)] = @ + Amount]
  /\ UNCHANGED <<ata, tokens, verdict>>

\* Transfer and syncNative, in one transaction.
WrapLands(r) ==
  /\ r \in Of("wrap-sol.ts")
  /\ Land(r)
  /\ native[Endpoint(r)] >= Amount
  /\ native' = [native EXCEPT ![Endpoint(r)] = @ - Amount]
  /\ lamports' = [lamports EXCEPT ![Endpoint(r)] = @ + Amount]
  /\ tokens' = [tokens EXCEPT ![Endpoint(r)] = lamports[Endpoint(r)] + Amount]
  /\ UNCHANGED <<ata, verdict>>

WalletStep(r) ==
  \/ LooksFirst(r) \/ LooksAgain(r) \/ WrapReads(r)
  \/ (Send(r) \/ Confirm(r) \/ SeeRefusal(r) \/ GiveUp(r))
       /\ UNCHANGED <<native, ata, lamports, tokens, verdict>>

WalletNext ==
  \/ \E r \in Runs :
       \/ WalletStep(r) \/ FirstLookFails(r) \/ SecondLookFails(r) \/ Pays(r)
       \/ CreationLands(r) \/ WrapLands(r)
       \/ /\ \/ Start(r) \/ LoseTouch(r) \/ Refuse(r)
             \/ (stage[r] = "ready" \/ r \in Of("wrap-sol.ts")) /\ Break(r)
          /\ UNCHANGED <<native, ata, lamports, tokens, verdict>>
  \/ NextBlock /\ UNCHANGED <<native, ata, lamports, tokens, verdict>>

WalletFairness ==
  /\ WF_walletVars(NextBlock /\ UNCHANGED <<native, ata, lamports, tokens, verdict>>)
  /\ \A r \in Runs : WF_walletVars(WalletStep(r))

WalletSpec == WalletInit /\ [][WalletNext]_walletVars /\ WalletFairness
-----------------------------------------------------------------------------
(***************************************************************************)
(* Properties.                                                             *)
(***************************************************************************)

\* What is in the token account can be spent: no interleaving of wrapping and
\* mining leaves coins in it that the token program does not know of.
WrappedIsSpendable == \A c \in Clusters : tokens[c] = lamports[c]

\* Two scripts of a wallet may find the account missing at the same time: the
\* one whose creation is refused, or whose confirmation is lost, goes on all
\* the same, unless it cannot read.
RaceIsHarmless ==
  \A r \in Of("mine.ts") :
    stage[r] = "sent" /\ Endpoint(r) \in ata ~> verdict[r] \in {"have", "paid", "unread"}

Wraps(c) == {w \in Of("wrap-sol.ts") : tx[w].status = "landed" /\ Endpoint(w) = c}
Payments(c) == {m \in Of("mine.ts") : verdict[m] = "paid" /\ Endpoint(m) = c}

\* On each cluster there is what the wrappings that landed brought, less what
\* runs have paid: none counts twice, none is forgotten when a script fails or is
\* started again, and none turns up on another cluster.
SpentIsWrapped ==
  \A c \in Clusters :
    tokens[c] + Cost * Cardinality(Payments(c)) = Amount * Cardinality(Wraps(c))

\* One of the variables that only one of the two scripts reads leads it astray:
\* RPC_URL names another cluster than mine.ts goes to, or SOLANA_URL another
\* than the one wrap-sol.ts falls back to.
Misleads(e) ==
  \/ e["RPC_URL"] # Unset /\ e["RPC_URL"] # getConnection(e)
  \/ /\ e["RPC_URL"] = Unset /\ e["ANCHOR_PROVIDER_URL"] = Unset
     /\ e["SOLANA_URL"] # Unset /\ e["SOLANA_URL"] # DefaultCluster

\* What wrap-sol.ts reports as wrapped is there for a mine.ts of the same
\* environment to pay with, unless a run has paid with it already.  It takes a
\* misleading environment, and nothing else, to wrap where mine.ts does not look.
WrapServesMine ==
  \A w \in Of("wrap-sol.ts"), m \in Of("mine.ts") :
    Env[w] = Env[m] /\ ~ Misleads(Env[m]) /\ stage[w] = "done" /\ verdict[m] = "have" =>
      tokens[Endpoint(m)] >= Cost \/ Payments(Endpoint(m)) # {}
=============================================================================
