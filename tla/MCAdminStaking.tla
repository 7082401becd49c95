---------------------------- MODULE MCAdminStaking ----------------------------
(* Small instances of AdminStaking: coverage batches on devnet, and the     *)
(* initialisation of both programs under every environment of the API.     *)
EXTENDS AdminStaking, TLC

CONSTANTS a1, a2, p1, p2

MCPayout == p1 :> 1 @@ p2 :> 2

Devnet ==
    [network |-> "devnet", ready |-> TRUE, multisig |-> NoKey,
     requireMultisig |-> TRUE, bootstrap |-> FALSE, updates |-> FALSE]

\* Programs initialised earlier by a1, and two stakers, as a coverage batch
\* finds them.
Coverage ==
    [env |-> Devnet, account |-> [exists |-> TRUE, operator |-> a1, multisig |-> a1],
     asks |-> {<<a1, Funding>>}, stakes |-> {p1, p2}]

\* Every choice on mainnet of multisig and requirement, the permissions all given
\* or all withheld; devnet reads none of them.
BootstrapEnvironments ==
    {Devnet} \cup
    {e \in Environment : /\ e.network = "mainnet" /\ e.ready
                         /\ e.bootstrap = e.updates /\ e.multisig # a2}

Bootstraps ==
    {[env |-> e, account |-> NoAccount,
      asks |-> {a1, a2} \X (BootstrapActions \cup {"UPSERT_TOKEN_STAKE_CONFIG"}),
      stakes |-> {}] : e \in BootstrapEnvironments}

MCSituations == {Coverage} \cup Bootstraps

Interchangeable == Permutations(Calls) \cup Permutations(Sessions)
=============================================================================
