---------------------------- MODULE Applications ----------------------------
(***************************************************************************)
(* What runs at the edges of the chain, checked together: the genesis of a *)
(* network, the contracts it registers, the provers and circuits of the    *)
(* SMT token and of the wallet, and TruthSeeker's sessions.  Contracts     *)
(* start from the outcome of genesis; the other parts share no state, and  *)
(* a behaviour follows one of them, its focus.                             *)
(***************************************************************************)
EXTENDS Genesis, SmtToken, Wallet, TokenHistory, AppServer, TruthSeeker

CONSTANTS
    Setup          \* transactions settled right after genesis, before the ones explored

VARIABLES focus

vars == <<focus, contractVars, genesisVars, smtVars, walletVars, historyVars, appVars, sessionVars>>

\* The contracts after genesis and the transactions of Setup.
ContractsInit ==
    /\ world = InTurn(LAMBDA w, tx : process(w, tx).w, GenesisRun(Stakers).w, Setup)
    /\ staking = InTurn(process_block, GenesisStaking(make_genesis_block(Stakers)), Setup)
    /\ steps = 0
    /\ reversed = FALSE

Init ==
    /\ focus \in {"genesis", "contracts", "smt", "wallet", "history", "app", "session"}
    /\ GenesisInit
    /\ ContractsInit
    /\ SmtInit
    /\ WalletInit
    /\ focus # "wallet" => wallet.invite # DefaultKey
    /\ HistoryInit
    /\ AppInit
    /\ TruthInit

Next ==
    /\ UNCHANGED focus
    /\ \/ /\ focus = "genesis" /\ GenesisNext
          /\ UNCHANGED <<contractVars, smtVars, walletVars, historyVars, appVars, sessionVars>>
       \/ /\ focus = "contracts" /\ ContractsNext
          /\ UNCHANGED <<genesisVars, smtVars, walletVars, historyVars, appVars, sessionVars>>
       \/ /\ focus = "smt" /\ SmtNext
          /\ UNCHANGED <<genesisVars, contractVars, walletVars, historyVars, appVars, sessionVars>>
       \/ /\ focus = "wallet" /\ WalletNext
          /\ UNCHANGED <<genesisVars, contractVars, smtVars, historyVars, appVars, sessionVars>>
       \/ /\ focus = "history" /\ HistoryNext
          /\ UNCHANGED <<genesisVars, contractVars, smtVars, walletVars, appVars, sessionVars>>
       \/ /\ focus = "app" /\ AppNext
          /\ UNCHANGED <<genesisVars, contractVars, smtVars, walletVars, historyVars, sessionVars>>
       \/ /\ focus = "session" /\ TruthNext
          /\ UNCHANGED <<genesisVars, contractVars, smtVars, walletVars, historyVars, appVars>>

Spec == Init /\ [][Next]_vars

----------------------------------------------------------------------------

\* The two contracts whose circuits know only a commitment and the accounts a batch
\* touches prove what their executors announced: the SMT token, whose batches may mix
\* transfers with blobs of other contracts, and the wallet.
CircuitsAgree == CircuitAgrees /\ WalletAgrees
=============================================================================
