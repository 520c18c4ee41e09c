----------------------------- MODULE MCSession -----------------------------
(* What a session stands on: the desktop with its database (MCDesktop) or, *)
(* by its budget, the configuration with its providers (MCProviderCache).  *)
(* They share no state: the one does not move while the other does.        *)
EXTENDS MCDesktop, MCProviderCache

MCBudgets == DesktopBudgets \union ConfigBudgets

Configures == "writes" \in DOMAIN left

MCInit == Init /\ ProvidersInit /\ (~Configures => table = NoRows)

MCNext ==
  \/ Configures /\ ProvidersNext /\ UNCHANGED <<migrationVars, hubVars, slotVars, running>>
  \/ ~Configures /\ Next /\ UNCHANGED <<configVars, cacheVars>>

MCSpec == MCInit /\ [][MCNext]_<<vars, providerVars>>
=============================================================================
