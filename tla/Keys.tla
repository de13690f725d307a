-------------------------------- MODULE Keys --------------------------------
(***************************************************************************)
(* The public keys the accounting tells apart.  One market (slab) and its  *)
(* one pool are modelled, so the pool PDA and the vault authority PDA that *)
(* state.rs derives from seeds are two distinguished keys.                 *)
(***************************************************************************)
CONSTANTS Accounts,    \* wallets that can sign transactions
          Users,       \* the wallets that deposit
          PoolPda,     \* derive_pool_pda(slab)
          VaultAuth,   \* derive_vault_authority(pool PDA)
          ZeroKey      \* the all-zero key of a zeroed account

ASSUME KeysAssumption ==
  /\ Users \subseteq Accounts
  /\ {PoolPda, VaultAuth, ZeroKey} \cap Accounts = {}
  /\ PoolPda # VaultAuth /\ PoolPda # ZeroKey /\ VaultAuth # ZeroKey

AllKeys == Accounts \cup {PoolPda, VaultAuth, ZeroKey}
=============================================================================
