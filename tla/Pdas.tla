-------------------------------- MODULE Pdas --------------------------------
(***************************************************************************)
(* Addresses, as the SDK derives them.  An address is a sequence: of one   *)
(* element for a key pair, of the seeds for an account of the program.     *)
(* findProgramAddressSync is taken to be injective in the concatenation of *)
(* the seeds, which is all the code relies on; the bump is left out.       *)
(***************************************************************************)
EXTENDS Integers, Sequences

CONSTANT U8Max   \* the largest byte

findGlobalConfig == <<"global-config">>
findStakingPool == <<"staking-pool">>
findUserAccount(user) == <<"user-account">> \o user

\* Positions from before positions had ids.
findUserStake(user) == <<"user-stake">> \o user

\* Four bytes are written; a larger id throws (Instructions!Writes).
findUserStakePosition(user, positionId) == <<"user-stake">> \o user \o <<positionId>>

\* Buffer.from([id]) keeps the low byte of any number and never throws.
findBoostConfig(id) == <<"boost-config", id % (U8Max + 1)>>

\* The associated token account of a wallet for a mint.
Ata(mint, owner) == <<"token-account">> \o mint \o owner
=============================================================================
