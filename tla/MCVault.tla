------------------------------ MODULE MCVault ------------------------------
(* One profile of the channel that goes and one of another, each with the  *)
(* app's main thread and one that reads beside it.                         *)
EXTENDS Vault

CONSTANTS mine, other, main, worker

TwoProfiles == {mine, other}
Leaving == {mine}
TwoThreads == {main, worker}
=============================================================================
