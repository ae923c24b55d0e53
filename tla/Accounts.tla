------------------------------ MODULE Accounts ------------------------------
(***************************************************************************)
(* One user's account: the sessions that are signed in, the credentials    *)
(* that open new ones, and the backup codes of the second factor.  The     *)
(* three meet in the routes of server/routes/auth.js and share no state    *)
(* but the row of the user, of which each owns its columns.                *)
(***************************************************************************)
EXTENDS Sessions, Credentials, BackupCodes

(* Any interleaving of the three.                                          *)
AccountsSpec == SessSpec /\ CredSpec /\ CodesSpec

(* An old reset link opens nothing once a newer password is set, an owner  *)
(* who proved his authenticator can sign in with it, and a backup code     *)
(* that was spent or replaced opens nothing more.                          *)
AccountStaysOwned == OldLinksStayClosed /\ OwnerCanSignIn /\ CodesOpenOnce
=============================================================================
