----------------------------- MODULE AuthService -----------------------------
(***************************************************************************)
(* AuthService of src/src/auth/mod.rs, put together: AuthService::build    *)
(* makes the key material, spawns the refresh loop of a remote set and     *)
(* builds the role policy; the service it returns then decides requests.   *)
(* The refresh loop runs on from the moment it is spawned, also while the  *)
(* policy is being built.                                                  *)
(***************************************************************************)
EXTENDS KeyCache, AuthPolicy

authVars == <<vars, policyVars>>

(* The configuration.  With enabled = false it is AuthService::disabled(),   *)
(* whose policy has no roles, whatever the file says.                        *)
AuthInit ==
    /\ Init
    /\ BuildInit
    /\ ~cfg.enabled => roles = <<>>

(* A request meets a guard only after build has returned. *)
AuthNext ==
    \/ Build /\ UNCHANGED vars
    \/ Next /\ UNCHANGED policyVars /\ (phase # "done" => UNCHANGED requestVars)

AuthSpec == AuthInit /\ [][AuthNext]_authVars
=============================================================================
