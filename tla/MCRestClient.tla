---------------------------- MODULE MCRestClient ----------------------------
(* Two concurrent operations on one client, each a read or a mutation; the  *)
(* server's configuration supplies the prefix or overrides both settings.   *)
EXTENDS RestClient

CONSTANTS v1, v2

MCSettings == {"prefix", "headers"}
MCValues == {v1, v2}
MCUserSettings == [prefix |-> Unset, headers |-> v1]
Nothing == [prefix |-> Unset, headers |-> Unset]
MCServerConfigs ==
    {[defaults |-> [prefix |-> v1, headers |-> v2], overrides |-> Nothing],
     [defaults |-> Nothing, overrides |-> [prefix |-> v2, headers |-> v2]]}
=============================================================================
