-------------------------- MODULE MCDLFCredentials --------------------------
(* A client whose credentials come from a token file or from the ECS         *)
(* metadata service, which newDLFCredentialProvider decides once.            *)
(*                                                                           *)
(* Two requests share the provider; the margin is long enough for a          *)
(* credential to be due for a reload and still usable.  Two faults are       *)
(* enough to lose a metadata token between the two requests of a load and    *)
(* again between an attempt and the next; the clock outruns a token, and     *)
(* there are more tokens than faults and expiries can use up.                *)
EXTENDS DLFCredentials, EcsMetadata

VARIABLE source

allVars == <<vars, loaderVars, source>>

FromFile == source = "local_file"
FromService == source = "ecs"

MCInit ==
    /\ Init /\ LoaderInit
    /\ \/ source = "local_file" /\ ~role
       \/ source = "ecs" /\ file = Broken

MCNext ==
    \/ FromFile /\ Next /\ UNCHANGED <<loaderVars, source>>
    \/ FromService /\ LoaderNext /\ UNCHANGED <<vars, source>>

\* The fairness of FairSpec, where no request is made to a loader that is not
\* there, and that of FairLoaderSpec.
MCSpec ==
    /\ MCInit /\ [][MCNext]_allVars
    /\ \A c \in Callers : WF_vars(Provider(c)) /\ SF_vars(Lock(c))
    /\ WF_loaderVars(FromService /\ Load)
    /\ WF_loaderVars(FromService /\ MetadataToken)
    /\ WF_loaderVars(FromService /\ Get)
=============================================================================
