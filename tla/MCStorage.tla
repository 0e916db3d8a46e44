----------------------------- MODULE MCStorage -----------------------------
(***************************************************************************)
(* The persistent state and the photo service.  They share no variable, so *)
(* one run explores them side by side, as MCServices does with the others: *)
(* `part` says which of the two a behaviour is about.                      *)
(***************************************************************************)
EXTENDS MCState, PhotoService

VARIABLE part

storageVars == <<vars, photoVars, part>>

(* Of the one a behaviour is not about one initial state is enough. *)
StorageInit ==
    /\ part \in {"state", "photo"} /\ Init /\ PhotoInit
    /\ part = "photo" => image = DefaultImage
    /\ part = "state" => calls["experiment"] = ExperimentPrograms["sads"]

StorageNext ==
    \/ part = "state" /\ Next /\ UNCHANGED <<photoVars, part>>
    \/ part = "photo" /\ PhotoNext /\ UNCHANGED <<vars, part>>

(* The fairness of each, in the behaviours that are about it. *)
StorageFairness ==
    /\ WF_vars(part = "state" /\ MissionLoop) /\ WF_vars(part = "state" /\ Boot)
    /\ WF_photoVars(part = "photo" /\ TaskProc)
    /\ \A c \in PhotoClients : WF_photoVars(part = "photo" /\ PhotoClient(c))

StorageSpec == StorageInit /\ [][StorageNext]_storageVars /\ StorageFairness

(* Every call of the photo service returns, but for one case: the service   *)
(* has become idle before the flag was cleared for the last request        *)
(* (photo_service.cpp:300, 388-392).                                       *)
CallsReturn ==
    \A c \in PhotoClients : []<>(part # "photo" \/ calls[c] = <<>> \/ overtaken)
=============================================================================
