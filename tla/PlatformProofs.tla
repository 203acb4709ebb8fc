--------------------------- MODULE PlatformProofs ---------------------------
(***************************************************************************)
(* Platform runs each of its parts as the part's own specification says,   *)
(* so what is proved of a part holds of the platform.                      *)
(***************************************************************************)
EXTENDS Platform, AccessProofs, StoreProofs, BridgeProofs

(* A step of the platform is a step of one part, and leaves the others as  *)
(* they are.                                                               *)
LEMMA StepOfAPart ==
  ASSUME [PlatformNext]_platformVars
  PROVE  /\ focus' = focus
         /\ [ReadsNext]_readsVars /\ [ConnNext]_connVars
         /\ [UploadsNext \/ DownloadsNext]_linkVars
         /\ [AuditNext]_auditVars /\ [EmbedNext]_embedVars
         /\ [AliasNext]_aliasVars /\ [TasksNext]_taskVars
         /\ [RailsNext]_railVars /\ [BridgeNext]_bridgeVars
  BY DEF PlatformNext, StandStill, platformVars

(* The platform implements every one of its parts: whatever moves, each    *)
(* part sees a behaviour of its own specification.                         *)
THEOREM PlatformRunsItsParts ==
    PlatformSpec => /\ ReadsSpec /\ ConnSpec /\ LinksSpec /\ AuditSpec /\ EmbedSpec
                    /\ AliasSpec /\ TasksSpec /\ RailsSpec /\ BridgeSpec
<1>1. PlatformInit => /\ ReadsInit /\ ConnInit /\ LinksInit /\ AuditInit /\ EmbedInit
                      /\ AliasInit /\ TasksInit /\ RailsInit /\ BridgeInit
  BY DEF PlatformInit
<1>2. [PlatformNext]_platformVars =>
         /\ [ReadsNext]_readsVars /\ [ConnNext]_connVars
         /\ [UploadsNext \/ DownloadsNext]_linkVars
         /\ [AuditNext]_auditVars /\ [EmbedNext]_embedVars
         /\ [AliasNext]_aliasVars /\ [TasksNext]_taskVars
         /\ [RailsNext]_railVars /\ [BridgeNext]_bridgeVars
  BY StepOfAPart
<1> QED
  BY <1>1, <1>2, PTL
     DEF PlatformSpec, ReadsSpec, ConnSpec, LinksSpec, AuditSpec, EmbedSpec, AliasSpec,
         TasksSpec, RailsSpec, BridgeSpec

(* Every variable of the platform keeps its type. *)
THEOREM PlatformTyped == PlatformSpec => []PlatformTypeOK
<1>1. PlatformInit => focus \in Parts
  BY DEF PlatformInit
<1>2. focus \in Parts /\ [PlatformNext]_platformVars => (focus \in Parts)'
  BY StepOfAPart
<1>3. PlatformSpec => [](focus \in Parts)
  BY <1>1, <1>2, PTL DEF PlatformSpec
<1>4. ReadsSpec => []ReadsTypeOK
  <2>1. ReadInv => ReadsTypeOK
    BY DEF ReadInv
  <2> QED
    BY <2>1, ReadInvHolds, PTL
<1>5. /\ focus \in Parts
      /\ ReadsTypeOK /\ ConnTypeOK /\ LinksTypeOK /\ AuditTypeOK /\ EmbedTypeOK
      /\ AliasTypeOK /\ TasksTypeOK /\ RailsTypeOK /\ BridgeTypeOK
      => PlatformTypeOK
  BY DEF PlatformTypeOK
<1> QED
  BY <1>3, <1>4, <1>5, PlatformRunsItsParts, ConnTyped, LinksTyped, AuditTyped, EmbedTyped,
     AliasesTyped, TasksTyped, RailsTyped, BridgeTyped, PTL
=============================================================================
