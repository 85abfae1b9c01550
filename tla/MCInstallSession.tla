-------------------------- MODULE MCInstallSession --------------------------
(* TLC instances of InstallSession and StreamInstall over one storage: two *)
(* CNMTs (an application and its patch, say) that share the content        *)
(* "shared".  One installer runs at a time.                                *)
EXTENDS InstallSession, StreamInstall

MCCnmts == <<"metaA", "metaB">>
MCContents == [c \in {"metaA", "metaB"} |->
                 IF c = "metaA" THEN <<"program", "shared">> ELSE <<"shared", "control">>]
MCArchive == <<"program", "metaA", "control", "shared", "metaB">>

allVars == <<vars, streamVars>>
AtRest(p) == p \in {"idle", "ok", "failed"}

StorageSpecInit == StorageInit /\ SessionInit /\ StreamInit

\* The other installer's objects are gone.
NoStream == streams' = streams /\ kind' = "remoteXci" /\ tpc' = "idle" /\ entry' = 1
            /\ holding' = {} /\ metas' = <<>> /\ committed' = 0 /\ verdict' = TRUE
NoSession == sessions' = sessions /\ pc' = "idle" /\ nca' = Cnmts[1] /\ ret' = "read"
             /\ i' = 1 /\ j' = 1 /\ tracked' = {}

StorageNext ==
  \/ AtRest(tpc) /\ StartSession /\ NoStream
  \/ SessionSteps /\ UNCHANGED streamVars
  \/ AtRest(pc) /\ NoSession /\ \E k \in Kinds : StreamStart(k)
  \/ StreamSteps /\ UNCHANGED sessionVars

StorageSpec == StorageSpecInit /\ [][StorageNext]_allVars
=============================================================================
