------------------------------ MODULE Platform ------------------------------
(***************************************************************************)
(* The parts of the daemon and of the MCP front-end that keep their own    *)
(* state, side by side.  None of these modules reads a variable of         *)
(* another, so a behaviour of all of them is an interleaving of their own  *)
(* behaviours, and a property of one depends on its own steps alone.  The  *)
(* part that moves is chosen at the start and the others stand still: the  *)
(* state space is then the sum of theirs and not the product.              *)
(***************************************************************************)
EXTENDS Reads, Connection, Links, AuditLog, Embed, Aliaser, Tasks, Rails, Bridge

VARIABLE focus   \* the part that moves

Parts == {"reads", "connection", "uploads", "downloads", "audit", "embed",
          "aliases", "tasks", "rails", "bridge"}

PlatformInit ==
    /\ focus \in Parts
    /\ ReadsInit /\ ConnInit /\ LinksInit /\ AuditInit /\ EmbedInit
    /\ AliasInit /\ TasksInit /\ BridgeInit
    /\ RailsInit
    /\ focus # "reads" => copy.row = "none"
    /\ focus # "rails" => settings = Defaults
    /\ focus # "embed" => api.refuses = {} /\ \A m \in 1..Messages : row[m].chunks = 0
    /\ focus # "bridge" => \A m \in Mails : mail[m].date = 0

StandStill(others) == UNCHANGED <<focus, others>>

PlatformNext ==
    \/ /\ focus = "reads" /\ ReadsNext
       /\ StandStill(<<connVars, linkVars, auditVars, embedVars, aliasVars, taskVars,
                       railVars, bridgeVars>>)
    \/ /\ focus = "connection" /\ ConnNext
       /\ StandStill(<<readsVars, linkVars, auditVars, embedVars, aliasVars, taskVars,
                       railVars, bridgeVars>>)
    \/ /\ \/ focus = "uploads" /\ UploadsNext
          \/ focus = "downloads" /\ DownloadsNext
       /\ StandStill(<<readsVars, connVars, auditVars, embedVars, aliasVars, taskVars,
                       railVars, bridgeVars>>)
    \/ /\ focus = "audit" /\ AuditNext
       /\ StandStill(<<readsVars, connVars, linkVars, embedVars, aliasVars, taskVars,
                       railVars, bridgeVars>>)
    \/ /\ focus = "embed" /\ EmbedNext
       /\ StandStill(<<readsVars, connVars, linkVars, auditVars, aliasVars, taskVars,
                       railVars, bridgeVars>>)
    \/ /\ focus = "aliases" /\ AliasNext
       /\ StandStill(<<readsVars, connVars, linkVars, auditVars, embedVars, taskVars,
                       railVars, bridgeVars>>)
    \/ /\ focus = "tasks" /\ TasksNext
       /\ StandStill(<<readsVars, connVars, linkVars, auditVars, embedVars, aliasVars,
                       railVars, bridgeVars>>)
    \/ /\ focus = "rails" /\ RailsNext
       /\ StandStill(<<readsVars, connVars, linkVars, auditVars, embedVars, aliasVars,
                       taskVars, bridgeVars>>)
    \/ /\ focus = "bridge" /\ BridgeNext
       /\ StandStill(<<readsVars, connVars, linkVars, auditVars, embedVars, aliasVars,
                       taskVars, railVars>>)

platformVars == <<focus, readsVars, connVars, linkVars, auditVars, embedVars,
                  aliasVars, taskVars, railVars, bridgeVars>>

-----------------------------------------------------------------------------
(* Fairness.  The manager's loops run for ever on the event loop, and      *)
(* Exchange comes back.                                                    *)
ConnFairness ==
    /\ WF_connVars(focus = "connection" /\ Manager)
    /\ WF_connVars(focus = "connection" /\ ComeUp)

(* The archive runner begins a pass every cycle, and the embedder returns. *)
EmbedFairness ==
    /\ WF_embedVars(focus = "embed" /\ PassStep)
    /\ WF_embedVars(focus = "embed" /\ ApiUp)

(* The consumer polls as long as it runs and its poll is accepted in the   *)
(* end; Postgres grants the lock in the order it was asked for; a          *)
(* transaction that has swept ends.                                        *)
BridgeFairness ==
    /\ SF_bridgeVars(focus = "bridge" /\ \E w \in Pollers : Begin(w, TRUE))
    /\ \A w \in Pollers : /\ SF_bridgeVars(focus = "bridge" /\ sweep(w))
                          /\ WF_bridgeVars(focus = "bridge" /\ (Respond(w) \/ Refuse(w)))

PlatformSpec == PlatformInit /\ [][PlatformNext]_platformVars
                /\ ConnFairness /\ EmbedFairness /\ BridgeFairness

-----------------------------------------------------------------------------
PlatformTypeOK ==
    /\ focus \in Parts
    /\ ReadsTypeOK /\ ConnTypeOK /\ LinksTypeOK /\ AuditTypeOK /\ EmbedTypeOK
    /\ AliasTypeOK /\ TasksTypeOK /\ RailsTypeOK /\ BridgeTypeOK

(* The daemon recovers: once Exchange stays up the manager ends warm on a  *)
(* session that works, whatever the outages wedged (connection.py:114).    *)
ConnectionRecovers == focus = "connection" => WarmAgain

(* Once the embedder stays up and refuses no message for good, every       *)
(* message is embedded: an outage or a crash loses a pass, never a message *)
(* (archive/embed.py:26).                                                  *)
EmbeddingRecovers == focus = "embed" => BacklogDrains

(* Once mail stops changing, the bridge's consumer reaches the end of the  *)
(* stream, whatever was lost, retried or rebuilt (bridge/app.py:161).      *)
BridgeRecovers == focus = "bridge" => ConsumerCatchesUp
=============================================================================
