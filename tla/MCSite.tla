-------------------------------- MODULE MCSite --------------------------------
(* The rest of the site, each part on a small instance: the emails with the   *)
(* one worker that docker-compose runs (Notifications), the layers of the     *)
(* interface, the admin's orders, the cleanup of old orders, the token of the *)
(* CDEK client, and the backup and deployment scripts.  As in MCStorefront a  *)
(* behaviour is one of one part; the others stay as they begin, at rest, so   *)
(* that their fairness asks nothing of them.                                  *)
EXTENDS Notifications, Layers, AdminOrders, Retention, TokenCache, Backup

VARIABLE part   \* the part that runs

SiteInit ==
  /\ part \in {"emails", "layers", "admin", "retention", "token", "backup"}
  /\ Init /\ AdminInit /\ RetentionInit /\ TokenInit /\ BackupInit
  /\ IF part = "layers" THEN LayersInit
     ELSE /\ layers = setRouteState(ClosedLayers, Plain("/")) /\ path = Plain("/")
          /\ effect = FALSE /\ navigation = {} /\ events = 0

Emails    == Next /\ UNCHANGED <<layersVars, adminVars, retentionVars, tokenVars, backupVars>>
Interface == LayersNext /\ UNCHANGED <<vars, adminVars, retentionVars, tokenVars, backupVars>>
Admin     == AdminNext /\ UNCHANGED <<vars, layersVars, retentionVars, tokenVars, backupVars>>
OldOrders == RetentionNext /\ UNCHANGED <<vars, layersVars, adminVars, tokenVars, backupVars>>
CdekToken == TokenNext /\ UNCHANGED <<vars, layersVars, adminVars, retentionVars, backupVars>>
Scripts   == BackupNext /\ UNCHANGED <<vars, layersVars, adminVars, retentionVars, tokenVars>>

SiteNext ==
  /\ UNCHANGED part
  /\ \/ part = "emails" /\ Emails
     \/ part = "layers" /\ Interface
     \/ part = "admin" /\ Admin
     \/ part = "retention" /\ OldOrders
     \/ part = "token" /\ CdekToken
     \/ part = "backup" /\ Scripts

\* The fairness of each part: Notifications!FairSpec, LayersSpec and AdminSpec.
SiteSpec ==
  /\ SiteInit
  /\ [][SiteNext]_<<part, vars, layersVars, adminVars, retentionVars, tokenVars, backupVars>>
  /\ \A w \in Worker : WF_vars(part = "emails" /\ Continue(w))
  /\ \A o \in Order : WF_vars(LockAges(o))
  /\ LayersFairness
  /\ AdminFairness

\* The parts whose inductive invariant is not a property of its own: the outcomes of
\* the one worker, the token, the types of the layers, and what the admin's table
\* rests on.  Each part keeps its own, whichever part runs.
SiteInv == OutcomeInv /\ TokenInv /\ LayersTypeOK /\ AdminInv
===============================================================================
