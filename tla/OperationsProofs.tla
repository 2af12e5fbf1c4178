--------------------------- MODULE OperationsProofs ---------------------------
(***************************************************************************)
(* Proofs about the state machines beside the shop, and about the site     *)
(* that MCSite composes of them.                                           *)
(*                                                                         *)
(* TokenInv, for any number of requests and any lifetimes that satisfy     *)
(* TokenCacheAssumption (MaxTime, the bound TLC needs, is any number),     *)
(* says how much of its life a token has left.  A token that is "issued"   *)
(* was made while its request, at most Timeout old, was under way; so the  *)
(* cache, which counts from the receipt, is late by at most Timeout, and   *)
(* the margin leaves another Timeout to a request that uses the token at   *)
(* the last moment.                                                        *)
(*                                                                         *)
(* BackupInv is inductive for any number of versions and of writes.        *)
(* OwnSteps says that a script knows that it stopped the services exactly  *)
(* in the steps in which it did.  Alone says, while no two scripts ever    *)
(* overlapped, where the services stand in each step: down as long as a    *)
(* script holds them, so that nothing is written between dump and archive, *)
(* and otherwise up, on images and a schema of one version.                *)
(*                                                                         *)
(* AdminInv is inductive for any finite set of orders, any Limit and any   *)
(* number of loads and of clicks.  TableInv follows the table from one     *)
(* load to the next: undisturbed there is at most one, for the query that  *)
(* the controls show unless the effect is due, and what it brought is what *)
(* the database holds, or was before a change whose handler has yet to     *)
(* load again.  The pages themselves: those of one list hold each order    *)
(* once (OnePageEach).  Sorted by createdAt there is only one list, since  *)
(* an order's place is the number of orders before it (PlaceIsRank), so    *)
(* that pages asked one by one fit together (PagesTheorem).  Sorted by the *)
(* total this is not so: Postgres may list equal totals in another order   *)
(* at each request.                                                        *)
(*                                                                         *)
(* Every part of the site keeps its invariant in its own steps, and in     *)
(* those of another, which leave its variables alone (SiteInvariance).     *)
(***************************************************************************)
EXTENDS MCSite, NotificationsProofs, LayersProofs, FiniteSetTheorems, FunctionTheorems,
        SequenceTheorems, TLAPS

-------------------------------------------------------------------------------
\* The token of the CDEK client

\* Nothing is cached or asked at the start.
LEMMA TokenInitInv == TokenInit => TokenInv
  BY TokenCacheAssumption
  DEF TokenInit, TokenInv, TokenTypeOK, Token, Call, CallInv, NoToken, NoCall

\* A cached token that is used has Timeout units left; one that is not cached
\* is asked for now.
LEMMA UseOrAskInv ==
  ASSUME TokenInv, NEW c \in Caller, UseOrAsk(c)
  PROVE  TokenInv'
<1>1. TokenTypeOK'
  BY DEF TokenInv, TokenTypeOK, UseOrAsk, Call, Token
<1>2. ASSUME NEW d \in Caller PROVE CallInv(d)'
  <2>1. CASE d # c
    BY <1>2, <2>1 DEF TokenInv, TokenTypeOK, UseOrAsk, CallInv
  <2>2. CASE d = c /\ cached.expiresAt > now
    <3>1. /\ call'[d] = [step |-> "sent", since |-> now, token |-> cached.dies]
          /\ now' = now
      BY <2>2 DEF TokenInv, TokenTypeOK, UseOrAsk
    <3>2. cached.expiresAt # 0 /\ now + Timeout < cached.dies
      BY <2>2, TokenCacheAssumption DEF TokenInv, TokenTypeOK, Token
    <3> QED
      BY <3>1, <3>2, TokenCacheAssumption DEF TokenInv, TokenTypeOK, Token, CallInv
  <2>3. CASE d = c /\ ~(cached.expiresAt > now)
    BY <2>3, TokenCacheAssumption DEF TokenInv, TokenTypeOK, UseOrAsk, CallInv
  <2> QED
    BY <2>1, <2>2, <2>3
<1> QED
  BY <1>1, <1>2 DEF TokenInv, UseOrAsk

\* A token is made after the request for it began.
LEMMA TokenIssuedInv ==
  ASSUME TokenInv, NEW c \in Caller, TokenIssued(c)
  PROVE  TokenInv'
<1>1. TokenTypeOK'
  BY TokenCacheAssumption DEF TokenInv, TokenTypeOK, TokenIssued, Call, Token
<1>2. ASSUME NEW d \in Caller PROVE CallInv(d)'
  BY <1>2, TokenCacheAssumption DEF TokenInv, TokenTypeOK, TokenIssued, CallInv, Call
<1> QED
  BY <1>1, <1>2 DEF TokenInv, TokenIssued

\* The receipt is at most Timeout later, and Life is more than twice that.
LEMMA TokenReceivedInv ==
  ASSUME TokenInv, NEW c \in Caller, TokenReceived(c)
  PROVE  TokenInv'
<1> DEFINE token == call[c].token
           since == call[c].since
<1>1. /\ token \in Nat /\ since \in Nat /\ now \in Nat
      /\ now <= since + Timeout /\ since + Life <= token
  BY DEF TokenInv, TokenTypeOK, TokenReceived, CallInv, Call
<1>2. /\ cached' = [dies |-> token, expiresAt |-> (now + Life) - Margin]
      /\ now' = now
      /\ call' = [call EXCEPT ![c] = [step |-> "sent", since |-> now, token |-> token]]
  BY DEF TokenInv, TokenTypeOK, TokenReceived, expiry, Call
<1>3. (now + Life) - Margin \in Nat /\ ((now + Life) - Margin) + Margin <= token + Timeout
  BY <1>1, TokenCacheAssumption
<1>4. now + Timeout < token
  BY <1>1, TokenCacheAssumption
<1> HIDE DEF token, since
<1>5. TokenTypeOK'
  BY <1>1, <1>2, <1>3 DEF TokenInv, TokenTypeOK, Call, Token
<1>6. ASSUME NEW d \in Caller PROVE CallInv(d)'
  <2>1. CASE d = c
    BY <1>1, <1>2, <1>4, <2>1, TokenCacheAssumption DEF TokenInv, TokenTypeOK, CallInv
  <2>2. CASE d # c
    BY <1>2, <1>6, <2>2 DEF TokenInv, TokenTypeOK, CallInv
  <2> QED
    BY <2>1, <2>2
<1> QED
  BY <1>2, <1>3, <1>5, <1>6 DEF TokenInv

\* What ends leaves nothing to promise.
LEMMA CallEndsInv ==
  ASSUME TokenInv, NEW c \in Caller, CallEnds(c)
  PROVE  TokenInv'
<1>1. TokenTypeOK'
  BY DEF TokenInv, TokenTypeOK, CallEnds, Call, NoCall
<1>2. ASSUME NEW d \in Caller PROVE CallInv(d)'
  BY <1>2 DEF TokenInv, TokenTypeOK, CallEnds, CallInv, NoCall
<1> QED
  BY <1>1, <1>2 DEF TokenInv, CallEnds

\* Time stops for a request that is Timeout old.
LEMMA TimePassesInv ==
  ASSUME TokenInv, TimePasses
  PROVE  TokenInv'
<1>1. TokenTypeOK'
  BY DEF TokenInv, TokenTypeOK, TimePasses
<1>2. ASSUME NEW d \in Caller PROVE CallInv(d)'
  BY <1>2, TokenCacheAssumption DEF TokenInv, TokenTypeOK, TimePasses, CallInv, Call
<1> QED
  BY <1>1, <1>2 DEF TokenInv, TimePasses

LEMMA TokenStep == TokenInv /\ [TokenNext]_tokenVars => TokenInv'
<1> SUFFICES ASSUME TokenInv, [TokenNext]_tokenVars PROVE TokenInv'
  OBVIOUS
<1>1. ASSUME NEW c \in Caller, UseOrAsk(c) PROVE TokenInv'
  BY <1>1, UseOrAskInv
<1>2. ASSUME NEW c \in Caller, TokenIssued(c) PROVE TokenInv'
  BY <1>2, TokenIssuedInv
<1>3. ASSUME NEW c \in Caller, TokenReceived(c) PROVE TokenInv'
  BY <1>3, TokenReceivedInv
<1>4. ASSUME NEW c \in Caller, CallEnds(c) PROVE TokenInv'
  BY <1>4, CallEndsInv
<1>5. CASE TokenRestart
  BY <1>5 DEF TokenRestart, TokenInv, TokenTypeOK, Token, Call, CallInv, NoToken, NoCall
<1>6. CASE TimePasses
  BY <1>6, TimePassesInv
<1>7. CASE UNCHANGED tokenVars
  BY <1>7 DEF tokenVars, TokenInv, TokenTypeOK, CallInv
<1> QED
  BY <1>1, <1>2, <1>3, <1>4, <1>5, <1>6, <1>7 DEF TokenNext

\* The life that is left to every token the client holds or uses.
THEOREM TokenInvariance == TokenSpec => []TokenInv
  BY TokenInitInv, TokenStep, PTL DEF TokenSpec

\* No request reaches CDEK with a dead token (getCdekToken).
THEOREM NoDeadTokenTheorem == TokenSpec => []NoDeadToken
<1>1. TokenInv => NoDeadToken
  BY TokenCacheAssumption DEF TokenInv, TokenTypeOK, CallInv, NoDeadToken, Call
<1> QED
  BY <1>1, TokenInvariance, PTL

-------------------------------------------------------------------------------
\* The backup and deployment scripts

LEMMA BackupInitInv == BackupInit => BackupInv
  BY BackupAssumption
  DEF BackupInit, BackupInv, BackupTypeOK, OwnSteps, Alone, Holds, Script, BackupStep,
      DeployStep, AppServices, Trouble

\* Services write only while no script holds them.
LEMMA ServiceWritesInv ==
  ASSUME BackupInv, ServiceWrites
  PROVE  BackupInv'
<1> USE DEF Script, BackupStep, DeployStep, AppServices
<1>1. BackupTypeOK'
  BY BackupAssumption DEF BackupInv, BackupTypeOK, ServiceWrites, Containers, Versions
<1>2. OwnSteps'
  BY DEF BackupInv, OwnSteps, ServiceWrites
<1>3. ASSUME "overlap" \notin broken' PROVE Alone'
  BY <1>3 DEF BackupInv, OwnSteps, Alone, Holds, ServiceWrites, Containers, Versions
<1> QED
  BY <1>1, <1>2, <1>3 DEF BackupInv

\* A script that starts beside another one ends what Alone says.
LEMMA StartScriptInv ==
  ASSUME BackupInv, NEW s \in Script, StartScript(s)
  PROVE  BackupInv'
<1> USE DEF Proceed, Script, BackupStep, DeployStep, AppServices
<1>1. BackupTypeOK'
  BY BackupAssumption DEF BackupInv, BackupTypeOK, StartScript, Containers, Trouble
<1>2. OwnSteps'
  BY DEF BackupInv, BackupTypeOK, OwnSteps, StartScript
<1>3. ASSUME "overlap" \notin broken' PROVE Alone'
  BY <1>3 DEF BackupInv, BackupTypeOK, OwnSteps, Alone, Holds, StartScript, Containers
<1> QED
  BY <1>1, <1>2, <1>3 DEF BackupInv

\* The early steps touch nothing that Alone speaks of.
LEMMA PrepareBackupInv ==
  ASSUME BackupInv, NEW s \in Script, PrepareBackup(s)
  PROVE  BackupInv'
<1> USE DEF Proceed, Script, BackupStep, DeployStep, AppServices
<1>1. BackupTypeOK'
  BY BackupAssumption DEF BackupInv, BackupTypeOK, PrepareBackup, Containers, Versions,
                          Trouble
<1>2. OwnSteps'
  BY DEF BackupInv, BackupTypeOK, OwnSteps, PrepareBackup, Containers, Versions
<1>3. ASSUME "overlap" \notin broken' PROVE Alone'
  BY <1>3 DEF BackupInv, BackupTypeOK, OwnSteps, Alone, Holds, PrepareBackup,
              Containers, Versions
<1> QED
  BY <1>1, <1>2, <1>3 DEF BackupInv

\* From here on the script holds the services down.
LEMMA StopServicesInv ==
  ASSUME BackupInv, NEW s \in Script, StopServices(s)
  PROVE  BackupInv'
<1> USE DEF Proceed, Script, BackupStep, DeployStep, AppServices
<1>1. BackupTypeOK'
  BY BackupAssumption DEF BackupInv, BackupTypeOK, StopServices, Containers, Versions,
                          Trouble
<1>2. OwnSteps'
  BY DEF BackupInv, BackupTypeOK, OwnSteps, StopServices, Containers, Versions
<1>3. ASSUME "overlap" \notin broken' PROVE Alone'
  BY <1>3 DEF BackupInv, BackupTypeOK, OwnSteps, Alone, Holds, StopServices, Containers,
              Versions
<1> QED
  BY <1>1, <1>2, <1>3 DEF BackupInv

\* The dump holds what was written so far.
LEMMA DumpPostgresInv ==
  ASSUME BackupInv, NEW s \in Script, DumpPostgres(s)
  PROVE  BackupInv'
<1> USE DEF Proceed, Script, BackupStep, DeployStep, AppServices
<1>1. BackupTypeOK'
  BY BackupAssumption DEF BackupInv, BackupTypeOK, DumpPostgres, Containers, Versions,
                          Trouble
<1>2. OwnSteps'
  BY DEF BackupInv, BackupTypeOK, OwnSteps, DumpPostgres, Containers, Versions
<1>3. ASSUME "overlap" \notin broken' PROVE Alone'
  BY <1>3 DEF BackupInv, BackupTypeOK, OwnSteps, Alone, Holds, DumpPostgres, Containers,
              Versions
<1> QED
  BY <1>1, <1>2, <1>3 DEF BackupInv

\* Nothing was written since the dump, as nothing runs.
LEMMA ArchiveUploadsInv ==
  ASSUME BackupInv, NEW s \in Script, ArchiveUploads(s)
  PROVE  BackupInv'
<1> USE DEF Proceed, Script, BackupStep, DeployStep, AppServices
<1>1. BackupTypeOK'
  BY BackupAssumption DEF BackupInv, BackupTypeOK, ArchiveUploads, Containers, Versions,
                          Trouble
<1>2. OwnSteps'
  BY DEF BackupInv, BackupTypeOK, OwnSteps, ArchiveUploads, Containers, Versions
<1>3. ASSUME "overlap" \notin broken' PROVE Alone'
  BY <1>3 DEF BackupInv, BackupTypeOK, OwnSteps, Alone, Holds, ArchiveUploads,
              Containers, Versions
<1> QED
  BY <1>1, <1>2, <1>3 DEF BackupInv

\* The services run again, from the images that fit the schema.
LEMMA RestartServicesInv ==
  ASSUME BackupInv, NEW s \in Script, RestartServices(s)
  PROVE  BackupInv'
<1> USE DEF Proceed, Script, BackupStep, DeployStep, AppServices
<1>1. BackupTypeOK'
  BY BackupAssumption DEF BackupInv, BackupTypeOK, RestartServices, ComposeUp,
                          Containers, Versions, Trouble
<1>2. OwnSteps'
  BY DEF BackupInv, BackupTypeOK, OwnSteps, RestartServices, ComposeUp, Containers,
         Versions
<1>3. ASSUME "overlap" \notin broken' PROVE Alone'
  BY <1>3 DEF BackupInv, BackupTypeOK, OwnSteps, Alone, Holds, RestartServices,
              ComposeUp, Containers, Versions
<1> QED
  BY <1>1, <1>2, <1>3 DEF BackupInv

\* A deployment goes on holding the services down.
LEMMA CleanupBackupsInv ==
  ASSUME BackupInv, NEW s \in Script, CleanupBackups(s)
  PROVE  BackupInv'
<1> USE DEF Proceed, Script, BackupStep, DeployStep, AppServices
<1>1. BackupTypeOK'
  BY BackupAssumption DEF BackupInv, BackupTypeOK, CleanupBackups, Containers, Versions,
                          Trouble
<1>2. OwnSteps'
  BY DEF BackupInv, BackupTypeOK, OwnSteps, CleanupBackups, Containers, Versions
<1>3. ASSUME "overlap" \notin broken' PROVE Alone'
  BY <1>3 DEF BackupInv, BackupTypeOK, OwnSteps, Alone, Holds, CleanupBackups,
              Containers, Versions
<1> QED
  BY <1>1, <1>2, <1>3 DEF BackupInv

\* The trap starts what the script stopped, and only that script stopped any.
LEMMA BackupFailsInv ==
  ASSUME BackupInv, NEW s \in Script, BackupFails(s)
  PROVE  BackupInv'
<1> USE DEF Proceed, Script, BackupStep, DeployStep, AppServices
<1>1. BackupTypeOK'
  BY BackupAssumption DEF BackupInv, BackupTypeOK, BackupFails, ComposeUp, Containers,
                          Versions, Trouble
<1>2. OwnSteps'
  BY DEF BackupInv, BackupTypeOK, OwnSteps, BackupFails, ComposeUp, Containers, Versions
<1>3. ASSUME "overlap" \notin broken' PROVE Alone'
  BY <1>3 DEF BackupInv, BackupTypeOK, OwnSteps, Alone, Holds, BackupFails, ComposeUp,
              Containers, Versions
<1> QED
  BY <1>1, <1>2, <1>3 DEF BackupInv

\* The images are those of the working tree.
LEMMA BuildImagesInv ==
  ASSUME BackupInv, NEW s \in Script, BuildImages(s)
  PROVE  BackupInv'
<1> USE DEF Proceed, Script, BackupStep, DeployStep, AppServices
<1>1. BackupTypeOK'
  BY BackupAssumption DEF BackupInv, BackupTypeOK, BuildImages, Containers, Versions,
                          Trouble
<1>2. OwnSteps'
  BY DEF BackupInv, BackupTypeOK, OwnSteps, BuildImages, Containers, Versions
<1>3. ASSUME "overlap" \notin broken' PROVE Alone'
  BY <1>3 DEF BackupInv, BackupTypeOK, OwnSteps, Alone, Holds, BuildImages, Containers,
              Versions
<1> QED
  BY <1>1, <1>2, <1>3 DEF BackupInv

\* So is the schema.
LEMMA MigrateInv ==
  ASSUME BackupInv, NEW s \in Script, Migrate(s)
  PROVE  BackupInv'
<1> USE DEF Proceed, Script, BackupStep, DeployStep, AppServices
<1>1. BackupTypeOK'
  BY BackupAssumption DEF BackupInv, BackupTypeOK, Migrate, Containers, Versions,
                          Trouble
<1>2. OwnSteps'
  BY DEF BackupInv, BackupTypeOK, OwnSteps, Migrate, Containers, Versions
<1>3. ASSUME "overlap" \notin broken' PROVE Alone'
  BY <1>3 DEF BackupInv, BackupTypeOK, OwnSteps, Alone, Holds, Migrate, Containers,
              Versions
<1> QED
  BY <1>1, <1>2, <1>3 DEF BackupInv

\* Everything runs, from one version.
LEMMA StartContainersInv ==
  ASSUME BackupInv, NEW s \in Script, StartContainers(s)
  PROVE  BackupInv'
<1> USE DEF Proceed, Script, BackupStep, DeployStep, AppServices
<1>1. BackupTypeOK'
  BY BackupAssumption DEF BackupInv, BackupTypeOK, StartContainers, ComposeUp,
                          Containers, Versions, Trouble
<1>2. OwnSteps'
  BY DEF BackupInv, BackupTypeOK, OwnSteps, StartContainers, ComposeUp, Containers,
         Versions
<1>3. ASSUME "overlap" \notin broken' PROVE Alone'
  BY <1>3 DEF BackupInv, BackupTypeOK, OwnSteps, Alone, Holds, StartContainers,
              ComposeUp, Containers, Versions
<1> QED
  BY <1>1, <1>2, <1>3 DEF BackupInv

\* What docker leaves running was made from the images that fit the schema.
LEMMA DockerFailsInv ==
  ASSUME BackupInv, NEW s \in Script, NEW left \in SUBSET AppServices, DockerFails(s, left)
  PROVE  BackupInv'
<1> USE DEF Proceed, Script, BackupStep, DeployStep, AppServices
<1>1. BackupTypeOK'
  BY BackupAssumption DEF BackupInv, BackupTypeOK, DockerFails, Versions, Trouble
<1>2. OwnSteps'
  BY DEF BackupInv, BackupTypeOK, OwnSteps, DockerFails
<1>3. ASSUME "overlap" \notin broken' PROVE Alone'
  BY <1>3 DEF BackupInv, BackupTypeOK, OwnSteps, Alone, Holds, DockerFails, Versions
<1> QED
  BY <1>1, <1>2, <1>3 DEF BackupInv

\* Images and schema may be of two versions then; nothing runs.
LEMMA DeployFailsInv ==
  ASSUME BackupInv, NEW s \in Script, NEW images \in 0 .. MaxVersion,
         NEW migrated \in 0 .. MaxVersion, DeployFails(s, images, migrated)
  PROVE  BackupInv'
<1> USE DEF Proceed, Script, BackupStep, DeployStep, AppServices
<1>1. BackupTypeOK'
  BY BackupAssumption DEF BackupInv, BackupTypeOK, DeployFails, Containers, Trouble
<1>2. OwnSteps'
  BY DEF BackupInv, BackupTypeOK, OwnSteps, DeployFails
<1>3. ASSUME "overlap" \notin broken' PROVE Alone'
  BY <1>3 DEF BackupInv, BackupTypeOK, OwnSteps, Alone, Holds, DeployFails, Containers
<1> QED
  BY <1>1, <1>2, <1>3 DEF BackupInv

LEMMA BackupStepInv == BackupInv /\ [BackupNext]_backupVars => BackupInv'
<1> SUFFICES ASSUME BackupInv, [BackupNext]_backupVars PROVE BackupInv'
  OBVIOUS
<1>1. CASE ServiceWrites
  BY <1>1, ServiceWritesInv
<1>2. ASSUME NEW s \in Script,
             \/ StartScript(s) \/ PrepareBackup(s) \/ StopServices(s) \/ DumpPostgres(s)
             \/ ArchiveUploads(s) \/ RestartServices(s) \/ CleanupBackups(s) \/ BackupFails(s)
      PROVE  BackupInv'
  BY <1>2, StartScriptInv, PrepareBackupInv, StopServicesInv, DumpPostgresInv,
     ArchiveUploadsInv, RestartServicesInv, CleanupBackupsInv, BackupFailsInv
<1>3. ASSUME NEW s \in Script, BuildImages(s) \/ Migrate(s) \/ StartContainers(s)
      PROVE  BackupInv'
  BY <1>3, BuildImagesInv, MigrateInv, StartContainersInv
<1>4. ASSUME NEW s \in Script, NEW left \in SUBSET AppServices, DockerFails(s, left)
      PROVE  BackupInv'
  BY <1>4, DockerFailsInv
<1>5. ASSUME NEW s \in Script, NEW images \in 0 .. MaxVersion,
             NEW migrated \in 0 .. MaxVersion, DeployFails(s, images, migrated)
      PROVE  BackupInv'
  BY <1>5, DeployFailsInv
<1>6. CASE UNCHANGED backupVars
  BY <1>6 DEF backupVars, BackupInv, BackupTypeOK, OwnSteps, Alone, Holds
<1> QED
  BY <1>1, <1>2, <1>3, <1>4, <1>5, <1>6 DEF BackupNext

\* Where the services stand in every step of the scripts.
THEOREM BackupInvariance == BackupSpec => []BackupInv
  BY BackupInitInv, BackupStepInv, PTL DEF BackupSpec

\* The dump and the archive of a backup show one moment of the shop.
THEOREM SnapshotTheorem == BackupSpec => []SnapshotIsConsistent
<1>1. BackupInv => SnapshotIsConsistent
  BY DEF BackupInv, Alone, SnapshotIsConsistent
<1> QED
  BY <1>1, BackupInvariance, PTL

\* When the scripts have ended, whichever of their commands failed, the services run.
THEOREM ServicesComeBackTheorem == BackupSpec => []ServicesComeBack
<1>1. BackupInv => ServicesComeBack
  BY DEF BackupInv, OwnSteps, Alone, Holds, ServicesComeBack, DeployStep
<1> QED
  BY <1>1, BackupInvariance, PTL

\* What runs was built for the schema it runs on.
THEOREM RunningCodeFitsSchemaTheorem == BackupSpec => []RunningCodeFitsSchema
<1>1. BackupInv => RunningCodeFitsSchema
  <2> SUFFICES ASSUME BackupInv, broken \cap {"overlap", "deploy"} = {}, running # {}
               PROVE  container = schema
    BY DEF RunningCodeFitsSchema
  <2>1. Alone /\ "deploy" \notin broken
    BY DEF BackupInv
  <2>2. \A s \in Script : script[s] \notin {"migrate", "up"}
    BY <2>1 DEF Alone, Holds, DeployStep
  <2> QED
    BY <2>1, <2>2 DEF Alone
<1> QED
  BY <1>1, BackupInvariance, PTL

-------------------------------------------------------------------------------
\* The admin's table

\* In a list every order has a place of its own.
LEMMA PlaceType ==
  ASSUME NEW q \in Query, NEW list \in Listings(q)
  PROVE  /\ IsFiniteSet(Found(q.search)) /\ Cardinality(Found(q.search)) \in Nat
         /\ Found(q.search) \subseteq ListedOrder
         /\ list \in [Found(q.search) -> 0 .. Cardinality(Found(q.search)) - 1]
         /\ \A a, b \in Found(q.search) : list[a] = list[b] => a = b
         /\ \A n \in 0 .. Cardinality(Found(q.search)) - 1 :
              \E o \in Found(q.search) : list[o] = n
<1>1. IsFiniteSet(Found(q.search)) /\ Found(q.search) \subseteq ListedOrder
  BY AdminOrdersAssumption, FS_Subset DEF Found
<1>2. list \in Bijection(Found(q.search), 0 .. Cardinality(Found(q.search)) - 1)
  BY DEF Listings
<1>3. Cardinality(Found(q.search)) \in Nat
  BY <1>1, FS_CardinalityType
<1> DEFINE S == Found(q.search)
           T == 0 .. Cardinality(S) - 1
<1>4. /\ list \in [S -> T]
      /\ \A a, b \in S : list[a] = list[b] => a = b
      /\ \A n \in T : \E o \in S : list[o] = n
  <2>1. list \in Bijection(S, T)
    BY <1>2
  <2> HIDE DEF S, T
  <2> QED
    BY <2>1, Fun_BijectionProperties
<1> QED
  BY <1>1, <1>3, <1>4

\* Whatever is asked, the answer is a table.
LEMMA AnswerType ==
  ASSUME AdminTypeOK, NEW q \in Query, NEW list \in Listings(q)
  PROVE  getOrders(q, list) \in Table
<1> DEFINE total == Cardinality(Found(q.search))
           pages == (total + Limit - 1) \div Limit
           rows  == {[at |-> list[o], id |-> o, row |-> database[o]] : o \in Page(q, list)}
<1>1. total \in Nat
  BY PlaceType
<1>2. pages \in Nat
  <2> HIDE DEF total
  <2>1. total + Limit - 1 \in Nat /\ Limit \in Nat /\ Limit > 0
    BY <1>1, AdminOrdersAssumption
  <2> QED
    BY <2>1
<1>3. rows \in SUBSET TableRow
  <2>1. \A o \in Page(q, list) : o \in ListedOrder /\ list[o] \in Nat
    BY PlaceType DEF Page
  <2> QED
    BY <2>1 DEF TableRow, AdminTypeOK
<1>4. getOrders(q, list) =
        [orders |-> rows, total |-> total, totalPages |-> pages, error |-> FALSE]
  BY DEF getOrders
<1> HIDE DEF total, pages, rows
<1> QED
  BY <1>1, <1>2, <1>3, <1>4 DEF Table

\* RemoveAt takes one load away and no other.
LEMMA LoadRemoved ==
  ASSUME NEW s \in Seq(Load), NEW i \in DOMAIN s
  PROVE  /\ RemoveAt(s, i) \in Seq(Load)
         /\ Len(RemoveAt(s, i)) = Len(s) - 1
  BY DEF RemoveAt

\* What neither touches the table nor takes a reload away.
LEMMA TableKept ==
  ASSUME AdminTypeOK, TableInv, Reload => Reload',
         UNCHANGED <<database, mounted, query, stale, table, isLoading, loads>>,
         disturbed' = FALSE => disturbed = FALSE, disturbed' \in BOOLEAN
  PROVE  TableInv'
<1> SUFFICES ASSUME ~disturbed' PROVE TableInv'
  BY DEF TableInv
<1>1. ~disturbed
  OBVIOUS
<1>2. IsAnswer(table, query)' <=> IsAnswer(table, query)
  BY DEF IsAnswer, getOrders
<1>3. \A i \in DOMAIN loads :
        IsAnswer(loads[i].answer, query)' <=> IsAnswer(loads[i].answer, query)
  BY DEF IsAnswer, getOrders
<1> QED
  BY <1>1, <1>2, <1>3 DEF TableInv, Current

\* The table is empty, and no effect or load is due.
LEMMA AdminInitInv == AdminInit => AdminInv
<1> SUFFICES ASSUME AdminInit PROVE AdminInv
  OBVIOUS
<1> USE DEF AdminInit
<1>1. database \in [ListedOrder -> AdminRow]
  BY DEF AdminRow
<1>2. query \in Query /\ table \in Table
  BY DEF Query, FirstQuery, Table, EmptyTable
<1>3. disabled \in [{"status", "retry"} -> SUBSET ListedOrder]
  BY DEF NoneDisabled
<1>4. loads \in Seq(Load) /\ Len(loads) <= MaxLoads /\ actions \in 0 .. MaxActions
  BY AdminOrdersAssumption
<1>5. AdminTypeOK
  BY <1>1, <1>2, <1>3, <1>4 DEF AdminTypeOK
<1>6. TableInv
  BY DEF TableInv
<1> QED
  BY <1>5, <1>6 DEF AdminInv


\* A load that begins undisturbed is the only one, for what the controls show.
LEMMA LoadBegins ==
  ASSUME AdminTypeOK, NEW q \in Query, NEW for \in {"effect", "status", "retry"},
         LoadOrders(q, for)
  PROVE  /\ loads' \in Seq(Load) /\ Len(loads') <= MaxLoads
         /\ isLoading' = TRUE /\ disturbed' \in BOOLEAN
         /\ ~disturbed' => /\ ~disturbed /\ q = query /\ Len(loads') = 1
                           /\ loads'[1].query = q /\ loads'[1].served = FALSE
<1> DEFINE new == [query |-> q, answer |-> EmptyTable, served |-> FALSE, for |-> for]
<1>1. /\ new \in Load /\ new.query = q /\ new.served = FALSE
  BY DEF Load, Table, EmptyTable
<1>2. loads \in Seq(Load) /\ Len(loads) \in Nat /\ MaxLoads \in Nat
  BY AdminOrdersAssumption DEF AdminTypeOK
<1>3. /\ loads' = Append(loads, new) /\ Len(loads) < MaxLoads /\ isLoading' = TRUE
      /\ disturbed' = (disturbed \/ loads # <<>> \/ q # query)
  BY DEF LoadOrders
<1> HIDE DEF new
<1>4. loads' \in Seq(Load) /\ Len(loads') = Len(loads) + 1
  BY <1>1, <1>2, <1>3
<1>5. loads = <<>> => Len(loads') = 1 /\ loads'[1] = new
  BY <1>1, <1>2, <1>3
<1>6. disturbed' \in BOOLEAN
  BY <1>3
<1>7. Len(loads') <= MaxLoads
  BY <1>2, <1>3, <1>4
<1>8. ~disturbed' => ~disturbed /\ q = query /\ loads = <<>>
  BY <1>3
<1> QED
  BY <1>1, <1>3, <1>4, <1>5, <1>6, <1>7, <1>8

\* A load that was asked for.
LEMMA OneOfLoads ==
  ASSUME AdminTypeOK, NEW i \in DOMAIN loads
  PROVE  /\ loads[i] \in Load /\ i \in 1 .. Len(loads) /\ loads # <<>>
         /\ loads[i].query \in Query /\ loads[i].answer \in Table
         /\ loads[i].for \in {"effect", "status", "retry"}
<1>1. loads \in Seq(Load) /\ i \in 1 .. Len(loads)
  BY DEF AdminTypeOK
<1>2. loads[i] \in Load
  BY <1>1, ElementOfSeq
<1> QED
  BY <1>1, <1>2 DEF Load

\* Once it is under way the table rests on it alone.
LEMMA OneLoad ==
  ASSUME ~disturbed' =>
           /\ Len(loads') = 1 /\ isLoading' = TRUE
           /\ loads'[1].query = query' /\ loads'[1].served = FALSE,
         loads' \in Seq(Load)
  PROVE  TableInv'
<1> SUFFICES ASSUME ~disturbed' PROVE TableInv'
  BY DEF TableInv
<1>1. DOMAIN loads' = {1} /\ loads' # <<>> /\ Len(loads') = 1
  OBVIOUS
<1>2. (loads' # <<>>) = TRUE
  BY <1>1
<1> QED
  BY <1>1, <1>2 DEF TableInv

\* The load of the effect is for the query of this render.
LEMMA EffectInv ==
  ASSUME AdminInv, Effect
  PROVE  AdminInv'
<1>1. AdminTypeOK /\ query \in Query /\ LoadOrders(query, "effect")
  BY DEF AdminInv, Effect, AdminTypeOK
<1>2. /\ UNCHANGED <<database, mounted, query, disabled, operation, actions>>
      /\ stale' = FALSE /\ mounted = TRUE
      /\ table' = [table EXCEPT !.error = FALSE]
  BY <1>1 DEF AdminInv, AdminTypeOK, Effect
<1>3. /\ loads' \in Seq(Load) /\ Len(loads') <= MaxLoads
      /\ isLoading' = TRUE /\ disturbed' \in BOOLEAN
      /\ ~disturbed' => /\ ~disturbed /\ Len(loads') = 1
                        /\ loads'[1].query = query /\ loads'[1].served = FALSE
  BY <1>1, LoadBegins
<1>4. table' \in Table
  BY <1>1, <1>2 DEF AdminTypeOK, Table
<1>5. AdminTypeOK'
  BY <1>1, <1>2, <1>3, <1>4 DEF AdminTypeOK
<1>6. TableInv'
  BY <1>2, <1>3, OneLoad
<1> QED
  BY <1>2, <1>5, <1>6 DEF AdminInv

\* The orders are read while no handler of the admin is between two steps.
LEMMA LoadServedInv ==
  ASSUME AdminInv, NEW i \in DOMAIN loads, LoadServed(i)
  PROVE  AdminInv'
<1>1. PICK q \in Query : q = loads[i].query
  BY OneOfLoads DEF AdminInv
<1>2. PICK list \in Listings(q) :
        loads' = [loads EXCEPT ![i].served = TRUE, ![i].answer = getOrders(q, list)]
  BY <1>1 DEF LoadServed
<1>3. PICK answer \in Table : answer = getOrders(q, list)
  BY AnswerType DEF AdminInv
<1>4. PICK load \in Load : /\ load = [loads[i] EXCEPT !.served = TRUE, !.answer = answer]
                           /\ load.query = q /\ load.answer = answer
  <2>1. loads[i] \in Load /\ loads[i].query = q
    BY <1>1, OneOfLoads DEF AdminInv
  <2>2. ASSUME NEW l \in Load
        PROVE  \E load \in Load :
                 /\ load = [l EXCEPT !.served = TRUE, !.answer = answer]
                 /\ load.query = l.query /\ load.answer = answer
    <3>1. [l EXCEPT !.served = TRUE, !.answer = answer] \in Load
      BY DEF Load
    <3>2. /\ [l EXCEPT !.served = TRUE, !.answer = answer].query = l.query
          /\ [l EXCEPT !.served = TRUE, !.answer = answer].answer = answer
      BY DEF Load
    <3> QED
      BY <3>1, <3>2
  <2> QED
    BY <2>1, <2>2
<1>5. /\ loads' = [loads EXCEPT ![i] = load]
      /\ UNCHANGED <<database, mounted, query, stale, table, isLoading, disabled, operation,
                     actions, disturbed>>
  BY <1>1, <1>2, <1>3, <1>4 DEF LoadServed, Screen
<1>6. loads \in Seq(Load) /\ i \in 1 .. Len(loads) /\ loads # <<>>
  BY OneOfLoads DEF AdminInv, AdminTypeOK
<1>7. /\ loads' \in Seq(Load) /\ Len(loads') = Len(loads)
      /\ \A j \in 1 .. Len(loads) : loads'[j] = IF j = i THEN load ELSE loads[j]
  BY <1>5, <1>6, ExceptSeq
<1>8. DOMAIN loads' = 1 .. Len(loads) /\ DOMAIN loads = 1 .. Len(loads) /\ loads' # <<>>
  BY <1>6, <1>7
<1>9. AdminTypeOK'
  BY <1>5, <1>7 DEF AdminInv, AdminTypeOK
<1>10. TableInv'
  <2> SUFFICES ASSUME ~disturbed' PROVE TableInv'
    BY DEF TableInv
  <2>1. Len(loads') <= 1 /\ (isLoading' <=> loads' # <<>>)
    BY <1>5, <1>6, <1>7, <1>8 DEF AdminInv, TableInv
  <2>2. ASSUME mounted', ~stale', NEW j \in DOMAIN loads'
        PROVE  loads'[j].query = query' /\ (IsAnswer(loads[j].answer, query)' \/ Reload')
    <3>1. j = i /\ query = query'
      BY <1>5, <1>6, <1>7, <1>8, <2>1, <2>2
    <3>2. loads'[j] = load /\ load.answer = answer /\ load.query = q
      BY <1>4, <1>7, <1>8, <2>2, <3>1
    <3>3. q = query
      BY <1>1, <1>5, <2>2 DEF AdminInv, TableInv
    <3>4. \E l \in Listings(query') : loads'[j].answer = getOrders(query, l)'
      <4>1. getOrders(query, list)' = getOrders(query, list)
        BY <1>5, <3>1 DEF getOrders
      <4>2. list \in Listings(query') /\ loads'[j].answer = getOrders(query, list)
        BY <1>3, <3>1, <3>2, <3>3
      <4> QED
        BY <4>1, <4>2
    <3> QED
      BY <3>1, <3>2, <3>3, <3>4 DEF IsAnswer
  <2> QED
    BY <1>8, <2>1, <2>2 DEF TableInv, Current
<1> QED
  BY <1>5, <1>6, <1>9, <1>10 DEF AdminInv

\* The rows that finally enables again are of one kind.
LEMMA EnableType ==
  ASSUME AdminTypeOK, NEW kind, Enable(kind)
  PROVE  disabled' \in [{"status", "retry"} -> SUBSET ListedOrder]
  BY DEF AdminTypeOK, Enable

\* When the only load has ended nothing is loading; what remains to be shown is the
\* table.
LEMMA LoadEnds ==
  ASSUME AdminInv, NEW i \in DOMAIN loads, loads' = RemoveAt(loads, i)
  PROVE  /\ loads' \in Seq(Load) /\ Len(loads') <= MaxLoads
         /\ mounted
         /\ ~disturbed => loads' = <<>>
<1>1. /\ loads \in Seq(Load) /\ i \in 1 .. Len(loads) /\ loads # <<>>
      /\ Len(loads) <= MaxLoads /\ MaxLoads \in Nat /\ mounted \in BOOLEAN
  BY OneOfLoads, AdminOrdersAssumption DEF AdminInv, AdminTypeOK
<1>2. loads' \in Seq(Load) /\ Len(loads') = Len(loads) - 1
  BY <1>1, LoadRemoved
<1>3. mounted
  BY <1>1 DEF AdminInv
<1>4. ~disturbed => Len(loads') = 0
  BY <1>1, <1>2 DEF AdminInv, TableInv
<1> QED
  BY <1>1, <1>2, <1>3, <1>4

\* The answer is for the query of the controls, or these have changed and the effect
\* is due.
LEMMA LoadAnsweredInv ==
  ASSUME AdminInv, NEW i \in DOMAIN loads, LoadAnswered(i)
  PROVE  AdminInv'
<1>1. PICK q \in Query : q = [query EXCEPT !.page = loads[i].query.page]
  <2>1. query \in Query /\ loads[i].query \in Query
    BY OneOfLoads DEF AdminInv, AdminTypeOK
  <2>2. [query EXCEPT !.page = loads[i].query.page] \in Query
    BY <2>1 DEF Query
  <2> QED
    BY <2>2
<1>2. /\ query' = q /\ stale' = (stale \/ q # query)
      /\ table' = loads[i].answer /\ isLoading' = FALSE
      /\ loads' = RemoveAt(loads, i)
      /\ UNCHANGED <<database, mounted, operation, actions, disturbed>>
  BY <1>1 DEF LoadAnswered, SetQuery
<1>3. table' \in Table /\ stale' \in BOOLEAN
  BY <1>2, OneOfLoads DEF AdminInv, AdminTypeOK
<1>4. disabled' \in [{"status", "retry"} -> SUBSET ListedOrder]
  BY EnableType DEF AdminInv, LoadAnswered
<1>5. /\ loads' \in Seq(Load) /\ Len(loads') <= MaxLoads
      /\ mounted /\ (~disturbed => loads' = <<>>)
  BY <1>2, LoadEnds
<1>6. AdminTypeOK'
  BY <1>1, <1>2, <1>3, <1>4, <1>5 DEF AdminInv, AdminTypeOK
<1>7. TableInv'
  <2> SUFFICES ASSUME ~disturbed' PROVE TableInv'
    BY DEF TableInv
  <2>1. ~disturbed /\ loads' = <<>> /\ ~isLoading'
    BY <1>2, <1>5
  <2>2. ASSUME mounted', ~stale' PROVE IsAnswer(table, query)' \/ Reload'
    <3>1. mounted /\ ~stale /\ q = query /\ query' = query
      BY <1>2, <2>2
    <3>2. loads[i].query = query /\ Current(loads[i].answer, query)
      BY <2>1, <3>1 DEF AdminInv, TableInv, LoadAnswered
    <3>3. CASE Reload
      BY <1>2, <3>3 DEF Reload
    <3>4. CASE IsAnswer(loads[i].answer, query)
      BY <1>2, <3>1, <3>4 DEF IsAnswer, getOrders
    <3> QED
      BY <3>2, <3>3, <3>4 DEF Current
  <2> QED
    BY <2>1, <2>2 DEF TableInv, Current
<1> QED
  BY <1>2, <1>5, <1>6, <1>7 DEF AdminInv

\* The table then is an error.
LEMMA LoadFailsInv ==
  ASSUME AdminInv, NEW i \in DOMAIN loads, LoadFails(i)
  PROVE  AdminInv'
<1>1. /\ table' = [EmptyTable EXCEPT !.error = TRUE] /\ isLoading' = FALSE
      /\ loads' = RemoveAt(loads, i)
      /\ UNCHANGED <<database, mounted, query, stale, operation, actions, disturbed>>
  BY DEF LoadFails
<1>2. table' \in Table /\ table'.error = TRUE
  BY <1>1 DEF Table, EmptyTable
<1>3. disabled' \in [{"status", "retry"} -> SUBSET ListedOrder]
  BY EnableType DEF AdminInv, LoadFails
<1>4. /\ loads' \in Seq(Load) /\ Len(loads') <= MaxLoads
      /\ mounted /\ (~disturbed => loads' = <<>>)
  BY <1>1, LoadEnds
<1>5. AdminTypeOK'
  BY <1>1, <1>2, <1>3, <1>4 DEF AdminInv, AdminTypeOK
<1>6. TableInv'
  <2> SUFFICES ASSUME ~disturbed' PROVE TableInv'
    BY DEF TableInv
  <2>1. loads' = <<>> /\ ~isLoading' /\ table.error'
    BY <1>1, <1>2, <1>4
  <2> QED
    BY <2>1 DEF TableInv
<1> QED
  BY <1>1, <1>4, <1>5, <1>6 DEF AdminInv

\* The bound on the events is kept.
LEMMA EventCount ==
  ASSUME AdminTypeOK, Event PROVE actions' \in 0 .. MaxActions
  BY AdminOrdersAssumption DEF AdminTypeOK, Event

\* Another query is not what the table rests on: the effect is due.
LEMMA ControlsInv ==
  ASSUME AdminInv, NEW q \in Query, Controls(q)
  PROVE  AdminInv'
<1>1. /\ mounted /\ query' = q /\ stale' = (stale \/ q # query) /\ actions' = actions + 1
      /\ UNCHANGED <<database, mounted, table, isLoading, disabled, loads, operation, disturbed>>
  BY DEF Controls, Event, SetQuery
<1>2. stale' \in BOOLEAN /\ actions' \in 0 .. MaxActions
  BY <1>1, EventCount DEF AdminInv, AdminTypeOK, Controls
<1>3. AdminTypeOK'
  BY <1>1, <1>2 DEF AdminInv, AdminTypeOK
<1>4. TableInv'
  <2>1. CASE q = query
    <3>1. UNCHANGED <<database, mounted, query, stale, table, isLoading, loads>> /\ (Reload => Reload')
      BY <1>1, <2>1 DEF AdminInv, AdminTypeOK, Reload
    <3> QED
      BY <1>1, <3>1, TableKept DEF AdminInv, AdminTypeOK
  <2>2. CASE q # query
    BY <1>1, <2>2 DEF AdminInv, TableInv
  <2> QED
    BY <2>1, <2>2
<1> QED
  BY <1>1, <1>3, <1>4 DEF AdminInv

\* What a control asks for is a query again.
LEMMA QueryType ==
  ASSUME NEW q \in Query, NEW search \in BOOLEAN, NEW sortBy \in {"createdAt", "total"},
         NEW sortDir \in {"asc", "desc"}
  PROVE  /\ [q EXCEPT !.page = 1, !.search = search] \in Query
         /\ [q EXCEPT !.page = 1, !.sortBy = sortBy, !.sortDir = sortDir] \in Query
         /\ q.page > 1 => [q EXCEPT !.page = @ - 1] \in Query
         /\ [q EXCEPT !.page = @ + 1] \in Query
<1>1. [q EXCEPT !.page = 1] \in Query
  BY DEF Query
<1>2. [[q EXCEPT !.page = 1] EXCEPT !.search = search] \in Query
  BY <1>1 DEF Query
<1>3. [[q EXCEPT !.page = 1] EXCEPT !.sortBy = sortBy] \in Query
  BY <1>1 DEF Query
<1>4. [[[q EXCEPT !.page = 1] EXCEPT !.sortBy = sortBy] EXCEPT !.sortDir = sortDir] \in Query
  BY <1>3 DEF Query
<1>5. /\ q.page > 1 => [q EXCEPT !.page = @ - 1] \in Query
      /\ [q EXCEPT !.page = @ + 1] \in Query
  BY DEF Query
<1> QED
  BY <1>2, <1>4, <1>5

LEMMA QueryStepInv ==
  ASSUME AdminInv,
         \/ \E search \in BOOLEAN : handleSearchSubmit(search)
         \/ resetSearch \/ PreviousPage \/ NextPage
         \/ \E sortBy \in {"createdAt", "total"} : applySort(sortBy)
  PROVE  AdminInv'
<1>1. query \in Query
  BY DEF AdminInv, AdminTypeOK
<1>2. ASSUME NEW search \in BOOLEAN, handleSearchSubmit(search) PROVE AdminInv'
  BY <1>1, <1>2, QueryType, ControlsInv DEF handleSearchSubmit
<1>3. CASE resetSearch
  BY <1>1, <1>3, QueryType, ControlsInv DEF resetSearch
<1>4. CASE PreviousPage
  BY <1>1, <1>4, QueryType, ControlsInv DEF PreviousPage
<1>5. CASE NextPage
  BY <1>1, <1>5, QueryType, ControlsInv DEF NextPage
<1>6. ASSUME NEW sortBy \in {"createdAt", "total"}, applySort(sortBy) PROVE AdminInv'
  <2>1. PICK sortDir \in {"asc", "desc"} :
          sortDir = IF sortBy = query.sortBy /\ query.sortDir = "desc" THEN "asc" ELSE "desc"
    OBVIOUS
  <2>2. Controls([query EXCEPT !.page = 1, !.sortBy = sortBy, !.sortDir = sortDir])
    BY <1>6, <2>1 DEF applySort
  <2> QED
    BY <1>1, <2>2, QueryType, ControlsInv
<1> QED
  BY <1>2, <1>3, <1>4, <1>5, <1>6

\* A widget that is shown loads the orders first; one that is not rests.
LEMMA MountInv ==
  ASSUME AdminInv, Mount \/ Unmount
  PROVE  AdminInv'
<1>1. CASE Mount
  <2>1. /\ mounted' = TRUE /\ stale' = TRUE /\ actions' = actions + 1
        /\ UNCHANGED <<database, query, table, isLoading, disabled, loads, operation, disturbed>>
    BY <1>1 DEF Mount, Event
  <2>2. actions' \in 0 .. MaxActions
    BY <1>1, EventCount DEF AdminInv, Mount
  <2> QED
    BY <2>1, <2>2 DEF AdminInv, AdminTypeOK, TableInv
<1>2. CASE Unmount
  <2>1. /\ mounted' = FALSE /\ stale' = FALSE /\ query' = FirstQuery /\ table' = EmptyTable
        /\ isLoading' = FALSE /\ loads' = <<>> /\ disabled' = NoneDisabled
        /\ operation' = {[p EXCEPT !.live = FALSE] : p \in operation}
        /\ actions' = actions + 1 /\ UNCHANGED <<database, disturbed>>
    BY <1>2 DEF Unmount, Event
  <2>2. actions' \in 0 .. MaxActions
    BY <1>2, EventCount DEF AdminInv, Unmount
  <2>3. \A p \in Operation : /\ [p EXCEPT !.live = FALSE] \in Operation
                             /\ [p EXCEPT !.live = FALSE].live = FALSE
    BY DEF Operation
  <2>4. operation' \subseteq Operation /\ \A p \in operation' : ~p.live
    BY <2>1, <2>3 DEF AdminInv, AdminTypeOK
  <2>5. /\ query' \in Query /\ table' \in Table
        /\ disabled' \in [{"status", "retry"} -> SUBSET ListedOrder]
        /\ loads' \in Seq(Load) /\ Len(loads') <= MaxLoads
    BY <2>1, AdminOrdersAssumption DEF FirstQuery, Query, EmptyTable, Table, NoneDisabled
  <2>6. AdminTypeOK'
    BY <2>1, <2>2, <2>4, <2>5 DEF AdminInv, AdminTypeOK
  <2> QED
    BY <2>1, <2>4, <2>6 DEF AdminInv, TableInv
<1> QED
  BY <1>1, <1>2

\* A request that begins changes nothing that the table rests on.
LEMMA OperateInv ==
  ASSUME AdminInv, NEW kind \in {"status", "retry"}, NEW o \in ListedOrder,
         NEW status \in ManualStatus \cup {""}, Operate(kind, o, status)
  PROVE  AdminInv'
<1>1. PICK new \in Operation :
        new = [kind |-> kind, id |-> o, status |-> status, query |-> query,
               result |-> "none", live |-> TRUE]
  BY DEF AdminInv, AdminTypeOK, Operation
<1>2. /\ mounted /\ actions < MaxActions /\ actions' = actions + 1
      /\ operation' = operation \cup {new}
      /\ disabled' = [disabled EXCEPT ![kind] = {o}]
      /\ UNCHANGED <<database, mounted, query, stale, table, isLoading, loads, disturbed>>
  BY <1>1 DEF Operate, Event
<1>3. actions' \in 0 .. MaxActions
  BY EventCount DEF AdminInv, Operate
<1>4. AdminTypeOK'
  BY <1>1, <1>2, <1>3 DEF AdminInv, AdminTypeOK
<1>5. Reload => Reload'
  BY <1>2 DEF Reload
<1>6. TableInv'
  BY <1>2, <1>5, TableKept DEF AdminInv, AdminTypeOK
<1> QED
  BY <1>2, <1>4, <1>6 DEF AdminInv

\* A change that the widget is not told of disturbs; any other is followed by a
\* reload.
LEMMA OperationServedInv ==
  ASSUME AdminInv, NEW p \in operation, NEW shipment \in {"numbered", "failed"},
         NEW result \in {"done", "refused"}, OperationServed(p, shipment, result)
  PROVE  AdminInv'
<1>1. PICK served \in Operation : /\ served = [p EXCEPT !.result = result]
                                  /\ served.live = p.live /\ served.result = result
  <2>1. p \in Operation
    BY DEF AdminInv, AdminTypeOK
  <2>2. /\ [p EXCEPT !.result = result] \in Operation
        /\ [p EXCEPT !.result = result].live = p.live
        /\ [p EXCEPT !.result = result].result = result
    BY <2>1 DEF Operation
  <2> QED
    BY <2>2
<1>2. /\ p.result = "none"
      /\ operation' = (operation \ {p}) \cup {served}
      /\ disturbed' = (disturbed \/ (database' # database /\ (result = "refused" \/ ~p.live)))
      /\ UNCHANGED <<mounted, query, stale, table, isLoading, disabled, loads, actions>>
  BY <1>1 DEF OperationServed, Screen
<1>3. database' \in [ListedOrder -> AdminRow]
  <2>1. p \in Operation /\ database \in [ListedOrder -> AdminRow]
    BY DEF AdminInv, AdminTypeOK
  <2>2. /\ p.id \in ListedOrder /\ p.status \in ManualStatus \cup {""}
        /\ database[p.id] \in AdminRow
    BY <2>1 DEF Operation
  <2>3. CASE p.kind = "retry"
    <3>1. database' = [database EXCEPT ![p.id] = [database[p.id] EXCEPT !.shipment = shipment]]
      BY <2>3 DEF OperationServed
    <3>2. [database[p.id] EXCEPT !.shipment = shipment] \in AdminRow
      BY <2>2 DEF AdminRow
    <3> QED
      BY <2>1, <3>1, <3>2
  <2>4. CASE p.kind # "retry" /\ result = "done"
    <3>1. /\ database' = [database EXCEPT ![p.id] = [database[p.id] EXCEPT !.status = p.status]]
          /\ p.status \in ManualStatus
      BY <2>2, <2>4 DEF OperationServed
    <3>2. [database[p.id] EXCEPT !.status = p.status] \in AdminRow
      BY <2>2, <3>1 DEF AdminRow
    <3> QED
      BY <2>1, <3>1, <3>2
  <2>5. CASE p.kind # "retry" /\ result # "done"
    BY <2>1, <2>5 DEF OperationServed
  <2> QED
    BY <2>3, <2>4, <2>5
<1>4. AdminTypeOK'
  BY <1>1, <1>2, <1>3 DEF AdminInv, AdminTypeOK
<1>5. TableInv'
  <2>1. Reload => Reload'
    BY <1>2 DEF Reload
  <2>2. CASE database' = database
    BY <1>2, <2>1, <2>2, TableKept DEF AdminInv, AdminTypeOK
  <2>3. CASE database' # database /\ ~disturbed'
    <3>1. ~disturbed /\ result = "done" /\ p.live
      BY <1>2, <2>3
    <3>2. Reload'
      BY <1>1, <1>2, <3>1 DEF Reload
    <3> QED
      BY <1>2, <3>1, <3>2 DEF AdminInv, TableInv, Current
  <2> QED
    BY <2>2, <2>3 DEF TableInv
<1>6. ~mounted => \A r \in operation' : ~r.live
  BY <1>1, <1>2 DEF AdminInv
<1> QED
  BY <1>2, <1>4, <1>5, <1>6 DEF AdminInv

\* The handler loads with the query of its click; that this is another one by now
\* disturbs.
LEMMA OperationDoneInv ==
  ASSUME AdminInv, NEW p \in operation, OperationDone(p)
  PROVE  AdminInv'
<1>1. AdminTypeOK /\ p \in Operation /\ p.live
  BY DEF AdminInv, AdminTypeOK, OperationDone
<1>2. PICK q \in Query : q = p.query
  BY <1>1 DEF Operation
<1>3. PICK for \in {"effect", "status", "retry"} : for = p.kind
  BY <1>1 DEF Operation
<1>4. /\ LoadOrders(q, for) /\ operation' = operation \ {p}
      /\ table' = [table EXCEPT !.error = FALSE]
      /\ UNCHANGED <<database, mounted, query, stale, disabled, actions>>
  BY <1>2, <1>3 DEF OperationDone
<1>5. /\ loads' \in Seq(Load) /\ Len(loads') <= MaxLoads
      /\ isLoading' = TRUE /\ disturbed' \in BOOLEAN
      /\ ~disturbed' => /\ ~disturbed /\ q = query /\ Len(loads') = 1
                        /\ loads'[1].query = q /\ loads'[1].served = FALSE
  BY <1>1, <1>4, LoadBegins
<1>6. table' \in Table
  BY <1>1, <1>4 DEF AdminTypeOK, Table
<1>7. AdminTypeOK'
  BY <1>1, <1>4, <1>5, <1>6 DEF AdminTypeOK
<1>8. TableInv'
  BY <1>4, <1>5, OneLoad
<1>9. mounted
  BY <1>1 DEF AdminInv, AdminTypeOK
<1> QED
  BY <1>4, <1>7, <1>8, <1>9 DEF AdminInv

\* That no reload will follow what was done disturbs.
LEMMA OperationFailsInv ==
  ASSUME AdminInv, NEW p \in operation, OperationFails(p)
  PROVE  AdminInv'
<1>1. /\ operation' = operation \ {p}
      /\ disturbed' = (disturbed \/ (p.live /\ p.result = "done"))
      /\ UNCHANGED <<database, mounted, query, stale, table, isLoading, loads, actions>>
  BY DEF OperationFails
<1>2. disabled' \in [{"status", "retry"} -> SUBSET ListedOrder]
  BY EnableType DEF AdminInv, AdminTypeOK, OperationFails
<1>3. AdminTypeOK'
  BY <1>1, <1>2 DEF AdminInv, AdminTypeOK
<1>4. TableInv'
  <2>1. CASE p.live /\ p.result = "done"
    BY <1>1, <2>1 DEF TableInv
  <2>2. CASE ~(p.live /\ p.result = "done")
    <3>1. Reload => Reload'
      BY <1>1, <2>2 DEF Reload
    <3> QED
      BY <1>1, <2>2, <3>1, TableKept DEF AdminInv, AdminTypeOK
  <2> QED
    BY <2>1, <2>2
<1> QED
  BY <1>1, <1>3, <1>4 DEF AdminInv

LEMMA AdminStepInv == AdminInv /\ [AdminNext]_adminVars => AdminInv'
<1> SUFFICES ASSUME AdminInv, [AdminNext]_adminVars PROVE AdminInv'
  OBVIOUS
<1>1. CASE Effect
  BY <1>1, EffectInv
<1>2. CASE Answers
  <2>1. ASSUME NEW i \in DOMAIN loads, LoadServed(i) \/ LoadAnswered(i) \/ LoadFails(i)
        PROVE  AdminInv'
    BY <2>1, LoadServedInv, LoadAnsweredInv, LoadFailsInv
  <2>2. ASSUME NEW p \in operation, NEW shipment \in {"numbered", "failed"},
               NEW result \in {"done", "refused"}, OperationServed(p, shipment, result)
        PROVE  AdminInv'
    BY <2>2, OperationServedInv
  <2>3. ASSUME NEW p \in operation, OperationDone(p) \/ OperationFails(p)
        PROVE  AdminInv'
    BY <2>3, OperationDoneInv, OperationFailsInv
  <2> QED
    BY <1>2, <2>1, <2>2, <2>3 DEF Answers
<1>3. CASE \/ \E search \in BOOLEAN : handleSearchSubmit(search)
           \/ resetSearch \/ PreviousPage \/ NextPage
           \/ \E sortBy \in {"createdAt", "total"} : applySort(sortBy)
  BY <1>3, QueryStepInv
<1>4. CASE Mount \/ Unmount
  BY <1>4, MountInv
<1>5. ASSUME NEW o \in ListedOrder, NEW status \in ManualStatus \cup {""},
             handleUpdateStatus(o, status)
      PROVE  AdminInv'
  BY <1>5, OperateInv DEF handleUpdateStatus
<1>6. ASSUME NEW o \in ListedOrder, handleRetryShipment(o)
      PROVE  AdminInv'
  BY <1>6, OperateInv DEF handleRetryShipment
<1>7. CASE UNCHANGED adminVars
  <2>1. TableInv'
    BY <1>7, TableKept DEF adminVars, AdminInv, AdminTypeOK, Reload
  <2> QED
    BY <1>7, <2>1 DEF adminVars, AdminInv, AdminTypeOK
<1> QED
  BY <1>1, <1>2, <1>3, <1>4, <1>5, <1>6, <1>7 DEF AdminNext

\* What the table of the admin rests on, in every step of the widget.
THEOREM AdminInvariance == AdminSpec => []AdminInv
  BY AdminInitInv, AdminStepInv, PTL DEF AdminSpec

\* A table that rests undisturbed is the one the controls and the database call for.
THEOREM TableIsCurrentTheorem == AdminSpec => []TableIsCurrent
<1>1. AdminInv => TableIsCurrent
  <2> SUFFICES ASSUME AdminInv, mounted, ~stale, ~isLoading, ~disturbed, operation = {}
               PROVE  table.error \/ IsAnswer(table, query)
    BY DEF TableIsCurrent
  <2>1. loads = <<>> /\ ~Reload
    BY DEF AdminInv, TableInv, Reload
  <2> QED
    BY <2>1 DEF AdminInv, TableInv, Current
<1> QED
  BY <1>1, AdminInvariance, PTL

\* Orders by createdAt, of two one comes before the other.
LEMMA BeforeByDate ==
  ASSUME NEW q \in Query, q.sortBy = "createdAt",
         NEW a \in Found(q.search), NEW b \in Found(q.search), a # b
  PROVE  Before(q, a, b) \/ Before(q, b, a)
  BY AdminOrdersAssumption DEF Before, Found

\* So an order's place in the list is the number of those before it.
LEMMA PlaceIsRank ==
  ASSUME NEW q \in Query, q.sortBy = "createdAt",
         NEW list \in Listings(q), NEW o \in Found(q.search)
  PROVE  list[o] = Cardinality({p \in Found(q.search) : Before(q, p, o)})
<1> DEFINE S == {p \in Found(q.search) : Before(q, p, o)}
           T == 0 .. list[o] - 1
           f == [p \in S |-> list[p]]
<1>1. list[o] \in Nat /\ list[o] <= Cardinality(Found(q.search)) - 1
  BY PlaceType
<1>2. \A a, b \in Found(q.search) : Before(q, a, b) => list[a] < list[b]
  BY DEF Listings
<1>3. \A p \in S : list[p] \in T
  BY <1>1, <1>2, PlaceType
<1>4. \A t \in T : \E p \in S : list[p] = t
  <2> SUFFICES ASSUME NEW t \in T PROVE \E p \in S : list[p] = t
    OBVIOUS
  <2>1. PICK p \in Found(q.search) : list[p] = t
    BY <1>1, PlaceType
  <2>2. p # o /\ ~Before(q, o, p)
    BY <1>1, <1>2, <2>1
  <2> QED
    BY <2>1, <2>2, BeforeByDate
<1>5. f \in Injection(S, T) /\ f \in Surjection(S, T)
  <2>1. f \in [S -> T]
    BY <1>3
  <2>2. \A a, b \in S : f[a] = f[b] => a = b
    BY PlaceType
  <2>3. \A t \in T : \E p \in S : f[p] = t
    BY <1>4
  <2> HIDE DEF f, S, T
  <2>4. f \in Injection(S, T)
    BY <2>1, <2>2, Fun_IsInj
  <2>5. f \in Surjection(S, T)
    BY <2>1, <2>3, Fun_IsSurj
  <2> QED
    BY <2>4, <2>5
<1>6. IsFiniteSet(T) /\ Cardinality(T) = list[o]
  <2>1. PICK n \in Nat : n = list[o]
    BY <1>1
  <2>2. IsFiniteSet(0 .. n - 1) /\ Cardinality(0 .. n - 1) = n
    <3>1. n - 1 \in Int /\ (0 > n - 1 => n = 0)
      OBVIOUS
    <3> QED
      BY <3>1, FS_Interval
  <2> QED
    BY <2>1, <2>2
<1> HIDE DEF f, S, T
<1>7. Cardinality(S) = list[o]
  BY <1>5, <1>6, FS_Injection
<1> QED
  BY <1>7 DEF S

\* The place of an order on its page.
LEMMA PageArithmetic ==
  ASSUME NEW r \in Nat, NEW total \in Nat, NEW n \in Nat \ {0}, r < total
  PROVE  /\ r \div n + 1 \in 1 .. (total + n - 1) \div n
         /\ (r \div n) * n <= r /\ r < (r \div n + 1) * n
         /\ \A m \in Nat \ {0} : (m - 1) * n <= r /\ r < m * n => m = r \div n + 1
  OBVIOUS

\* The pages of one list hold each of its orders once, none after totalPages, and no
\* more than Limit each.
LEMMA OnePageEach ==
  ASSUME NEW q \in Query, NEW list \in Listings(q)
  PROVE  /\ \A o \in Found(q.search) :
              \E n \in 1 .. getOrders(q, list).totalPages :
                \A m \in Nat \ {0} : o \in Page([q EXCEPT !.page = m], list) <=> m = n
         /\ IsFiniteSet(Page(q, list)) /\ Cardinality(Page(q, list)) <= Limit
<1> DEFINE total == Cardinality(Found(q.search))
<1>1. total \in Nat /\ Limit \in Nat \ {0}
  BY AdminOrdersAssumption, PlaceType
<1>2. ASSUME NEW o \in Found(q.search)
      PROVE  \E n \in 1 .. getOrders(q, list).totalPages :
               \A m \in Nat \ {0} : o \in Page([q EXCEPT !.page = m], list) <=> m = n
  <2> DEFINE r == list[o]
             n == r \div Limit + 1
  <2>1. r \in Nat /\ r < total
    BY <1>1, PlaceType
  <2>2. getOrders(q, list).totalPages = (total + Limit - 1) \div Limit
    BY DEF getOrders
  <2>3. ASSUME NEW m \in Nat \ {0}
        PROVE  o \in Page([q EXCEPT !.page = m], list)
                 <=> (m - 1) * Limit <= r /\ r < m * Limit
    <3>1. [q EXCEPT !.page = m].page = m /\ [q EXCEPT !.page = m].search = q.search
      BY DEF Query
    <3> QED
      BY <3>1 DEF Page
  <2> HIDE DEF r, total
  <2>4. n \in 1 .. (total + Limit - 1) \div Limit /\ n \in Nat \ {0}
    BY <1>1, <2>1, PageArithmetic
  <2>5. \A m \in Nat \ {0} : (m - 1) * Limit <= r /\ r < m * Limit <=> m = n
    BY <1>1, <2>1, PageArithmetic
  <2> QED
    BY <2>2, <2>3, <2>4, <2>5
<1>3. IsFiniteSet(Page(q, list)) /\ Cardinality(Page(q, list)) <= Limit
  <2> DEFINE first == (q.page - 1) * Limit
             places == first .. (first + Limit - 1)
             f == [o \in Page(q, list) |-> list[o]]
  <2>1. first \in Nat /\ q.page * Limit = first + Limit
    BY <1>1 DEF Query
  <2>2. Page(q, list) \subseteq Found(q.search)
    BY DEF Page
  <2>3. \A o \in Page(q, list) : list[o] \in places
    BY <1>1, <2>1, PlaceType DEF Page
  <2>4. \A a, b \in Page(q, list) : list[a] = list[b] => a = b
    BY <2>2, PlaceType
  <2>5. f \in Injection(Page(q, list), places)
    BY <2>3, <2>4, Fun_IsInj
  <2>6. IsFiniteSet(places) /\ Cardinality(places) = Limit
    <3>1. first \in Int /\ first + Limit - 1 \in Int /\ first <= first + Limit - 1
          /\ (first + Limit - 1) - first + 1 = Limit
      BY <1>1, <2>1
    <3> HIDE DEF first
    <3> QED
      BY <3>1, FS_Interval
  <2> QED
    BY <2>5, <2>6, FS_Injection
<1> QED
  BY <1>2, <1>3

\* Sorted by createdAt, pages that are asked one after the other, of a database whose
\* orders stay the same ones, hold every order that the search finds once, whatever
\* Postgres does at each request (getOrders).  Sorted by the total they need not.
THEOREM PagesTheorem ==
  ASSUME NEW q \in Query, q.sortBy = "createdAt",
         NEW list \in [Nat \ {0} -> Listings(q)]
  PROVE  \A o \in Found(q.search) :
           \E n \in 1 .. getOrders(q, list[1]).totalPages :
             \A m \in Nat \ {0} : o \in Page([q EXCEPT !.page = m], list[m]) <=> m = n
<1> SUFFICES ASSUME NEW o \in Found(q.search)
             PROVE  \E n \in 1 .. getOrders(q, list[1]).totalPages :
                      \A m \in Nat \ {0} :
                        o \in Page([q EXCEPT !.page = m], list[m]) <=> m = n
  OBVIOUS
<1>1. PICK first \in Listings(q) : first = list[1]
  OBVIOUS
<1>2. PICK n \in 1 .. getOrders(q, list[1]).totalPages :
        \A m \in Nat \ {0} : o \in Page([q EXCEPT !.page = m], list[1]) <=> m = n
  BY <1>1, OnePageEach
<1>3. ASSUME NEW m \in Nat \ {0}
      PROVE  o \in Page([q EXCEPT !.page = m], list[m])
               <=> o \in Page([q EXCEPT !.page = m], list[1])
  <2>1. PICK other \in Listings(q) : other = list[m]
    OBVIOUS
  <2>2. other[o] = first[o]
    <3>1. other[o] = Cardinality({p \in Found(q.search) : Before(q, p, o)})
      BY PlaceIsRank
    <3>2. first[o] = Cardinality({p \in Found(q.search) : Before(q, p, o)})
      BY PlaceIsRank
    <3> QED
      BY <3>1, <3>2
  <2> QED
    BY <1>1, <2>1, <2>2 DEF Page
<1> QED
  BY <1>2, <1>3

-------------------------------------------------------------------------------
\* The site

\* A part that does not run stays as it is.
LEMMA PartsStep ==
  ASSUME MailInv, SoundInv, AdminInv, TokenInv,
         [SiteNext]_<<part, vars, layersVars, adminVars, retentionVars, tokenVars, backupVars>>
  PROVE  MailInv' /\ SoundInv' /\ AdminInv' /\ TokenInv'
<1>1. /\ [Next]_vars /\ [LayersNext]_layersVars
      /\ [AdminNext]_adminVars /\ [TokenNext]_tokenVars
  BY DEF SiteNext, Emails, Interface, Admin, OldOrders, CdekToken, Scripts
<1> QED
  BY <1>1, NextMailInv, LayersStep, AdminStepInv, TokenStep

\* The layers at rest on the page of the shop.
LEMMA InterfaceInitInv == SiteInit => SoundInv
<1> SUFFICES ASSUME SiteInit PROVE SoundInv
  OBVIOUS
<1>1. CASE part = "layers"
  BY <1>1, LayersInitInv DEF SiteInit
<1>2. CASE part # "layers"
  <2>1. /\ layers = setRouteState(ClosedLayers, Plain("/")) /\ path = Plain("/")
        /\ effect = FALSE /\ navigation = {} /\ events = 0
    BY <1>2 DEF SiteInit
  <2>2. path \in Path
    BY <2>1 DEF Path, Plain
  <2>3. SoundState(layers)
    BY <2>1, <2>2, ClosedLayersSound, setRouteStateSound
  <2>4. events \in 0 .. MaxEvents
    <3>1. MaxEvents \in Nat
      BY LayersAssumption
    <3>2. events = 0
      BY <2>1
    <3> QED
      BY <3>1, <3>2
  <2> QED
    BY <2>1, <2>2, <2>3, <2>4
    DEF SoundInv, LayersTypeOK, StackIsSound, SoundState
<1> QED
  BY <1>1, <1>2

\* Each part of the site keeps its invariant whichever part runs.
THEOREM SiteInvariance == SiteSpec => []SiteInv
<1> DEFINE Parts == MailInv /\ SoundInv /\ AdminInv /\ TokenInv
<1>1. SiteInit => Parts
  BY InterfaceInitInv, MailInitInv, AdminInitInv, TokenInitInv DEF SiteInit
<1>2. Parts /\ [SiteNext]_<<part, vars, layersVars, adminVars, retentionVars, tokenVars,
                            backupVars>>
      => Parts'
  BY PartsStep
<1>3. Parts => SiteInv
  BY DEF SiteInv, MailInv, SoundInv
<1> HIDE DEF Parts
<1> QED
  BY <1>1, <1>2, <1>3, PTL DEF SiteSpec
===============================================================================
