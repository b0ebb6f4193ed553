--------------------------- MODULE Reruns_proofs ----------------------------
(***************************************************************************)
(* Proofs about what one run leaves to the next: Ingresses that are not    *)
(* migrated again, a status of one mode, a status without old entries.     *)
(***************************************************************************)
EXTENDS MigrationRun_proofs

(* Updates of the status leave the Ingresses alone.                          *)
LEMMA SameIngressesStatus ==
    ASSUME Stores, NEW m, NEW update, NEW got \in BOOLEAN, NEW ok \in BOOLEAN,
           CreateOrUpdateStatusCm(m, update, got, ok)
    PROVE  cluster'.ingress = cluster.ingress /\ recorded'.ingress = recorded.ingress
  <1>1. \A s \in Store : [s EXCEPT !.status = StatusUpdate(m, update)].ingress = s.ingress
    BY DEF Store
  <1> QED BY <1>1 DEF Stores, CreateOrUpdateStatusCm, kubeVars

(* Nothing but CreateOrUpdateIngress changes the Ingresses of the cluster,   *)
(* or, within a run, those that are recorded.                                *)
LEMMA SameIngresses ==
    ASSUME TypeOK, [Next]_vars, ~CreateOne
    PROVE  /\ cluster'.ingress = cluster.ingress
           /\ ~Restart => recorded'.ingress = recorded.ingress
  <1>1. CASE UNCHANGED kubeVars
    BY <1>1 DEF kubeVars
  <1>2. CASE DeleteStatus
    BY <1>2 DEF DeleteStatus, DeleteStatusCm, TypeOK, Store
  <1>3. CASE MigrateConfig
    <2> PICK ok \in BOOLEAN : UpdateK8sCm(MigratedCm, ok) \/ CreateOrUpdateTestCm(MigratedCm, ok)
      BY <1>3 DEF MigrateConfig, PutConfig
    <2> QED BY DEF UpdateK8sCm, CreateOrUpdateTestCm, TypeOK, Store
  <1>4. CASE ConfigStatus
    <2> PICK got \in BOOLEAN, ok \in BOOLEAN :
          CreateOrUpdateStatusCm(mode, {ConfigInfo}, got, ok)
      BY <1>4 DEF ConfigStatus
    <2> QED BY SameIngressesStatus DEF TypeOK, Stores
  <1>5. CASE PutTcpPorts
    <2> PICK a \in cur.albs :
          \/ UNCHANGED kubeVars
          \/ \E ok \in BOOLEAN : PutTcpConfigMap(a, TcpUpdate(a), ok)
      BY <1>5 DEF PutTcpPorts
    <2>1. ASSUME NEW ok \in BOOLEAN, PutTcpConfigMap(a, TcpUpdate(a), ok)
          PROVE  cluster'.ingress = cluster.ingress /\ recorded'.ingress = recorded.ingress
      BY <2>1 DEF PutTcpConfigMap, TypeOK, Store
    <2> QED BY <1>1, <2>1
  <1>6. CASE UpdateStatus
    <2> PICK got \in BOOLEAN, ok \in BOOLEAN : CreateOrUpdateStatusCm(mode, infos, got, ok)
      BY <1>6 DEF UpdateStatus
    <2> QED BY SameIngressesStatus DEF TypeOK, Stores
  <1>7. CASE Restart
    BY <1>7 DEF Restart
  <1> QED
    BY <1>1, <1>2, <1>3, <1>4, <1>5, <1>6, <1>7
    DEF Next, Step, Configure, ConfigUnreadable, NoIksConfig, Choose, ListIngresses, Skip, Reject,
        GetIngressConfigPanic, Accept, Create, SplitFails, Unrenderable, Tcp, MergeALBSpecificData,
        MergeCollides, NoTcpPorts, TcpConfigUnreadable, EmptyTcpConfigMapPanic, Finish,
        FinishIngress, Exit, DumpYAML, Crash, Stopped, vars

-----------------------------------------------------------------------------
(* NeverMigratedTwice *)

(* Every Ingress the tool makes has a class that the tool skips.             *)
LEMMA TargetClassSkipped ==
    ASSUME NEW n
    PROVE  TargetClass(n) \in CommunityClasses
  BY DEF TargetClass, CommunityClasses

(* At first all Ingresses are the users'.                                    *)
LEMMA ClassInit == Init => ClassInv
  <1> SUFFICES ASSUME Init PROVE ClassInv
    OBVIOUS
  <1> PICK iks \in IksCms, k8s \in K8sCms, tcp \in TcpCms :
        cluster = [EmptyStore EXCEPT !.ingress = [n \in IngressNames |-> InitialIngress(n)],
                                     !.tcp = tcp, !.iksCm = iks, !.k8sCm = k8s]
    BY DEF Init
  <1>1. \A n \in IngressNames : cluster.ingress[n] = InitialIngress(n)
    BY DEF EmptyStore
  <1>2. \A n \in IngressNames :
          cluster.ingress[n] # Absent => n \in UserIngresses /\ cluster.ingress[n].by = User
    BY <1>1 DEF InitialIngress
  <1> QED
    BY <1>2, TypeInit DEF Init, ClassInv, NeverMigratedTwice, SkippedOrUsers

(* A step that leaves the Ingresses alone, lists none and takes none.        *)
LEMMA ClassQuiet ==
    ASSUME ClassInv, TypeOK', cluster'.ingress = cluster.ingress, todo' \subseteq todo,
           cur' # Absent => cur # Absent /\ cur'.name = cur.name
    PROVE  ClassInv'
  BY DEF ClassInv, NeverMigratedTwice, SkippedOrUsers

(* Every step keeps ClassInv.                                                *)
LEMMA ClassStep == ClassInv /\ [Next]_vars => ClassInv'
  <1> SUFFICES ASSUME ClassInv, [Next]_vars PROVE ClassInv'
    OBVIOUS
  <1>ty. TypeOK /\ TypeOK'
    BY TypeStep DEF ClassInv
  <1>1. CASE ListIngresses
    <2>1. cluster' = cluster /\ cur' = cur
      BY <1>1 DEF ListIngresses, kubeVars
    <2>2. \A t \in todo' : SkippedOrUsers(t.name, t.class)
      BY <1>1 DEF ListIngresses, ClassInv
    <2> QED BY <1>ty, <2>1, <2>2 DEF ClassInv, NeverMigratedTwice, SkippedOrUsers
  <1>2. CASE Accept
    <2> PICK t \in todo :
          /\ ~Skipped(t) /\ todo' = todo \ {t}
          /\ cur' = [name |-> t.name, parts |-> Conf[t.name].parts, as |-> {},
                     warned |-> FALSE, albs |-> Conf[t.name].albs, tcp |-> {},
                     tcpFailed |-> FALSE]
      BY <1>2 DEF Accept
    <2>1. t.name \in UserIngresses
      BY DEF ClassInv, SkippedOrUsers, Skipped
    <2>2. cluster' = cluster
      BY <1>2 DEF Accept, kubeVars
    <2> QED BY <1>ty, <2>1, <2>2 DEF ClassInv, NeverMigratedTwice, SkippedOrUsers
  <1>3. CASE CreateOne
    <2> PICK p \in cur.parts, ok \in BOOLEAN :
          CreateOrUpdateIngress(p, Generated(cur.name), ok) /\ Created(p, ok)
      BY <1>3 DEF CreateOne
    <2>1. cur \in Current /\ cur # Absent /\ p \in IngressNames
      BY <1>3, <1>ty, NoCurrentAssumption DEF CreateOne, TypeOK, Current
    <2>2. cur'.name = cur.name /\ cur.name \in UserIngresses
      BY <2>1 DEF Created, Current, ClassInv
    <2>3. \A n \in IngressNames :
            cluster'.ingress[n] = cluster.ingress[n] \/ cluster'.ingress[n] = Generated(cur.name)
      BY <2>1, <1>ty DEF CreateOrUpdateIngress, TypeOK, Store
    <2>4. Generated(cur.name).by = cur.name /\ Generated(cur.name).class \in CommunityClasses
      BY TargetClassSkipped DEF Generated
    <2>5. todo' = todo BY <1>3 DEF CreateOne
    <2> QED
      BY <1>ty, <2>2, <2>3, <2>4, <2>5 DEF ClassInv, NeverMigratedTwice, SkippedOrUsers
  <1>4. CASE SplitFails \/ Unrenderable \/ MergeCollides \/ NoTcpPorts \/ TcpConfigUnreadable
             \/ PutTcpPorts
    <2>1. cur \in Current /\ cur # Absent
      BY <1>4, <1>ty, NoCurrentAssumption
      DEF SplitFails, Unrenderable, MergeCollides, NoTcpPorts, TcpConfigUnreadable, PutTcpPorts,
          TypeOK
    <2>2. cur'.name = cur.name
      BY <1>4, <2>1
      DEF SplitFails, NoParts, Unrenderable, Created, MergeCollides, NoTcpPorts,
          TcpConfigUnreadable, PutTcpPorts, TcpCreated, Current
    <2>3. todo' = todo
      BY <1>4
      DEF SplitFails, Unrenderable, MergeCollides, NoTcpPorts, TcpConfigUnreadable, PutTcpPorts
    <2>4. CASE PutTcpPorts
      <3>1. ~CreateOne BY <2>4 DEF PutTcpPorts, CreateOne
      <3> QED BY <1>ty, <2>1, <2>2, <2>3, <3>1, SameIngresses, ClassQuiet
    <2>5. CASE ~PutTcpPorts
      <3>1. cluster' = cluster
        BY <1>4, <2>5
        DEF SplitFails, Unrenderable, MergeCollides, NoTcpPorts, TcpConfigUnreadable, kubeVars
      <3> QED BY <1>ty, <2>1, <2>2, <2>3, <3>1, ClassQuiet
    <2> QED BY <2>4, <2>5
  <1>5. CASE ~(ListIngresses \/ Accept \/ CreateOne \/ SplitFails \/ Unrenderable
                \/ MergeCollides \/ NoTcpPorts \/ TcpConfigUnreadable \/ PutTcpPorts)
    <2>1. cluster'.ingress = cluster.ingress
      BY <1>5, <1>ty, SameIngresses
    <2>2. todo' \subseteq todo /\ (cur' = cur \/ cur' = Absent)
      BY <1>5
      DEF Next, Step, Configure, DeleteStatus, ConfigUnreadable, NoIksConfig, MigrateConfig,
          ConfigStatus, Choose, Skip, Reject, RejectOne, GetIngressConfigPanic, Create, Tcp,
          MergeALBSpecificData, EmptyTcpConfigMapPanic, Finish, FinishIngress, UpdateStatus,
          Exit, DumpYAML, Crash, Restart, Stopped, vars, runVars
    <2> QED BY <1>ty, <2>1, <2>2, ClassQuiet
  <1> QED BY <1>1, <1>2, <1>3, <1>4, <1>5

(* NeverMigratedTwice: whatever the modes of the runs, a generated Ingress is *)
(* never migrated itself.                                                    *)
THEOREM GeneratedAreSkipped == Spec => []NeverMigratedTwice
  <1>1. ClassInv => NeverMigratedTwice
    BY DEF ClassInv
  <1> QED BY ClassInit, ClassStep, <1>1, PTL DEF Spec

-----------------------------------------------------------------------------
(* StatusStartsEmpty and StatusKeepsMode *)

(* Nothing but the two methods for it changes the status.                    *)
LEMMA SameStatus ==
    ASSUME TypeOK, [Next]_vars, ~DeleteStatus, ~ConfigStatus, ~UpdateStatus
    PROVE  /\ cluster'.status = cluster.status
           /\ ~Restart => recorded'.status = recorded.status
  <1>1. CASE UNCHANGED kubeVars
    BY <1>1 DEF kubeVars
  <1>2. CASE MigrateConfig
    <2> PICK ok \in BOOLEAN : UpdateK8sCm(MigratedCm, ok) \/ CreateOrUpdateTestCm(MigratedCm, ok)
      BY <1>2 DEF MigrateConfig, PutConfig
    <2> QED BY DEF UpdateK8sCm, CreateOrUpdateTestCm, TypeOK, Store
  <1>3. CASE CreateOne
    <2> PICK p \in cur.parts, ok \in BOOLEAN : CreateOrUpdateIngress(p, Generated(cur.name), ok)
      BY <1>3 DEF CreateOne
    <2> QED BY DEF CreateOrUpdateIngress, TypeOK, Store
  <1>4. CASE PutTcpPorts
    <2> PICK a \in cur.albs :
          \/ UNCHANGED kubeVars
          \/ \E ok \in BOOLEAN : PutTcpConfigMap(a, TcpUpdate(a), ok)
      BY <1>4 DEF PutTcpPorts
    <2>1. ASSUME NEW ok \in BOOLEAN, PutTcpConfigMap(a, TcpUpdate(a), ok)
          PROVE  cluster'.status = cluster.status /\ recorded'.status = recorded.status
      BY <2>1 DEF PutTcpConfigMap, TypeOK, Store
    <2> QED BY <1>1, <2>1
  <1>5. CASE Restart
    BY <1>5 DEF Restart
  <1> QED
    BY <1>1, <1>2, <1>3, <1>4, <1>5
    DEF Next, Step, Configure, ConfigUnreadable, NoIksConfig, Choose, ListIngresses, Skip, Reject,
        GetIngressConfigPanic, Accept, Create, SplitFails, Unrenderable, Tcp, MergeALBSpecificData,
        MergeCollides, NoTcpPorts, TcpConfigUnreadable, EmptyTcpConfigMapPanic, Finish,
        FinishIngress, Exit, DumpYAML, Crash, Stopped, vars

(* The entries of a run become more by those it reports, or fewer.           *)
LEMMA NewEntries ==
    ASSUME TypeOK, [Next]_vars, ~Restart
    PROVE  \A r \in Entries' :
              \/ r \in Entries
              \/ ConfigStatus /\ r = ConfigInfo
              \/ FinishIngress /\ r = IngressInfo
  <1>st. Stores BY DEF TypeOK, Stores
  <1>ro. readOnly' = readOnly BY SameConfiguration
  <1>1. CASE DeleteStatus
    <2>1. Output'.status \in {Output.status, Absent}
      BY <1>1, <1>st, DeleteStatusKept DEF DeleteStatus
    <2>2. Entries' \subseteq Entries BY <1>1, <2>1 DEF DeleteStatus, runVars, Entries, Output
    <2> QED BY <2>2
  <1>2. CASE ConfigStatus
    <2> PICK got \in BOOLEAN, ok \in BOOLEAN :
          CreateOrUpdateStatusCm(mode, {ConfigInfo}, got, ok)
      BY <1>2 DEF ConfigStatus
    <2>1. {ConfigInfo} \in SUBSET MigratedResource
      BY DEF TypeOK, ConfigInfo, MigratedResource, Outputs
    <2>2. \/ Output'.status = Output.status
          \/ Output'.status = StatusUpdate(mode, {ConfigInfo})
      BY <2>1, <1>st, StatusKept DEF TypeOK
    <2>3. Entries' \subseteq Entries \cup {ConfigInfo}
      BY <1>2, <2>2 DEF ConfigStatus, runVars, Entries, StatusUpdate, StatusRead, Output
    <2> QED BY <1>2, <2>3
  <1>3. CASE UpdateStatus
    <2> PICK got \in BOOLEAN, ok \in BOOLEAN : CreateOrUpdateStatusCm(mode, infos, got, ok)
      BY <1>3 DEF UpdateStatus
    <2>1. \/ Output'.status = Output.status
          \/ Output'.status = StatusUpdate(mode, infos)
      BY <1>st, StatusKept DEF TypeOK
    <2>2. Entries' \subseteq Entries
      BY <1>3, <2>1 DEF UpdateStatus, Entries, StatusUpdate, StatusRead, Output
    <2> QED BY <2>2
  <1>4. CASE FinishIngress
    <2>1. Entries' = Entries \cup {IngressInfo}
      BY <1>4 DEF FinishIngress, AddInfo, Entries, Output, kubeVars
    <2> QED BY <1>4, <2>1
  <1>5. CASE ~(DeleteStatus \/ ConfigStatus \/ UpdateStatus \/ FinishIngress)
    <2>1. Output'.status = Output.status
      BY <1>5, <1>ro, SameStatus DEF Output
    <2>2. infos' = infos
      BY <1>5
      DEF Next, Step, Configure, ConfigUnreadable, NoIksConfig, MigrateConfig, Choose,
          ListIngresses, Skip, Reject, GetIngressConfigPanic, Accept, Create, SplitFails, CreateOne,
          Unrenderable, Tcp, MergeALBSpecificData, MergeCollides, NoTcpPorts,
          TcpConfigUnreadable, PutTcpPorts, EmptyTcpConfigMapPanic, Finish, Exit, DumpYAML,
          Crash, Stopped, vars, runVars
    <2>3. Entries' = Entries BY <2>1, <2>2 DEF Entries, Output
    <2> QED BY <2>3
  <1> QED BY <1>1, <1>2, <1>3, <1>4, <1>5

(* The request that is sent when a run starts is the deletion, and no other   *)
(* run starts or goes on without Restart; failed requests stay counted.      *)
LEMMA RunSteps ==
    ASSUME TypeOK, [Next]_vars, ~Restart
    PROVE  /\ run' = run /\ mode' = mode /\ (faults' = 0 => faults = 0)
           /\ pc' = "start" => UNCHANGED vars
           /\ pc = "start" => DeleteStatus \/ pc' \in {"start", "crashed"}
           /\ pc = "crashed" => pc' = "crashed"
  <1>1. ASSUME NEW ok \in BOOLEAN, Call(ok) PROVE faults' = 0 => faults = 0
    BY <1>1 DEF Call, TypeOK
  <1>2. faults' = 0 => faults = 0
    BY <1>1
    DEF Next, Step, Configure, DeleteStatus, ConfigUnreadable, NoIksConfig, MigrateConfig,
        ConfigStatus, Choose, ListIngresses, Skip, Reject, GetIngressConfigPanic, Accept, Create,
        SplitFails, CreateOne, Unrenderable, Tcp, MergeALBSpecificData, MergeCollides,
        NoTcpPorts, TcpConfigUnreadable, PutTcpPorts, EmptyTcpConfigMapPanic, Finish,
        FinishIngress, UpdateStatus, Exit, DumpYAML, Crash, Stopped, vars
  <1>3. \/ UNCHANGED vars
        \/ /\ run' = run /\ mode' = mode /\ pc' # "start"
           /\ pc \notin {"start", "crashed"} \/ DeleteStatus \/ Crash
    BY DEF Next, Step, Configure, DeleteStatus, ConfigUnreadable, NoIksConfig, MigrateConfig,
        ConfigStatus, Choose, ListIngresses, Skip, Reject, GetIngressConfigPanic, Accept, Create,
        SplitFails, CreateOne, Unrenderable, Tcp, MergeALBSpecificData, MergeCollides,
        NoTcpPorts, TcpConfigUnreadable, PutTcpPorts, EmptyTcpConfigMapPanic, Finish,
        FinishIngress, UpdateStatus, Exit, AfterIngresses, DumpYAML, Crash, Stopped, Goto
  <1> QED BY <1>2, <1>3 DEF DeleteStatus, Crash, Goto, Ended, vars

(* What a run reports has its number.                                        *)
LEMMA OwnEntries ==
    ASSUME NEW r, r = ConfigInfo \/ r = IngressInfo
    PROVE  r.run = run
  BY DEF ConfigInfo, IngressInfo

(* At first there are no entries at all.                                     *)
LEMMA FreshInit == Init => FreshInv
  BY TypeInit DEF Init, FreshInv, StatusStartsEmpty, EmptyStore

(* Every step keeps FreshInv.                                                *)
LEMMA FreshStep == FreshInv /\ [Next]_vars => FreshInv'
  <1> SUFFICES ASSUME FreshInv, [Next]_vars PROVE FreshInv'
    OBVIOUS
  <1>ty. TypeOK /\ TypeOK' BY TypeStep DEF FreshInv
  <1>1. CASE Restart
    BY <1>1, <1>ty DEF Restart, FreshInv, StatusStartsEmpty, EmptyStore
  <1>2. CASE DeleteStatus
    <2>1. pc = "start" /\ pc' # "start" /\ infos' = {}
      BY <1>2 DEF DeleteStatus, Goto, runVars, FreshInv
    <2>2. ASSUME faults' = 0 PROVE Output'.status = Absent
      <3> PICK ok \in BOOLEAN : Call(ok) /\ DeleteStatusCm(ok)
        BY <1>2 DEF DeleteStatus
      <3>1. ok BY <1>ty, <2>2 DEF Call, TypeOK
      <3> QED BY <3>1, <2>1, <1>ty DEF DeleteStatusCm, Output, FreshInv, TypeOK, Store
    <2> QED BY <1>ty, <2>1, <2>2 DEF FreshInv, StatusStartsEmpty, Entries
  <1>3. CASE UNCHANGED vars
    BY <1>3 DEF vars, kubeVars, runVars, FreshInv, TypeOK, StatusStartsEmpty, Entries, Output
  <1>4. CASE ~(Restart \/ DeleteStatus \/ UNCHANGED vars)
    <2>1. /\ run' = run /\ pc' # "start" /\ (faults' = 0 => faults = 0)
          /\ pc' # "crashed" => pc \notin {"start", "crashed"}
      BY <1>4, <1>ty, RunSteps
    <2>2. \A r \in Entries' : r \in Entries \/ r.run = run
      BY <1>4, <1>ty, NewEntries, OwnEntries
    <2> QED BY <1>ty, <2>1, <2>2 DEF FreshInv, StatusStartsEmpty
  <1> QED BY <1>1, <1>2, <1>3, <1>4

(* StatusStartsEmpty: unless a request failed, no run finds entries of the    *)
(* one before it.                                                            *)
THEOREM StatusIsFresh == Spec => []StatusStartsEmpty
  <1>1. FreshInv => StatusStartsEmpty
    BY DEF FreshInv
  <1> QED BY FreshInit, FreshStep, <1>1, PTL DEF Spec

(* An update of the status writes its own mode, over no other.               *)
LEMMA UpdateKeepsMode ==
    ASSUME Stores, NEW m \in Modes, NEW update, NEW got \in BOOLEAN, NEW ok \in BOOLEAN,
           CreateOrUpdateStatusCm(m, update, got, ok), cluster.status # Absent
    PROVE  cluster'.status.mode = cluster.status.mode
  <1>1. CASE cluster' = cluster
    BY <1>1
  <1>2. CASE cluster' # cluster
    <2>1. /\ ~readOnly /\ StatusAccepts(m)
          /\ cluster' = [cluster EXCEPT !.status = StatusUpdate(m, update)]
      BY <1>2 DEF CreateOrUpdateStatusCm, kubeVars
    <2>2. cluster'.status = StatusUpdate(m, update)
      BY <2>1 DEF Stores, Store
    <2>3. cluster.status.mode = m
      BY <2>1 DEF StatusAccepts, StatusRead, Output
    <2> QED BY <2>2, <2>3 DEF StatusUpdate
  <1> QED BY <1>1, <1>2

(* StatusKeepsMode: no step gives a status another mode.                     *)
THEOREM ModeIsKept == Spec => StatusKeepsMode
  <1>1. ASSUME TypeOK, [Next]_vars, cluster.status # Absent, cluster'.status # Absent
        PROVE  cluster'.status.mode = cluster.status.mode
    <2>st. Stores BY <1>1 DEF TypeOK, Stores
    <2>1. CASE DeleteStatus
      BY <1>1, <2>1 DEF DeleteStatus, DeleteStatusCm, TypeOK, Store
    <2>2. CASE ConfigStatus
      BY <1>1, <2>2, <2>st, UpdateKeepsMode DEF ConfigStatus, TypeOK
    <2>3. CASE UpdateStatus
      BY <1>1, <2>3, <2>st, UpdateKeepsMode DEF UpdateStatus, TypeOK
    <2>4. CASE ~(DeleteStatus \/ ConfigStatus \/ UpdateStatus)
      BY <1>1, <2>4, SameStatus
    <2> QED BY <2>1, <2>2, <2>3, <2>4
  <1>2. TypeOK /\ [Next]_vars
          => [cluster.status # Absent /\ cluster'.status # Absent
                => cluster'.status.mode = cluster.status.mode]_vars
    BY <1>1
  <1> QED BY TypeCorrect, <1>2, PTL DEF Spec, StatusKeepsMode

-----------------------------------------------------------------------------
(* TestKeepsConfig: the ConfigMap of the production controllers is only       *)
(* written in the production mode.                                           *)
THEOREM ConfigIsKept == Spec => TestKeepsConfig
  <1>1. ASSUME TypeOK, [Next]_vars, mode # "production"
        PROVE  cluster'.k8sCm = cluster.k8sCm
    <2>1. CASE MigrateConfig
      <3> PICK ok \in BOOLEAN : CreateOrUpdateTestCm(MigratedCm, ok)
        BY <1>1, <2>1 DEF MigrateConfig, PutConfig
      <3> QED BY <1>1 DEF CreateOrUpdateTestCm, TypeOK, Store
    <2>2. CASE DeleteStatus
      BY <1>1, <2>2 DEF DeleteStatus, DeleteStatusCm, TypeOK, Store
    <2>3. ASSUME NEW m, NEW update, NEW got \in BOOLEAN, NEW ok \in BOOLEAN,
                 CreateOrUpdateStatusCm(m, update, got, ok)
          PROVE  cluster'.k8sCm = cluster.k8sCm
      <3>1. [cluster EXCEPT !.status = StatusUpdate(m, update)].k8sCm = cluster.k8sCm
        BY <1>1 DEF TypeOK, Store
      <3> QED BY <2>3, <3>1 DEF CreateOrUpdateStatusCm, kubeVars
    <2>4. CASE ConfigStatus \/ UpdateStatus
      BY <2>3, <2>4 DEF ConfigStatus, UpdateStatus
    <2>5. CASE CreateOne
      <3> PICK p \in cur.parts, ok \in BOOLEAN : CreateOrUpdateIngress(p, Generated(cur.name), ok)
        BY <2>5 DEF CreateOne
      <3> QED BY <1>1 DEF CreateOrUpdateIngress, TypeOK, Store
    <2>6. CASE PutTcpPorts
      <3> PICK a \in cur.albs :
            \/ UNCHANGED kubeVars
            \/ \E ok \in BOOLEAN : PutTcpConfigMap(a, TcpUpdate(a), ok)
        BY <2>6 DEF PutTcpPorts
      <3>1. ASSUME NEW ok \in BOOLEAN, PutTcpConfigMap(a, TcpUpdate(a), ok)
            PROVE  cluster'.k8sCm = cluster.k8sCm
        BY <1>1, <3>1 DEF PutTcpConfigMap, TypeOK, Store
      <3> QED BY <3>1 DEF kubeVars
    <2>7. CASE UNCHANGED cluster
      BY <2>7
    <2> QED
      BY <1>1, <2>1, <2>2, <2>4, <2>5, <2>6, <2>7
      DEF Next, Step, Configure, ConfigUnreadable, NoIksConfig, Choose, ListIngresses, Skip,
          Reject, GetIngressConfigPanic, Accept, Create, SplitFails, Unrenderable, Tcp,
          MergeALBSpecificData, MergeCollides, NoTcpPorts, TcpConfigUnreadable,
          EmptyTcpConfigMapPanic, Finish, FinishIngress, Exit, DumpYAML, Crash, Restart,
          Stopped, vars, kubeVars
  <1>2. TypeOK /\ [Next]_vars
          => [mode # "production" => cluster'.k8sCm = cluster.k8sCm]_vars
    BY <1>1
  <1> QED BY TypeCorrect, <1>2, PTL DEF Spec, TestKeepsConfig

=============================================================================
