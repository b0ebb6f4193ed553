------------------------ MODULE MigrationRun_proofs -------------------------
(***************************************************************************)
(* Proofs about runs of the migration tool, for any Ingresses, ALBs, ports *)
(* and ConfigMaps, any number of runs and of failing requests.             *)
(***************************************************************************)
EXTENDS MigrationProperties, TLAPS

Stores == cluster \in Store /\ recorded \in Store /\ readOnly \in ReadOnlyChoices

-----------------------------------------------------------------------------
(* The requests of the client keep both stores well-typed.                  *)
LEMMA EmptyStoreType == EmptyStore \in Store
  BY DEF EmptyStore, Store

(* CreateOrUpdateIngress keeps both stores well-typed, whether it succeeds or *)
(* not.                                                                     *)
LEMMA IngressType ==
    ASSUME Stores, NEW n \in IngressNames, NEW ing \in Ingress, NEW ok \in BOOLEAN,
           CreateOrUpdateIngress(n, ing, ok)
    PROVE  Stores'
  BY DEF Stores, CreateOrUpdateIngress, Store

(* So does a write of a TCP ConfigMap (CreateConfigMap, UpdateConfigmap).   *)
LEMMA TcpType ==
    ASSUME Stores, NEW a \in AlbKeys, NEW data \in PortMap, NEW ok \in BOOLEAN,
           PutTcpConfigMap(a, data, ok)
    PROVE  Stores'
  BY DEF Stores, PutTcpConfigMap, Store

(* So do the writes of the k8s ConfigMap and of its test copy.              *)
LEMMA CmType ==
    ASSUME Stores, NEW data \in CmData, NEW ok \in BOOLEAN,
           UpdateK8sCm(data, ok) \/ CreateOrUpdateTestCm(data, ok)
    PROVE  Stores'
  BY DEF Stores, UpdateK8sCm, CreateOrUpdateTestCm, Store

(* The status that an update of entries gives is a status.                  *)
LEMMA StatusUpdateType ==
    ASSUME Stores, NEW m \in Modes, NEW update \in SUBSET MigratedResource
    PROVE  StatusUpdate(m, update) \in Status
  <1>1. StatusRead \in Status \cup {Absent}
    BY DEF Stores, StatusRead, Output, Store
  <1>2. StatusRead # Absent => StatusRead.resources \subseteq MigratedResource
    BY <1>1 DEF Status
  <1> QED BY <1>2 DEF StatusUpdate, Status

(* CreateOrUpdateStatusCm keeps both stores well-typed, whichever of its    *)
(* requests fails.                                                          *)
LEMMA StatusType ==
    ASSUME Stores, NEW m \in Modes, NEW update \in SUBSET MigratedResource,
           NEW got \in BOOLEAN, NEW ok \in BOOLEAN,
           CreateOrUpdateStatusCm(m, update, got, ok)
    PROVE  Stores'
  <1>1. StatusUpdate(m, update) \in Status
    BY StatusUpdateType
  <1>2. \A s \in Store : [s EXCEPT !.status = StatusUpdate(m, update)] \in Store
    BY <1>1 DEF Store
  <1> QED BY <1>2 DEF Stores, CreateOrUpdateStatusCm, kubeVars

(* So does DeleteStatusCm.                                                  *)
LEMMA DeleteStatusType ==
    ASSUME Stores, NEW ok \in BOOLEAN, DeleteStatusCm(ok)
    PROVE  Stores'
  BY DEF Stores, DeleteStatusCm, Store

-----------------------------------------------------------------------------
(* What the steps compute is well-typed.                                    *)
LEMMA ConfType ==
    ASSUME NEW n \in IngressNames
    PROVE  /\ Conf[n].class \in Classes
           /\ Conf[n].albs \subseteq AlbKeys /\ Conf[n].ports \in PortMap
           /\ Conf[n].parts \subseteq IngressNames
  BY InputAssumption DEF IngressConf

(* The ports of two maps together are a map of ports.                       *)
LEMMA OverType ==
    ASSUME NEW old \in PortMap, NEW new \in PortMap
    PROVE  Over(old, new) \in PortMap
  BY DEF Over, PortMap

(* Some of the ports of a map are a map of ports.                           *)
LEMMA OnlyType ==
    ASSUME NEW ports \in PortMap, NEW ps
    PROVE  Only(ports, ps) \in PortMap
  BY DEF Only, PortMap

(* No port at all is a map of ports.                                        *)
LEMMA NoPortsType == NoPorts \in PortMap
  BY DEF NoPorts, PortMap

(* What createIngressResources writes is an Ingress with a class.           *)
LEMMA GeneratedType ==
    ASSUME NEW n \in IngressNames
    PROVE  Generated(n) \in Ingress
  BY DEF Generated, TargetClass, Ingress, Classes, CommunityClasses

(* TypeOK holds when the tool starts, for every input.                      *)
LEMMA TypeInit == Init => TypeOK
  <1> SUFFICES ASSUME Init PROVE TypeOK
    OBVIOUS
  <1>1. cluster \in Store
    <2> PICK iks \in IksCms, k8s \in K8sCms, tcp \in TcpCms :
          cluster = [EmptyStore EXCEPT !.ingress = [n \in IngressNames |-> InitialIngress(n)],
                                       !.tcp = tcp, !.iksCm = iks, !.k8sCm = k8s]
      BY DEF Init
    <2>1. \A n \in IngressNames : InitialIngress(n) \in Ingress \cup {Absent}
      BY ConfType DEF InitialIngress, Ingress
    <2> QED BY <2>1, EmptyStoreType, InputAssumption DEF Store
  <1>2. recorded \in Store /\ dumped \in Store
    BY EmptyStoreType DEF Init
  <1>3. alb \in [AlbKeys -> PortMap]
    BY NoPortsType DEF Init, NoClaims
  <1> QED BY <1>1, <1>2, <1>3 DEF Init, TypeOK, Ended

-----------------------------------------------------------------------------
(* Every variable keeps its type.                                           *)
LEMMA TypeStep == TypeOK /\ [Next]_vars => TypeOK'
  <1> SUFFICES ASSUME TypeOK, [Next]_vars PROVE TypeOK'
    OBVIOUS
  <1> USE DEF TypeOK, Ended
  <1>st. Stores
    BY DEF Stores
  <1>1. CASE DeleteStatus
    <2>1. Stores' BY <1>1, <1>st, DeleteStatusType DEF DeleteStatus
    <2> QED BY <1>1, <2>1 DEF DeleteStatus, Call, Goto, runVars, Stores
  <1>2. CASE ConfigUnreadable
    BY <1>2 DEF ConfigUnreadable, Call, Goto, runVars, kubeVars
  <1>3. CASE NoIksConfig
    BY <1>3 DEF NoIksConfig, Goto, runVars, kubeVars
  <1>4. CASE MigrateConfig
    <2> PICK ok \in BOOLEAN :
          /\ Call(ok) /\ PutConfig(ok)
          /\ Goto(IF ok THEN "configStatus" ELSE "panicked")
      BY <1>4 DEF MigrateConfig
    <2>1. MigratedCm \in CmData
      BY <1>4 DEF MigrateConfig, MigratedCm, CmData, Store
    <2>2. Stores' BY <2>1, <1>st, CmType DEF PutConfig
    <2> QED BY <1>4, <2>2 DEF MigrateConfig, Call, Goto, runVars, Stores
  <1>5. CASE ConfigStatus
    <2> PICK got \in BOOLEAN, ok \in BOOLEAN :
          /\ Call(ok) /\ CreateOrUpdateStatusCm(mode, {ConfigInfo}, got, ok)
          /\ Goto(IF ok /\ StatusAccepts(mode) THEN "list" ELSE "panicked")
      BY <1>5 DEF ConfigStatus
    <2>1. {ConfigInfo} \in SUBSET MigratedResource
      BY DEF ConfigInfo, MigratedResource, Outputs
    <2>2. Stores' BY <2>1, <1>st, StatusType
    <2> QED BY <1>5, <2>2 DEF ConfigStatus, Call, Goto, runVars, Stores
  <1>6. CASE ListIngresses
    <2>1. \A n \in IngressNames : cluster.ingress[n] # Absent => cluster.ingress[n].class \in Classes
      BY DEF Store, Ingress
    <2>2. todo' \subseteq Listed
      BY <1>6, <2>1 DEF ListIngresses, Listed
    <2> QED BY <1>6, <2>2 DEF ListIngresses, Call, Goto, kubeVars
  <1>7. CASE Skip
    BY <1>7 DEF Skip, Goto, kubeVars
  <1>8. CASE Reject
    BY <1>8 DEF Reject, RejectOne, Call, Goto, kubeVars
  <1>9. CASE GetIngressConfigPanic
    BY <1>9 DEF GetIngressConfigPanic, Call, Goto, kubeVars, runVars
  <1>10. CASE Accept
    <2> PICK t \in todo :
          /\ todo' = todo \ {t}
          /\ cur' = [name |-> t.name, parts |-> Conf[t.name].parts, as |-> {},
                     warned |-> FALSE, albs |-> Conf[t.name].albs, tcp |-> {},
                     tcpFailed |-> FALSE]
      BY <1>10 DEF Accept
    <2>1. t.name \in IngressNames BY DEF Listed
    <2>2. cur' \in Current BY <2>1, ConfType DEF Current
    <2> QED BY <1>10, <2>2 DEF Accept, Goto, kubeVars
  <1>11. CASE SplitFails
    <2>1. cur' \in Current BY <1>11 DEF SplitFails, NoParts, Current
    <2> QED BY <1>11, <2>1 DEF SplitFails, Call, Goto, kubeVars
  <1>12. CASE CreateOne
    <2> PICK p \in cur.parts \ Conf[cur.name].unrenderable, ok \in BOOLEAN :
          /\ Call(ok) /\ CreateOrUpdateIngress(p, Generated(cur.name), ok)
          /\ Created(p, ok) /\ failed' = (failed \/ ~ok)
      BY <1>12 DEF CreateOne
    <2>1. cur \in Current /\ cur.name \in IngressNames /\ p \in IngressNames
      BY <1>12 DEF CreateOne, Current
    <2>2. Stores' BY <2>1, <1>st, GeneratedType, IngressType
    <2>3. <<"Ingress", p>> \in Outputs BY <2>1 DEF Outputs
    <2>4. cur' \in Current BY <2>1, <2>3 DEF Created, Current
    <2> QED BY <1>12, <2>2, <2>4 DEF CreateOne, Call, Goto, Stores
  <1>13. CASE Unrenderable
    <2>1. cur \in Current BY <1>13 DEF Unrenderable
    <2>2. cur' \in Current BY <1>13, <2>1 DEF Unrenderable, Created, Current
    <2> QED BY <1>13, <2>2 DEF Unrenderable, Goto, kubeVars
  <1>14. CASE MergeALBSpecificData
    <2>1. cur \in Current /\ Conf[cur.name].ports \in PortMap
      BY <1>14, ConfType DEF MergeALBSpecificData, Current
    <2>2. alb' \in [AlbKeys -> PortMap]
      BY <1>14, <2>1, OverType DEF MergeALBSpecificData
    <2> QED BY <1>14, <2>1, <2>2 DEF MergeALBSpecificData, Goto, kubeVars
  <1>15. CASE MergeCollides
    <2>1. cur \in Current /\ Conf[cur.name].ports \in PortMap
      BY <1>15, ConfType DEF MergeCollides, Current
    <2>2. alb' \in [AlbKeys -> PortMap]
      <3> PICK a \in cur.albs, before \in SUBSET cur.albs, ps \in SUBSET Ports :
            alb' = [b \in AlbKeys |->
                      IF b \in before THEN Over(alb[b], Conf[cur.name].ports)
                      ELSE IF b = a THEN Over(alb[b], Only(Conf[cur.name].ports, ps))
                      ELSE alb[b]]
        BY <1>15 DEF MergeCollides
      <3>1. Only(Conf[cur.name].ports, ps) \in PortMap BY <2>1, OnlyType
      <3> QED BY <2>1, <3>1, OverType
    <2>3. cur' \in Current BY <1>15, <2>1 DEF MergeCollides, Current
    <2> QED BY <1>15, <2>2, <2>3 DEF MergeCollides, Goto, kubeVars
  <1>16. CASE NoTcpPorts
    <2>1. cur' \in Current BY <1>16 DEF NoTcpPorts, Current
    <2> QED BY <1>16, <2>1 DEF NoTcpPorts, Goto, kubeVars
  <1>17. CASE TcpConfigUnreadable
    <2>1. cur' \in Current BY <1>17 DEF TcpConfigUnreadable, Current
    <2> QED BY <1>17, <2>1 DEF TcpConfigUnreadable, Call, Goto, kubeVars
  <1>18. CASE PutTcpPorts
    <2>1. cur \in Current /\ Conf[cur.name].ports \in PortMap
      BY <1>18, ConfType DEF PutTcpPorts, Current
    <2> PICK a \in cur.albs :
          \/ /\ cur' = [cur EXCEPT !.albs = @ \ {a}]
             /\ UNCHANGED <<kubeVars, faults>>
          \/ /\ TcpData(a) # NoPorts
             /\ Call(FALSE) /\ TcpCreated(a, FALSE) /\ UNCHANGED kubeVars
          \/ /\ TcpData(a) # NoPorts /\ cluster.tcp[a] # NoPorts
             /\ \E ok \in BOOLEAN :
                   Call(ok) /\ TcpCreated(a, ok) /\ PutTcpConfigMap(a, TcpUpdate(a), ok)
      BY <1>18 DEF PutTcpPorts
    <2>2. a \in AlbKeys BY <2>1 DEF Current
    <2>3. TcpData(a) \in PortMap BY <2>1, OnlyType DEF TcpData
    <2>4. TcpUpdate(a) \in PortMap BY <2>2, <2>3, OverType DEF TcpUpdate, Store
    <2>5. Stores' BY <2>2, <2>4, <1>st, TcpType DEF kubeVars, Stores
    <2>6. <<"TCP", a>> \in Outputs BY <2>2 DEF Outputs
    <2>7. ASSUME NEW ok \in BOOLEAN, TcpCreated(a, ok) PROVE cur' \in Current
      BY <2>1, <2>6, <2>7 DEF TcpCreated, Current
    <2>8. ASSUME cur' = [cur EXCEPT !.albs = @ \ {a}] PROVE cur' \in Current
      BY <2>1, <2>8 DEF Current
    <2>9. cur' \in Current BY <2>7, <2>8, Zenon
    <2>10. ASSUME NEW ok \in BOOLEAN, Call(ok) PROVE faults' \in Nat
      BY <2>10 DEF Call
    <2>11. faults' \in Nat BY <2>10 DEF kubeVars
    <2> QED BY <1>18, <2>5, <2>9, <2>11 DEF PutTcpPorts, Goto, Stores
  <1>19. CASE EmptyTcpConfigMapPanic
    BY <1>19 DEF EmptyTcpConfigMapPanic, Goto, kubeVars, runVars
  <1>20. CASE FinishIngress
    <2>1. cur \in Current BY <1>20 DEF FinishIngress
    <2>2. IngressInfo \in MigratedResource
      BY <2>1 DEF IngressInfo, MigratedResource, Current
    <2>3. infos' \subseteq MigratedResource BY <1>20, <2>2 DEF FinishIngress, AddInfo
    <2>4. failed' \in BOOLEAN BY <1>20, <2>1 DEF FinishIngress, TcpErrors, Current
    <2> QED BY <1>20, <2>3, <2>4 DEF FinishIngress, Goto, kubeVars
  <1>21. CASE UpdateStatus
    <2> PICK got \in BOOLEAN, ok \in BOOLEAN :
          /\ Call(ok) /\ CreateOrUpdateStatusCm(mode, infos, got, ok)
          /\ failed' = (failed \/ ~ok \/ ~StatusAccepts(mode))
      BY <1>21 DEF UpdateStatus
    <2>1. Stores' BY <1>st, StatusType
    <2> QED BY <1>21, <2>1 DEF UpdateStatus, Call, Goto, Stores
  <1>22. CASE Exit
    BY <1>22 DEF Exit, AfterIngresses, Goto, kubeVars, runVars
  <1>23. CASE DumpYAML
    <2>1. DumpIngresses \in Store BY DEF DumpIngresses, Put, Store
    <2>2. ASSUME NEW d \in Store
          PROVE  [d EXCEPT !.tcp = [a \in AlbKeys |-> Put(@[a], recorded.tcp[a])],
                           !.k8sCm = Put(@, recorded.k8sCm),
                           !.testCm = Put(@, recorded.testCm),
                           !.status = Put(@, recorded.status)] \in Store
      <3>1. \A a \in AlbKeys : Put(d.tcp[a], recorded.tcp[a]) \in PortMap \cup {Absent}
        BY DEF Put, Store
      <3>2. /\ Put(d.k8sCm, recorded.k8sCm) \in CmData \cup {Absent}
            /\ Put(d.testCm, recorded.testCm) \in CmData \cup {Absent}
            /\ Put(d.status, recorded.status) \in Status \cup {Absent}
        BY DEF Put, Store
      <3> QED BY <3>1, <3>2 DEF Store
    <2>3. DumpAll \in Store BY <2>1, <2>2 DEF DumpAll
    <2> QED BY <1>23, <2>1, <2>3 DEF DumpYAML, Call, kubeVars, runVars
  <1>24. CASE Crash
    BY <1>24 DEF Crash, Goto, kubeVars, runVars
  <1>25. CASE Restart
    <2>1. alb' \in [AlbKeys -> PortMap] BY <1>25, NoPortsType DEF Restart, NoClaims
    <2>2. run' \in Nat BY <1>25 DEF Restart
    <2>3. recorded' \in Store BY <1>25, EmptyStoreType DEF Restart
    <2> QED BY <1>25, <2>1, <2>2, <2>3 DEF Restart
  <1>26. CASE UNCHANGED vars
    BY <1>26 DEF vars, kubeVars, runVars
  <1> QED
    BY <1>1, <1>2, <1>3, <1>4, <1>5, <1>6, <1>7, <1>8, <1>9, <1>10, <1>11, <1>12, <1>13,
       <1>14, <1>15, <1>16, <1>17, <1>18, <1>19, <1>20, <1>21, <1>22, <1>23, <1>24, <1>25, <1>26
    DEF Next, Step, Configure, Choose, Create, Tcp, Finish, Stopped

(* TypeOK: every variable has its type, whatever the requests answer and     *)
(* however often the tool is killed and started again.                       *)
THEOREM TypeCorrect == Spec => []TypeOK
  BY TypeInit, TypeStep, PTL DEF Spec

-----------------------------------------------------------------------------
(* What was written stays written, but for Restart: a run that only records  *)
(* finds nothing of an earlier run, and reports nothing of it.               *)
Kept == \A o \in Outputs : Written(o) => Written(o)'

(* A client that does not write records.                                     *)
LEMMA ReadOnlyRecords ==
    ASSUME Stores
    PROVE  readOnly \in BOOLEAN /\ (readOnly => RecordResources)
  <1>1. readOnly \in BOOLEAN BY ModeAssumption DEF Stores
  <1>2. CASE readOnly = TRUE BY <1>2, ModeAssumption DEF Stores
  <1>3. CASE readOnly = FALSE BY <1>3
  <1> QED BY <1>1, <1>2, <1>3

(* Nothing that is written is lost when the client sends nothing.           *)
LEMMA KeptIfSame ==
    ASSUME UNCHANGED kubeVars
    PROVE  Kept /\ Output'.status = Output.status
  BY DEF Kept, Written, WrittenIn, Published, Output, kubeVars

(* CreateOrUpdateIngress loses nothing, and writes the Ingress if it succeeds. *)
LEMMA IngressKept ==
    ASSUME Stores, NEW n \in IngressNames, NEW ing \in Ingress, ing.by # User,
           NEW ok \in BOOLEAN, CreateOrUpdateIngress(n, ing, ok)
    PROVE  /\ Kept /\ Output'.status = Output.status
           /\ ok => Written(<<"Ingress", n>>)'
  BY ReadOnlyRecords, AbsentAssumption
  DEF Stores, Store, CreateOrUpdateIngress, MayWrite, Kept, Written, WrittenIn, Published, Output, Outputs

(* A write of a TCP ConfigMap loses nothing when the ConfigMap keeps a port, *)
(* and writes it if it succeeds.                                            *)
LEMMA TcpKept ==
    ASSUME Stores, NEW a \in AlbKeys, NEW data \in PortMap, data # NoPorts,
           NEW ok \in BOOLEAN, PutTcpConfigMap(a, data, ok)
    PROVE  /\ Kept /\ Output'.status = Output.status
           /\ ok => Written(<<"TCP", a>>)'
  BY ReadOnlyRecords, AbsentAssumption
  DEF Stores, Store, PutTcpConfigMap, MayWrite, Kept, Written, WrittenIn, Published, Output, Outputs

(* A write of the k8s ConfigMap or its copy loses nothing, and writes it if it *)
(* succeeds.                                                                *)
LEMMA CmKept ==
    ASSUME Stores, NEW data \in CmData, NEW ok \in BOOLEAN,
           UpdateK8sCm(data, ok) \/ CreateOrUpdateTestCm(data, ok)
    PROVE  /\ Kept /\ Output'.status = Output.status
           /\ ok /\ UpdateK8sCm(data, ok) => Written(<<"ConfigMap", "k8sCm">>)'
           /\ ok /\ CreateOrUpdateTestCm(data, ok) => Written(<<"ConfigMap", "testCm">>)'
  BY ReadOnlyRecords, AbsentAssumption
  DEF Stores, Store, UpdateK8sCm, CreateOrUpdateTestCm, MayWrite, Kept, Written, WrittenIn, Published,
      Output, Outputs

(* CreateOrUpdateStatusCm loses nothing, and its status has no entries but  *)
(* the old ones and those it is given.                                      *)
LEMMA StatusKept ==
    ASSUME Stores, NEW m \in Modes, NEW update \in SUBSET MigratedResource,
           NEW got \in BOOLEAN, NEW ok \in BOOLEAN,
           CreateOrUpdateStatusCm(m, update, got, ok)
    PROVE  /\ Kept
           /\ \/ Output'.status = Output.status
              \/ Output'.status = StatusUpdate(m, update)
  <1>1. \A s \in Store : LET t == [s EXCEPT !.status = StatusUpdate(m, update)]
                         IN  /\ t.ingress = s.ingress /\ t.tcp = s.tcp
                             /\ t.k8sCm = s.k8sCm /\ t.testCm = s.testCm
                             /\ t.status = StatusUpdate(m, update)
    BY DEF Store
  <1>2. /\ Output'.ingress = Output.ingress /\ Output'.tcp = Output.tcp
        /\ Output'.k8sCm = Output.k8sCm /\ Output'.testCm = Output.testCm
    BY <1>1 DEF Stores, CreateOrUpdateStatusCm, kubeVars, Output
  <1>3. \/ Output'.status = Output.status
        \/ Output'.status = StatusUpdate(m, update)
    BY <1>1 DEF Stores, CreateOrUpdateStatusCm, kubeVars, Output
  <1> QED BY <1>2, <1>3 DEF Kept, Written, WrittenIn, Published

(* DeleteStatusCm loses nothing and adds no entries.                        *)
LEMMA DeleteStatusKept ==
    ASSUME Stores, NEW ok \in BOOLEAN, DeleteStatusCm(ok)
    PROVE  Kept /\ Output'.status \in {Output.status, Absent}
  BY DEF Stores, Store, DeleteStatusCm, Kept, Written, WrittenIn, Published, Output

-----------------------------------------------------------------------------
(* Every entry, collected or in the status, is a MigratedResource.          *)
LEMMA EntriesType ==
    ASSUME TypeOK
    PROVE  Entries \subseteq MigratedResource
  <1>1. Output \in Store BY DEF TypeOK, Output
  <1> QED BY <1>1 DEF Entries, TypeOK, Store, Status

(* ReportedIsWritten is kept by a step that loses nothing when every new    *)
(* entry lists only what is written.                                        *)
LEMMA EntriesKept ==
    ASSUME TypeOK, ReportedIsWritten, Kept,
           \A r \in Entries' : r \in Entries \/ \A o \in r.as : Written(o)'
    PROVE  ReportedIsWritten'
  <1>1. \A r \in Entries : \A o \in r.as : o \in Outputs /\ Written(o)
    BY EntriesType DEF MigratedResource, ReportedIsWritten
  <1>2. \A r \in Entries' : \A o \in r.as : Written(o)'
    BY <1>1 DEF Kept
  <1> QED BY <1>2 DEF ReportedIsWritten

(* CurIsWritten is kept by a step that loses nothing and adds nothing to what *)
(* the current Ingress is migrated as.                                      *)
LEMMA CurKept ==
    ASSUME TypeOK, CurIsWritten, Kept,
           cur' # Absent => \A o \in cur'.as \cup cur'.tcp :
                               (cur # Absent /\ o \in cur.as \cup cur.tcp) \/ Written(o)'
    PROVE  CurIsWritten'
  <1>1. cur # Absent => \A o \in cur.as \cup cur.tcp : o \in Outputs /\ Written(o)
    BY DEF TypeOK, Current, CurIsWritten
  <1> QED BY <1>1 DEF Kept, CurIsWritten

(* A step that writes nothing and reports nothing new.                       *)
LEMMA Quiet ==
    ASSUME ReportInv, UNCHANGED <<kubeVars, infos>>, pc' # "configStatus",
           cur' # Absent => cur # Absent /\ cur'.as \subseteq cur.as /\ cur'.tcp \subseteq cur.tcp
    PROVE  (ReportedIsWritten /\ CurIsWritten /\ ConfigIsWritten)'
  <1>1. Kept /\ Output'.status = Output.status
    BY KeptIfSame
  <1>2. Entries' = Entries
    BY DEF Entries, Output, kubeVars
  <1>3. ReportedIsWritten'
    BY <1>1, <1>2, EntriesKept DEF ReportInv
  <1>4. CurIsWritten'
    BY <1>1, CurKept DEF ReportInv
  <1> QED BY <1>3, <1>4 DEF ConfigIsWritten

(* What PutTcpPorts writes has a port when the Ingress has one that is open. *)
LEMMA TcpUpdateWritten ==
    ASSUME NEW a \in AlbKeys, TcpData(a) \in PortMap, TcpData(a) # NoPorts,
           cluster.tcp[a] \in PortMap \cup {Absent}
    PROVE  TcpUpdate(a) # NoPorts /\ TcpUpdate(a) \in PortMap
  <1>1. PICK p \in Ports : TcpData(a)[p] # Absent
    BY DEF PortMap, NoPorts
  <1>2. TcpUpdate(a) \in PortMap
    BY OverType DEF TcpUpdate
  <1>3. TcpUpdate(a)[p] # Absent
    BY <1>1 DEF TcpUpdate, Over
  <1> QED BY <1>2, <1>3 DEF NoPorts

(* ReportInv holds when the tool starts: nothing is reported.               *)
LEMMA ReportInit == Init => ReportInv
  <1> SUFFICES ASSUME Init PROVE ReportInv
    OBVIOUS
  <1>1. cluster.status = Absent
    BY DEF Init, EmptyStore
  <1>2. recorded.status = Absent
    BY DEF Init, EmptyStore
  <1>3. Entries = {}
    BY <1>1, <1>2 DEF Init, Entries, Output
  <1> QED
    BY <1>1, <1>3, TypeInit
    DEF Init, ReportInv, ReportedIsWritten, CurIsWritten, ConfigIsWritten, ClusterIsTrue

(* A run keeps the configuration it was started with.                        *)
LEMMA SameConfiguration ==
    ASSUME [Next]_vars, ~Restart
    PROVE  UNCHANGED readOnly
  BY DEF Next, Step, Configure, DeleteStatus, DeleteStatusCm, ConfigUnreadable, NoIksConfig,
         MigrateConfig, PutConfig, UpdateK8sCm, CreateOrUpdateTestCm, ConfigStatus,
         CreateOrUpdateStatusCm, Choose, ListIngresses, Skip, Reject, GetIngressConfigPanic, Accept,
         Create, SplitFails, CreateOne, CreateOrUpdateIngress, Unrenderable, Tcp,
         MergeALBSpecificData, MergeCollides, NoTcpPorts, TcpConfigUnreadable, PutTcpPorts,
         PutTcpConfigMap, EmptyTcpConfigMapPanic, Finish, FinishIngress, UpdateStatus, Exit,
         DumpYAML, Crash, Stopped, vars, kubeVars

(* A run that only records sends nothing to the cluster.                     *)
LEMMA ReadOnlyWritesNothing ==
    ASSUME [Next]_vars, readOnly
    PROVE  UNCHANGED cluster
  BY DEF Next, Step, Configure, DeleteStatus, DeleteStatusCm, ConfigUnreadable, NoIksConfig,
         MigrateConfig, PutConfig, UpdateK8sCm, CreateOrUpdateTestCm, ConfigStatus,
         CreateOrUpdateStatusCm, Choose, ListIngresses, Skip, Reject, GetIngressConfigPanic, Accept,
         Create, SplitFails, CreateOne, CreateOrUpdateIngress, Unrenderable, Tcp,
         MergeALBSpecificData, MergeCollides, NoTcpPorts, TcpConfigUnreadable, PutTcpPorts,
         PutTcpConfigMap, EmptyTcpConfigMapPanic, Finish, FinishIngress, UpdateStatus, Exit,
         DumpYAML, Crash, Restart, Stopped, vars, kubeVars

(* The status in the cluster stays true: a run that writes reports there, one *)
(* that does not leaves it as it is.                                         *)
LEMMA ClusterKept ==
    ASSUME ClusterIsTrue, [Next]_vars, ReportedIsWritten'
    PROVE  ClusterIsTrue'
  <1>1. CASE UNCHANGED cluster
    BY <1>1 DEF ClusterIsTrue
  <1>2. CASE ~UNCHANGED cluster
    <2>1. ~readOnly /\ ~Restart
      BY <1>2, ReadOnlyWritesNothing DEF Restart
    <2>2. ~readOnly' BY <2>1, SameConfiguration
    <2>3. Output' = cluster' BY <2>2 DEF Output
    <2> QED BY <2>3 DEF ClusterIsTrue, ReportedIsWritten, Entries, Written
  <1> QED BY <1>1, <1>2

(* Every step keeps ReportInv.                                              *)
LEMMA ReportStep == ReportInv /\ [Next]_vars => ReportInv'
  <1> SUFFICES ASSUME ReportInv, [Next]_vars
               PROVE  (ReportedIsWritten /\ CurIsWritten /\ ConfigIsWritten)'
    BY TypeStep, ClusterKept DEF ReportInv
  <1>ty. TypeOK BY DEF ReportInv
  <1>st. Stores BY <1>ty DEF TypeOK, Stores
  <1>1. CASE DeleteStatus
    <2>1. Kept /\ Output'.status \in {Output.status, Absent}
      BY <1>1, <1>st, DeleteStatusKept DEF DeleteStatus
    <2>2. Entries' \subseteq Entries
      BY <1>1, <2>1 DEF DeleteStatus, runVars, Entries, Output
    <2>3. ReportedIsWritten' BY <2>1, <2>2, EntriesKept DEF ReportInv
    <2>4. CurIsWritten' BY <1>1, <2>1, CurKept DEF ReportInv, DeleteStatus, runVars
    <2> QED BY <1>1, <2>3, <2>4 DEF DeleteStatus, Goto, ConfigIsWritten
  <1>2. CASE MigrateConfig
    <2> PICK ok \in BOOLEAN :
          /\ PutConfig(ok)
          /\ Goto(IF ok THEN "configStatus" ELSE "panicked")
      BY <1>2 DEF MigrateConfig
    <2>1. MigratedCm \in CmData
      BY <1>2, <1>ty DEF MigrateConfig, MigratedCm, CmData, TypeOK, Store
    <2>2. /\ Kept /\ Output'.status = Output.status
          /\ ok => \A o \in ConfigInfo.as : Written(o)'
      BY <2>1, <1>st, CmKept DEF PutConfig, ConfigInfo
    <2>3. Entries' = Entries BY <1>2, <2>2 DEF MigrateConfig, runVars, Entries, Output
    <2>4. ReportedIsWritten' BY <2>2, <2>3, EntriesKept DEF ReportInv
    <2>5. CurIsWritten' BY <1>2, <2>2, CurKept DEF ReportInv, MigrateConfig, runVars
    <2>6. ConfigInfo'.as = ConfigInfo.as BY DEF Goto, ConfigInfo
    <2>7. ConfigIsWritten' BY <2>2, <2>6 DEF Goto, ConfigIsWritten
    <2> QED BY <2>4, <2>5, <2>7
  <1>3. CASE ConfigStatus
    <2> PICK got \in BOOLEAN, ok \in BOOLEAN :
          /\ CreateOrUpdateStatusCm(mode, {ConfigInfo}, got, ok)
          /\ Goto(IF ok /\ StatusAccepts(mode) THEN "list" ELSE "panicked")
      BY <1>3 DEF ConfigStatus
    <2>1. {ConfigInfo} \in SUBSET MigratedResource
      BY <1>ty DEF TypeOK, ConfigInfo, MigratedResource, Outputs
    <2>2. /\ Kept
          /\ \/ Output'.status = Output.status
             \/ Output'.status = StatusUpdate(mode, {ConfigInfo})
      BY <2>1, <1>st, <1>ty, StatusKept DEF TypeOK
    <2>3. \A o \in ConfigInfo.as : Written(o)'
      BY <1>3, <2>1, <2>2 DEF ConfigStatus, ReportInv, ConfigIsWritten, Kept, MigratedResource
    <2>4. Entries' \subseteq Entries \cup {ConfigInfo}
      BY <1>3, <2>2 DEF ConfigStatus, runVars, Entries, StatusUpdate, StatusRead, Output
    <2>5. ReportedIsWritten' BY <2>2, <2>3, <2>4, EntriesKept DEF ReportInv
    <2>6. CurIsWritten' BY <1>3, <2>2, CurKept DEF ReportInv, ConfigStatus, runVars
    <2> QED BY <2>5, <2>6 DEF Goto, ConfigIsWritten
  <1>4. CASE CreateOne
    <2> PICK p \in cur.parts \ Conf[cur.name].unrenderable, ok \in BOOLEAN :
          /\ CreateOrUpdateIngress(p, Generated(cur.name), ok) /\ Created(p, ok)
      BY <1>4 DEF CreateOne
    <2>1. cur \in Current /\ cur.name \in IngressNames /\ p \in IngressNames
      BY <1>4, <1>ty DEF CreateOne, TypeOK, Current
    <2>2. Generated(cur.name).by # User
      BY <2>1, NamesAssumption DEF Generated
    <2>3. /\ Kept /\ Output'.status = Output.status
          /\ ok => Written(<<"Ingress", p>>)'
      BY <2>1, <2>2, <1>st, GeneratedType, IngressKept
    <2>4. Entries' = Entries BY <1>4, <2>3 DEF CreateOne, Entries, Output
    <2>5. ReportedIsWritten' BY <2>3, <2>4, EntriesKept DEF ReportInv
    <2>6. /\ cur'.tcp = cur.tcp
          /\ cur'.as \subseteq cur.as \cup (IF ok THEN {<<"Ingress", p>>} ELSE {})
      BY <2>1 DEF Created, Current
    <2>7. cur # Absent
      BY <1>4, <1>ty, NoCurrentAssumption DEF CreateOne, TypeOK
    <2>8. CurIsWritten' BY <2>3, <2>6, <2>7, <1>ty, CurKept DEF ReportInv
    <2> QED BY <1>4, <2>5, <2>8 DEF CreateOne, Goto, ConfigIsWritten
  <1>5. CASE PutTcpPorts
    <2>1. /\ cur \in Current /\ cur # Absent /\ Conf[cur.name].ports \in PortMap
          /\ cur.albs \subseteq AlbKeys
      BY <1>5, <1>ty, ConfType, NoCurrentAssumption DEF PutTcpPorts, TypeOK, Current
    <2>2. PICK a \in cur.albs :
          \/ /\ cur' = [cur EXCEPT !.albs = @ \ {a}]
             /\ UNCHANGED kubeVars
          \/ TcpCreated(a, FALSE) /\ UNCHANGED kubeVars
          \/ /\ TcpData(a) # NoPorts
             /\ \E ok \in BOOLEAN :
                   TcpCreated(a, ok) /\ PutTcpConfigMap(a, TcpUpdate(a), ok)
      BY <1>5 DEF PutTcpPorts
    <2>3. CASE \/ cur' = [cur EXCEPT !.albs = @ \ {a}] /\ UNCHANGED kubeVars
               \/ TcpCreated(a, FALSE) /\ UNCHANGED kubeVars
      <3>1. cur'.as = cur.as /\ cur'.tcp = cur.tcp
        BY <2>1, <2>3 DEF TcpCreated, Current
      <3> QED BY <1>5, <2>1, <2>3, <3>1, Quiet DEF PutTcpPorts, Goto
    <2>4. ASSUME NEW ok \in BOOLEAN, TcpData(a) # NoPorts,
                 TcpCreated(a, ok), PutTcpConfigMap(a, TcpUpdate(a), ok)
          PROVE  (ReportedIsWritten /\ CurIsWritten /\ ConfigIsWritten)'
      <3>1. TcpData(a) \in PortMap BY <2>1, OnlyType DEF TcpData
      <3>2. cluster.tcp[a] \in PortMap \cup {Absent} BY <2>1, <1>st DEF Stores, Store
      <3>3. TcpUpdate(a) # NoPorts /\ TcpUpdate(a) \in PortMap
        BY <2>1, <2>4, <3>1, <3>2, TcpUpdateWritten
      <3>4. /\ Kept /\ Output'.status = Output.status
            /\ ok => Written(<<"TCP", a>>)'
        BY <2>1, <2>4, <3>3, <1>st, TcpKept
      <3>5. Entries' = Entries BY <1>5, <3>4 DEF PutTcpPorts, Entries, Output
      <3>6. ReportedIsWritten' BY <3>4, <3>5, EntriesKept DEF ReportInv
      <3>7. /\ cur'.as = cur.as
            /\ cur'.tcp \subseteq cur.tcp \cup (IF ok THEN {<<"TCP", a>>} ELSE {})
        BY <2>1, <2>4 DEF TcpCreated, Current
      <3>8. CurIsWritten' BY <2>1, <3>4, <3>7, <1>ty, CurKept DEF ReportInv
      <3> QED BY <1>5, <3>6, <3>8 DEF PutTcpPorts, Goto, ConfigIsWritten
    <2> QED BY <2>2, <2>3, <2>4
  <1>6. CASE FinishIngress
    <2>1. cur \in Current /\ cur # Absent
      BY <1>6, <1>ty, NoCurrentAssumption DEF FinishIngress, TypeOK
    <2>2. Kept /\ Output'.status = Output.status
      BY <1>6, KeptIfSame DEF FinishIngress
    <2>3. Entries' = Entries \cup {IngressInfo}
      BY <1>6, <2>2 DEF FinishIngress, AddInfo, Entries, Output, kubeVars
    <2>4. \A o \in IngressInfo.as : Written(o)'
      BY <2>1, <2>2 DEF IngressInfo, ReportInv, CurIsWritten, Current, Kept
    <2>5. ReportedIsWritten' BY <2>2, <2>3, <2>4, EntriesKept DEF ReportInv
    <2> QED BY <1>6, <2>5 DEF FinishIngress, Goto, ConfigIsWritten, CurIsWritten
  <1>7. CASE UpdateStatus
    <2> PICK got \in BOOLEAN, ok \in BOOLEAN : CreateOrUpdateStatusCm(mode, infos, got, ok)
      BY <1>7 DEF UpdateStatus
    <2>1. /\ Kept
          /\ \/ Output'.status = Output.status
             \/ Output'.status = StatusUpdate(mode, infos)
      BY <1>st, <1>ty, StatusKept DEF TypeOK
    <2>2. Entries' \subseteq Entries
      BY <1>7, <2>1 DEF UpdateStatus, Entries, StatusUpdate, StatusRead, Output
    <2>3. ReportedIsWritten' BY <2>1, <2>2, EntriesKept DEF ReportInv
    <2>4. CurIsWritten' BY <1>7, <2>1, CurKept DEF ReportInv, UpdateStatus
    <2> QED BY <1>7, <2>3, <2>4 DEF UpdateStatus, Goto, ConfigIsWritten
  <1>8. CASE Restart
    <2>1. CASE readOnly'
      <3>1. Output'.status = Absent
        BY <1>8, <2>1 DEF Restart, Output, EmptyStore
      <3>2. Entries' = {} BY <1>8, <3>1 DEF Restart, Entries, Output
      <3> QED BY <1>8, <3>2 DEF Restart, ReportedIsWritten, CurIsWritten, ConfigIsWritten
    <2>2. CASE ~readOnly'
      <3>1. Output' = cluster BY <1>8, <2>2 DEF Restart, Output
      <3>2. Entries' = IF cluster.status = Absent THEN {} ELSE cluster.status.resources
        BY <1>8, <3>1 DEF Restart, Entries
      <3>3. \A o : Written(o)' = WrittenIn(cluster, o) BY <3>1 DEF Written
      <3>4. ReportedIsWritten'
        BY <3>2, <3>3 DEF ReportInv, ClusterIsTrue, ReportedIsWritten
      <3> QED BY <1>8, <3>4 DEF Restart, CurIsWritten, ConfigIsWritten
    <2> QED BY <2>1, <2>2
  <1>9. CASE ConfigUnreadable \/ NoIksConfig \/ ListIngresses \/ Skip \/ Reject \/ GetIngressConfigPanic
    BY <1>9, Quiet
    DEF ConfigUnreadable, NoIksConfig, ListIngresses, Skip, Reject, GetIngressConfigPanic, Goto, runVars
  <1>10. CASE Accept
    <2>1. Kept /\ Output'.status = Output.status
      BY <1>10, KeptIfSame DEF Accept
    <2>2. Entries' = Entries BY <1>10, <2>1 DEF Accept, Entries, Output, kubeVars
    <2>3. ReportedIsWritten' BY <2>1, <2>2, EntriesKept DEF ReportInv
    <2>4. cur'.as = {} /\ cur'.tcp = {} BY <1>10 DEF Accept
    <2> QED BY <1>10, <2>3, <2>4 DEF Accept, Goto, ConfigIsWritten, CurIsWritten
  <1>11. CASE SplitFails \/ Unrenderable \/ MergeCollides \/ NoTcpPorts \/ TcpConfigUnreadable
    <2>1. cur \in Current /\ cur # Absent
      BY <1>11, <1>ty, NoCurrentAssumption
      DEF SplitFails, Unrenderable, MergeCollides, NoTcpPorts, TcpConfigUnreadable, TypeOK
    <2>2. cur'.as = cur.as /\ cur'.tcp = cur.tcp
      BY <1>11, <2>1
      DEF SplitFails, NoParts, Unrenderable, Created, MergeCollides, NoTcpPorts,
          TcpConfigUnreadable, Current
    <2> QED
      BY <1>11, <2>1, <2>2, Quiet
      DEF SplitFails, Unrenderable, MergeCollides, NoTcpPorts, TcpConfigUnreadable, Goto
  <1>12. CASE MergeALBSpecificData \/ EmptyTcpConfigMapPanic \/ Exit \/ Crash
    BY <1>12, Quiet
    DEF MergeALBSpecificData, EmptyTcpConfigMapPanic, Exit, AfterIngresses, Crash, Goto, runVars
  <1>13. CASE DumpYAML
    BY <1>13, Quiet DEF DumpYAML, runVars
  <1>14. CASE UNCHANGED vars
    <2>1. Kept BY <1>14, KeptIfSame DEF vars
    <2>2. Entries' = Entries /\ ConfigInfo' = ConfigInfo
      BY <1>14 DEF vars, kubeVars, runVars, Entries, Output, ConfigInfo
    <2>3. ReportedIsWritten' BY <2>1, <2>2, EntriesKept DEF ReportInv
    <2>4. CurIsWritten' BY <1>14, <2>1, CurKept DEF ReportInv, vars, runVars
    <2>5. \A o \in ConfigInfo.as : o \in Outputs BY DEF ConfigInfo, Outputs
    <2> QED BY <1>14, <2>1, <2>2, <2>3, <2>4, <2>5
            DEF vars, ReportInv, ConfigIsWritten, Kept
  <1> QED
    BY <1>1, <1>2, <1>3, <1>4, <1>5, <1>6, <1>7, <1>8, <1>9, <1>10, <1>11, <1>12, <1>13, <1>14
    DEF Next, Step, Configure, Choose, Create, Tcp, Finish, Stopped

(* ReportedIsWritten: what the status lists is there, in every state of every *)
(* run, for every input, also after failed requests, kills and restarts.     *)
THEOREM ReportsAreTrue == Spec => []ReportedIsWritten
  <1>1. ReportInv => ReportedIsWritten
    BY DEF ReportInv
  <1> QED BY ReportInit, ReportStep, <1>1, PTL DEF Spec

=============================================================================
