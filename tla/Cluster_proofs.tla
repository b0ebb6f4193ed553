--------------------------- MODULE Cluster_proofs ----------------------------
(***************************************************************************)
(* Proofs about what a run leaves in the cluster and in its files: the     *)
(* port registry is implemented, a run that ends well has published every  *)
(* port, and the dump agrees with the cluster.                             *)
(***************************************************************************)
EXTENDS Complete_proofs

(***************************************************************************)
(* The tool implements the port registry on the cluster, however a run is  *)
(* configured.                                                             *)
(***************************************************************************)
Tables == [a \in AlbKeys |-> Published(cluster, a)]

(* ClaimInv holds when the tool starts: no Ingress is at its TCP ports.     *)
LEMMA ClaimInit == Init => ClaimInv
  BY TypeInit DEF Init, ClaimInv

(* Every step keeps ClaimInv: an Ingress gets to its TCP ports only after   *)
(* MergeALBSpecificData claimed all of them.                                *)
LEMMA ClaimStep == ClaimInv /\ [Next]_vars => ClaimInv'
  <1> SUFFICES ASSUME ClaimInv, [Next]_vars
               PROVE  (pc = "tcp" => \A a \in cur.albs, p \in Ports :
                          Conf[cur.name].ports[p] # Absent
                              => alb[a][p] = Conf[cur.name].ports[p])'
    BY TypeStep DEF ClaimInv
  <1>ty. TypeOK BY DEF ClaimInv
  <1>1. CASE MergeALBSpecificData
    <2>1. cur \in Current /\ cur.albs \subseteq AlbKeys
      BY <1>1, <1>ty DEF MergeALBSpecificData, TypeOK, Current
    <2>2. \A a \in cur.albs : alb'[a] = Over(alb[a], Conf[cur.name].ports)
      BY <1>1, <2>1 DEF MergeALBSpecificData
    <2>3. \A a \in cur.albs, p \in Ports : Conf[cur.name].ports[p] # Absent
              => alb'[a][p] = Conf[cur.name].ports[p]
      BY <2>2 DEF Over
    <2> QED BY <1>1, <2>3 DEF MergeALBSpecificData
  <1>2. CASE MergeCollides
    <2>1. cur'.albs = {}
      BY <1>2, <1>ty DEF MergeCollides, TypeOK, Current
    <2> QED BY <2>1
  <1>3. CASE NoTcpPorts \/ TcpConfigUnreadable \/ PutTcpPorts
    <2>1. cur \in Current
      BY <1>3, <1>ty DEF NoTcpPorts, TcpConfigUnreadable, PutTcpPorts, TypeOK
    <2>2. cur'.albs \subseteq cur.albs /\ cur'.name = cur.name
      BY <1>3, <2>1 DEF NoTcpPorts, TcpConfigUnreadable, PutTcpPorts, TcpCreated, Current
    <2>3. pc = "tcp" /\ alb' = alb
      BY <1>3 DEF NoTcpPorts, TcpConfigUnreadable, PutTcpPorts
    <2> QED BY <2>2, <2>3 DEF ClaimInv
  <1>4. CASE UNCHANGED vars
    BY <1>4 DEF vars, runVars, ClaimInv
  <1>5. CASE Configure \/ Choose \/ Create \/ EmptyTcpConfigMapPanic \/ Finish \/ Crash \/ Restart
    <2>1. pc' # "tcp"
      BY <1>5 DEF Configure, DeleteStatus, ConfigUnreadable, NoIksConfig, MigrateConfig,
                  ConfigStatus, Choose, ListIngresses, Skip, Reject, GetIngressConfigPanic, Accept,
                  Create, SplitFails, CreateOne, Unrenderable, EmptyTcpConfigMapPanic, Finish,
                  FinishIngress, UpdateStatus, Exit, AfterIngresses, DumpYAML, Crash, Restart, Goto
    <2> QED BY <2>1
  <1> QED BY <1>1, <1>2, <1>3, <1>4, <1>5 DEF Next, Step, Tcp, Stopped

-----------------------------------------------------------------------------
(* The published TCP ConfigMaps are a table of the registry.                *)
LEMMA TablesType ==
    ASSUME TypeOK
    PROVE  Tables \in [AlbKeys -> PortMap]
  <1>1. \A a \in AlbKeys : Published(cluster, a) \in PortMap
    BY NoPortsType DEF TypeOK, Published, Store
  <1> QED BY <1>1 DEF Tables

(* The table stays when the TCP ConfigMaps of the cluster do.               *)
LEMMA SameTables ==
    ASSUME cluster'.tcp = cluster.tcp
    PROVE  Tables' = Tables
  BY DEF Tables, Published

(* Only PutTcpPorts writes TCP ConfigMaps.                                   *)
LEMMA TcpUnchanged ==
    ASSUME TypeOK, [Next]_vars, ~PutTcpPorts
    PROVE  cluster'.tcp = cluster.tcp
  <1>1. CASE \/ DeleteStatus \/ MigrateConfig \/ ConfigStatus \/ CreateOne \/ UpdateStatus
    BY <1>1
    DEF TypeOK, Store, DeleteStatus, DeleteStatusCm, MigrateConfig, PutConfig, UpdateK8sCm,
        CreateOrUpdateTestCm, ConfigStatus, CreateOrUpdateStatusCm, CreateOne,
        CreateOrUpdateIngress, UpdateStatus, kubeVars
  <1>2. CASE cluster' = cluster
    BY <1>2
  <1> QED
    BY <1>1, <1>2
    DEF Next, Step, Configure, ConfigUnreadable, NoIksConfig, Choose, ListIngresses, Skip, Reject,
        GetIngressConfigPanic, Accept, Create, SplitFails, Unrenderable, Tcp, MergeALBSpecificData,
        MergeCollides, NoTcpPorts, TcpConfigUnreadable, EmptyTcpConfigMapPanic, Finish,
        FinishIngress, Exit, DumpYAML, Crash, Restart, Stopped, vars, kubeVars

(* What happens to the claims.                                               *)
LEMMA AlbUnchanged ==
    ASSUME [Next]_vars, ~MergeALBSpecificData, ~MergeCollides, ~Restart
    PROVE  alb' = alb
  BY DEF Next, Step, Configure, DeleteStatus, ConfigUnreadable, NoIksConfig, MigrateConfig,
         ConfigStatus, Choose, ListIngresses, Skip, Reject, GetIngressConfigPanic, Accept, Create,
         SplitFails, CreateOne, Unrenderable, Tcp, NoTcpPorts, TcpConfigUnreadable, PutTcpPorts,
         EmptyTcpConfigMapPanic, Finish, FinishIngress, UpdateStatus, Exit, DumpYAML, Crash,
         Stopped, vars, runVars

(* A claim is not taken over as long as the run lasts.                        *)
LEMMA ClaimsKept ==
    ASSUME TypeOK, [Next]_vars, ~Restart
    PROVE  \A a \in AlbKeys, p \in Ports : alb[a][p] # Absent => alb'[a][p] = alb[a][p]
  <1>1. CASE MergeALBSpecificData
    <2>1. cur \in Current /\ cur.albs \subseteq AlbKeys
      BY <1>1 DEF MergeALBSpecificData, TypeOK, Current
    <2> QED BY <1>1, <2>1 DEF MergeALBSpecificData, Colliding, Over
  <1>2. CASE MergeCollides
    <2> PICK a \in cur.albs, before \in SUBSET cur.albs, ps \in SUBSET Ports :
          /\ ps \cap Colliding(a) = {}
          /\ \A b \in before : Colliding(b) = {}
          /\ alb' = [b \in AlbKeys |->
                    IF b \in before THEN Over(alb[b], Conf[cur.name].ports)
                    ELSE IF b = a THEN Over(alb[b], Only(Conf[cur.name].ports, ps))
                    ELSE alb[b]]
      BY <1>2 DEF MergeCollides
    <2>1. cur \in Current /\ cur.albs \subseteq AlbKeys
      BY <1>2 DEF MergeCollides, TypeOK, Current
    <2>2. \A b \in before, p \in Ports : alb[b][p] # Absent => alb'[b][p] = alb[b][p]
      BY <2>1 DEF Colliding, Over
    <2>3. a \notin before => \A p \in Ports : alb[a][p] # Absent => alb'[a][p] = alb[a][p]
      BY <2>1 DEF Colliding, Over, Only
    <2> QED BY <2>2, <2>3
  <1>3. CASE ~MergeALBSpecificData /\ ~MergeCollides
    BY <1>3, AlbUnchanged
  <1> QED BY <1>1, <1>2, <1>3

(* The tool starts as the registry does: nothing claimed, any table.        *)
LEMMA RegistryInit == Init => Registry!Init
  <1> SUFFICES ASSUME Init PROVE Registry!Init
    OBVIOUS
  <1>1. Tables \in [AlbKeys -> PortMap]
    BY TypeInit, TablesType
  <1> QED
    BY <1>1 DEF Init, Registry!Init, Registry!Table, Registry!Unclaimed, NoClaims, NoPorts,
                PortMap, Tables

(* Every step of the tool is a step of the registry or changes nothing in it. *)
LEMMA RegistryStep ==
    ASSUME ClaimInv, ClaimInv', [Next]_vars
    PROVE  Registry!Next \/ (alb' = alb /\ Tables' = Tables)
  <1>ty. TypeOK /\ TypeOK' BY DEF ClaimInv
  <1>1. CASE PutTcpPorts
    <2>1. /\ cur \in Current /\ Conf[cur.name].ports \in PortMap /\ cur.albs \subseteq AlbKeys
      BY <1>1, <1>ty, ConfType DEF PutTcpPorts, TypeOK, Current
    <2>2. PICK a \in cur.albs :
          \/ UNCHANGED kubeVars
          \/ cluster.tcp[a] # NoPorts
             /\ \E ok \in BOOLEAN : PutTcpConfigMap(a, TcpUpdate(a), ok)
      BY <1>1 DEF PutTcpPorts
    <2>3. CASE cluster' = cluster
      BY <1>1, <2>3, SameTables DEF PutTcpPorts
    <2>4. CASE cluster' = [cluster EXCEPT !.tcp[a] = TcpUpdate(a)]
      <3>2. TcpData(a) \in PortMap BY <2>1, OnlyType DEF TcpData
      <3>3. cluster.tcp \in [AlbKeys -> PortMap \cup {Absent}] BY <1>ty DEF TypeOK, Store
      <3>4. TcpUpdate(a) \in PortMap
        <4>1. a \in AlbKeys BY <2>1
        <4>2. cluster.tcp[a] # Absent => cluster.tcp[a] \in PortMap BY <3>3, <4>1
        <4> QED BY <3>2, <4>2, OverType DEF TcpUpdate
      <3>5. cluster'.tcp = [cluster.tcp EXCEPT ![a] = TcpUpdate(a)]
        BY <2>4, <1>ty DEF TypeOK, Store
      <3>6. /\ Published(cluster, a)' = TcpUpdate(a)
            /\ \A b \in AlbKeys \ {a} : Published(cluster, b)' = Published(cluster, b)
        BY <2>1, <3>3, <3>4, <3>5, AbsentAssumption DEF Published
      <3>7. \A p \in Ports : TcpUpdate(a)[p] # Published(cluster, a)[p]
                => TcpData(a)[p] # Absent /\ TcpUpdate(a)[p] = TcpData(a)[p]
        BY <3>2 DEF TcpUpdate, Over, Published, NoPorts
      <3>8. \A p \in Ports : TcpData(a)[p] # Absent
                => /\ TcpData(a)[p] = Conf[cur.name].ports[p]
                   /\ alb[a][p] = TcpData(a)[p]
        BY <1>1 DEF TcpData, Only, PutTcpPorts, ClaimInv
      <3>9. Tables' \in [AlbKeys -> PortMap]
        <4>1. \A b \in AlbKeys : Published(cluster, b) \in PortMap
          BY <1>ty, NoPortsType DEF TypeOK, Published, Store
        <4>2. \A b \in AlbKeys : Published(cluster, b)' \in PortMap
          BY <3>4, <3>6, <4>1
        <4> QED BY <4>2 DEF Tables
      <3>10. \A b \in AlbKeys, p \in Ports :
                Tables'[b][p] # Tables[b][p] => alb[b][p] # Absent /\ Tables'[b][p] = alb[b][p]
        BY <2>1, <3>6, <3>7, <3>8 DEF Tables
      <3>11. alb' = alb BY <1>1 DEF PutTcpPorts
      <3> QED
        BY <3>9, <3>10, <3>11
        DEF Registry!Next, Registry!Publish, Registry!Table, PortMap, Tables
    <2> QED BY <2>2, <2>3, <2>4 DEF PutTcpConfigMap, kubeVars
  <1>2. CASE MergeALBSpecificData \/ MergeCollides
    <2>2. \A a \in AlbKeys, p \in Ports : alb[a][p] # Absent => alb'[a][p] = alb[a][p]
      BY <1>2, <1>ty, ClaimsKept DEF MergeALBSpecificData, MergeCollides, Restart, Ended
    <2>3. Tables' = Tables
      BY <1>2, SameTables DEF MergeALBSpecificData, MergeCollides, kubeVars
    <2>4. alb' \in [AlbKeys -> PortMap] BY <1>ty DEF TypeOK
    <2> QED
      BY <2>2, <2>3, <2>4 DEF Registry!Next, Registry!Claim, Registry!Table, PortMap, Tables
  <1>3. CASE Restart
    <2>1. Tables' = Tables BY <1>3, SameTables DEF Restart
    <2> QED
      BY <1>3, <2>1 DEF Restart, Registry!Next, Registry!NewRun, Registry!Unclaimed, NoClaims,
                        NoPorts, Tables
  <1>4. CASE ~PutTcpPorts /\ ~MergeALBSpecificData /\ ~MergeCollides /\ ~Restart
    BY <1>4, <1>ty, TcpUnchanged, AlbUnchanged, SameTables
  <1> QED BY <1>1, <1>2, <1>3, <1>4

(* ImplementsRegistry: whatever Ingresses there are, whatever fails and        *)
(* whichever runs only record, a port is given to one backend in a run, and no *)
(* port of a TCP ConfigMap is dropped.                                       *)
THEOREM RegistryImplemented == Spec => ImplementsRegistry
  <1>1. ClaimInv /\ ClaimInv' /\ [Next]_vars
            => [Registry!Next]_<<alb, [a \in AlbKeys |-> Published(cluster, a)]>>
    BY RegistryStep DEF Tables
  <1> QED
    BY ClaimInit, ClaimStep, RegistryInit, <1>1, PTL
    DEF Spec, ImplementsRegistry, Registry!Spec

-----------------------------------------------------------------------------
(***************************************************************************)
(* A run that ends well and writes has sent every open TCP port of every   *)
(* Ingress to its backend: what an Ingress published stays, since the      *)
(* registry lets nobody take over its claims.                              *)
(***************************************************************************)
(* A step changes a published port only to what is claimed.                  *)
LEMMA TableStep ==
    ASSUME ClaimInv, ClaimInv', [Next]_vars, NEW a \in AlbKeys, NEW p \in Ports
    PROVE  Published(cluster, a)'[p] \in {Published(cluster, a)[p], alb[a][p]}
  <1>1. Tables'[a][p] = Tables[a][p] \/ Tables'[a][p] = alb[a][p]
    BY RegistryStep
    DEF Registry!Next, Registry!Claim, Registry!Publish, Registry!NewRun, Tables
  <1> QED BY <1>1 DEF Tables

(* What an Ingress claimed and published stays so.                           *)
LEMMA PortsKept ==
    ASSUME ClaimInv, ClaimInv', [Next]_vars, ~Restart, NEW n \in IngressNames, HasClaims(n)
    PROVE  /\ HasClaims(n)'
           /\ \A a \in Conf[n].albs : HasPorts(n, a) => HasPorts(n, a)'
  <1>ty. TypeOK BY DEF ClaimInv
  <1>1. Conf[n].albs \subseteq AlbKeys BY ConfType
  <1>2. HasClaims(n)'
    BY <1>ty, <1>1, ClaimsKept DEF HasClaims
  <1>3. ASSUME NEW a \in Conf[n].albs, HasPorts(n, a) PROVE HasPorts(n, a)'
    <2>1. cluster'.iksCm = cluster.iksCm /\ cluster.iksCm # Absent
      BY <1>ty, <1>3, SameIksCm DEF HasPorts
    <2>2. EnabledPorts(a)' = EnabledPorts(a)
      BY <2>1 DEF EnabledPorts
    <2>3. EnabledPorts(a) \subseteq Ports
      BY <1>ty, <2>1 DEF EnabledPorts, TypeOK, Store, IksCmData
    <2>4. ASSUME NEW p \in EnabledPorts(a), Conf[n].ports[p] # Absent
          PROVE  Published(cluster, a)'[p] = Conf[n].ports[p]
      <3>1. Published(cluster, a)[p] = Conf[n].ports[p] BY <1>3, <2>4 DEF HasPorts
      <3>2. alb[a][p] = Conf[n].ports[p] BY <2>3, <2>4 DEF HasClaims
      <3> QED BY <1>1, <2>3, <3>1, <3>2, TableStep
    <2> QED BY <2>1, <2>2, <2>4 DEF HasPorts
  <1> QED BY <1>2, <1>3

(* At first no Ingress is at hand.                                           *)
LEMMA PortInit == Init => PortInv
  BY TypeInit DEF Init, PortInv

(* One more ALB of the Ingress at hand: unless that failed, its ports are    *)
(* published.                                                                *)
LEMMA PutStep ==
    ASSUME ClaimInv, PortInv, PutTcpPorts, [Next]_vars, ~readOnly, ~cur'.tcpFailed,
           NEW n, n = cur.name
    PROVE  /\ cur'.name = n /\ ~cur.tcpFailed
           /\ \A a \in cur.albs \ cur'.albs : HasPorts(n, a)'
  <1>ty. TypeOK BY DEF ClaimInv
  <1>cur. cur \in Current BY <1>ty DEF PutTcpPorts, TypeOK
  <1>1. cluster'.iksCm = cluster.iksCm /\ cluster.iksCm # Absent
    BY <1>ty, SameIksCm DEF PutTcpPorts
  <1> PICK a \in cur.albs :
        \/ /\ TcpData(a) = NoPorts
           /\ cur' = [cur EXCEPT !.albs = @ \ {a}]
           /\ UNCHANGED kubeVars
        \/ TcpCreated(a, FALSE)
        \/ \E ok \in BOOLEAN : TcpCreated(a, ok) /\ PutTcpConfigMap(a, TcpUpdate(a), ok)
    BY DEF PutTcpPorts
  <1>2. /\ cur'.name = n /\ cur'.albs = cur.albs \ {a} /\ ~cur.tcpFailed
        /\ \/ TcpData(a) = NoPorts /\ UNCHANGED kubeVars
           \/ PutTcpConfigMap(a, TcpUpdate(a), TRUE)
    <2>1. CASE TcpData(a) = NoPorts /\ cur' = [cur EXCEPT !.albs = @ \ {a}] /\ UNCHANGED kubeVars
      BY <1>cur, <2>1 DEF Current
    <2>2. CASE TcpCreated(a, FALSE)
      BY <1>cur, <2>2 DEF TcpCreated, Current
    <2>3. ASSUME NEW ok \in BOOLEAN, TcpCreated(a, ok), PutTcpConfigMap(a, TcpUpdate(a), ok)
          PROVE  /\ cur'.name = n /\ cur'.albs = cur.albs \ {a} /\ ~cur.tcpFailed
                 /\ PutTcpConfigMap(a, TcpUpdate(a), TRUE)
      <3>1. /\ cur'.name = n /\ cur'.albs = cur.albs \ {a}
            /\ cur'.tcpFailed = (cur.tcpFailed \/ ~ok)
        BY <1>cur, <2>3 DEF TcpCreated, Current
      <3>2. ok BY <3>1
      <3> QED BY <2>3, <3>1, <3>2
    <2> QED BY <2>1, <2>2, <2>3
  <1>3. a \in AlbKeys /\ n \in IngressNames BY <1>cur DEF Current
  <1>4. EnabledPorts(a)' = EnabledPorts(a) /\ EnabledPorts(a) \subseteq Ports
    BY <1>ty, <1>1 DEF EnabledPorts, TypeOK, Store, IksCmData
  <1>5. ASSUME NEW p \in EnabledPorts(a), Conf[n].ports[p] # Absent
        PROVE  Published(cluster, a)'[p] = Conf[n].ports[p]
    <2>1. TcpData(a)[p] = Conf[n].ports[p]
      BY <1>4, <1>5 DEF TcpData, Only
    <2>2. TcpData(a) # NoPorts
      BY <1>4, <1>5, <2>1 DEF NoPorts
    <2>3. cluster'.tcp[a] = TcpUpdate(a)
      BY <1>2, <1>3, <1>ty, <2>2 DEF PutTcpConfigMap, TypeOK, Store
    <2>4. TcpUpdate(a)[p] = Conf[n].ports[p]
      BY <1>4, <1>5, <2>1 DEF TcpUpdate, Over
    <2>5. TcpUpdate(a) \in PortMap
      <3>1. Conf[n].ports \in PortMap BY <1>3, ConfType
      <3>2. TcpData(a) \in PortMap BY <3>1, OnlyType DEF TcpData
      <3>3. cluster.tcp[a] # Absent => cluster.tcp[a] \in PortMap
        BY <1>3, <1>ty DEF TypeOK, Store
      <3> QED BY <3>2, <3>3, OverType DEF TcpUpdate
    <2> QED BY <2>3, <2>4, <2>5, AbsentAssumption DEF Published
  <1>6. HasPorts(n, a)'
    BY <1>1, <1>4, <1>5 DEF HasPorts
  <1> QED BY <1>2, <1>6

(* The Ingress at hand, and the ALBs it has been through.                    *)
LEMMA CurPorts ==
    ASSUME ClaimInv, ClaimInv', PortInv, [Next]_vars, ~readOnly, pc' = "tcp",
           ~cur'.tcpFailed, Conf[cur'.name].ports # NoPorts,
           NEW n, n = cur'.name
    PROVE  /\ HasClaims(n)'
           /\ \A a \in Conf[n].albs \ cur'.albs : HasPorts(n, a)'
  <1>ty. TypeOK /\ TypeOK' BY DEF ClaimInv
  <1>n. cur' \in Current /\ n \in IngressNames /\ Conf[n].albs \subseteq AlbKeys
    BY <1>ty, ConfType DEF TypeOK, Current
  <1>r. ~Restart BY DEF Restart
  <1>1. CASE MergeALBSpecificData
    <2>1. cur' = cur /\ cur.albs = Conf[n].albs
      BY <1>1 DEF MergeALBSpecificData, PortInv
    <2>2. \A a \in Conf[n].albs : alb'[a] = Over(alb[a], Conf[n].ports)
      BY <1>1, <1>n, <2>1 DEF MergeALBSpecificData
    <2>3. ASSUME NEW a \in Conf[n].albs, NEW p \in Ports, Conf[n].ports[p] # Absent
          PROVE  alb'[a][p] = Conf[n].ports[p]
      <3>1. alb'[a] = Over(alb[a], Conf[n].ports) BY <2>2
      <3> QED BY <2>3, <3>1 DEF Over
    <2>4. HasClaims(n)'
      BY <2>3 DEF HasClaims
    <2> QED BY <2>1, <2>4
  <1>2. CASE PutTcpPorts
    <2>0. cur \in Current BY <1>2, <1>ty DEF PutTcpPorts, TypeOK
    <2>1. cur.name = n
      BY <1>2, <2>0 DEF PutTcpPorts, TcpCreated, Current
    <2>2. /\ ~cur.tcpFailed
          /\ \A a \in cur.albs \ cur'.albs : HasPorts(n, a)'
      BY <1>2, <2>1, PutStep
    <2>3. HasClaims(n) /\ \A a \in Conf[n].albs \ cur.albs : HasPorts(n, a)
      BY <1>2, <2>1, <2>2 DEF PutTcpPorts, PortInv
    <2> QED BY <1>n, <1>r, <2>2, <2>3, PortsKept
  <1>3. CASE MergeCollides \/ TcpConfigUnreadable
    <2>1. cur \in Current
      BY <1>3, <1>ty DEF MergeCollides, TcpConfigUnreadable, TypeOK
    <2>2. cur'.tcpFailed
      BY <1>3, <2>1 DEF MergeCollides, TcpConfigUnreadable, Current
    <2> QED BY <2>2
  <1>4. CASE NoTcpPorts
    <2>1. cur'.name = cur.name
      BY <1>4, <1>ty DEF NoTcpPorts, TypeOK, Current
    <2> QED BY <1>4, <2>1 DEF NoTcpPorts
  <1>5. CASE UNCHANGED vars
    <2>1. HasClaims(n) /\ \A a \in Conf[n].albs \ cur.albs : HasPorts(n, a)
      BY <1>5 DEF vars, runVars, PortInv
    <2>2. cur' = cur BY <1>5 DEF vars, runVars
    <2> QED BY <1>n, <1>r, <2>1, <2>2, PortsKept
  <1>6. CASE Configure \/ Choose \/ Create \/ EmptyTcpConfigMapPanic \/ Finish \/ Crash
    <2>1. pc' # "tcp"
      BY <1>6 DEF Configure, DeleteStatus, ConfigUnreadable, NoIksConfig, MigrateConfig,
                  ConfigStatus, Choose, ListIngresses, Skip, Reject, GetIngressConfigPanic, Accept,
                  Create, SplitFails, CreateOne, Unrenderable, EmptyTcpConfigMapPanic, Finish,
                  FinishIngress, UpdateStatus, Exit, AfterIngresses, DumpYAML, Crash, Goto
    <2> QED BY <2>1
  <1> QED BY <1>r, <1>1, <1>2, <1>3, <1>4, <1>5, <1>6 DEF Next, Step, Tcp, Stopped

(* The Ingress that is finished without an error has its ports.              *)
LEMMA FinishedHasPorts ==
    ASSUME ClaimInv, ClaimInv', PortInv, FinishIngress, [Next]_vars, ~Restart, ~failed',
           ~readOnly, NEW n, n = cur.name, Conf[n].ports # NoPorts
    PROVE  HasClaims(n)' /\ \A a \in Conf[n].albs : HasPorts(n, a)'
  <1>1. cur \in Current /\ n \in IngressNames
    BY DEF FinishIngress, ClaimInv, TypeOK, Current
  <1>2. pc = "tcp" /\ cur.albs = {} /\ ~cur.tcpFailed
    BY DEF FinishIngress, TcpErrors
  <1>3. HasClaims(n) /\ \A a \in Conf[n].albs : HasPorts(n, a)
    BY <1>2 DEF PortInv
  <1> QED BY <1>1, <1>3, PortsKept

(* Before its TCP ports an Ingress has been through none of its ALBs.        *)
LEMMA CreatePorts ==
    ASSUME PortInv, TypeOK', [Next]_vars, pc' = "create"
    PROVE  cur'.albs = Conf[cur'.name].albs /\ ~cur'.tcpFailed
  <1>1. CASE Accept
    BY <1>1 DEF Accept
  <1>2. CASE SplitFails \/ CreateOne \/ Unrenderable
    <2>1. pc = "create" /\ cur \in Current
      BY <1>2 DEF SplitFails, CreateOne, Unrenderable, PortInv, TypeOK
    <2>2. cur'.albs = cur.albs /\ cur'.name = cur.name /\ cur'.tcpFailed = cur.tcpFailed
      BY <1>2, <2>1 DEF SplitFails, NoParts, CreateOne, Unrenderable, Created, Current
    <2> QED BY <2>1, <2>2 DEF PortInv
  <1>3. CASE ~(Accept \/ SplitFails \/ CreateOne \/ Unrenderable)
    <2>1. UNCHANGED vars
      BY <1>3
      DEF Next, Step, Configure, DeleteStatus, ConfigUnreadable, NoIksConfig, MigrateConfig,
          ConfigStatus, Choose, ListIngresses, Skip, Reject, GetIngressConfigPanic, Create, Tcp,
          MergeALBSpecificData, MergeCollides, NoTcpPorts, TcpConfigUnreadable, PutTcpPorts,
          EmptyTcpConfigMapPanic, Finish, FinishIngress, UpdateStatus, Exit, AfterIngresses,
          DumpYAML, Crash, Restart, Stopped, Goto
    <2> QED BY <2>1 DEF vars, runVars, PortInv
  <1> QED BY <1>1, <1>2, <1>3

(* Every step keeps PortInv.                                                 *)
LEMMA PortStep ==
    ASSUME ClassInv, ListInv, ClaimInv, ClaimInv', PortInv, [Next]_vars
    PROVE  PortInv'
  <1>ty. TypeOK /\ TypeOK' BY DEF ClaimInv
  <1>1. ASSUME ~readOnly', ~failed', pc' \in {"pick", "create", "tcp", "exit", "dump", "done"},
               NEW n \in IngressNames, Included(n)', Conf[n].ports # NoPorts
        PROVE  \/ [name |-> n, class |-> Conf[n].class] \in todo'
               \/ cur' # Absent /\ cur'.name = n
               \/ HasClaims(n)' /\ \A a \in Conf[n].albs : HasPorts(n, a)'
    <2>r. ~Restart BY <1>1 DEF Restart
    <2>m. Included(n) BY <1>1, <1>ty, <2>r, RunSteps, SameMode
    <2>f. ~failed /\ ~readOnly BY <1>1, <2>r, FailedStays, SameConfiguration
    <2>1. CASE ListIngresses
      <3>1. pc' = "pick" BY <1>1, <2>1 DEF ListIngresses, Goto
      <3> QED BY <2>m, <2>1, <3>1, IncludedIsListed
    <2>2. CASE ~ListIngresses
      <3>1. pc \in {"pick", "create", "tcp", "exit", "dump", "done"}
        BY <1>1, <2>r, <2>2
        DEF Next, Step, Configure, DeleteStatus, ConfigUnreadable, NoIksConfig, MigrateConfig,
            ConfigStatus, Choose, Skip, Reject, GetIngressConfigPanic, Accept, Create, SplitFails,
            CreateOne, Unrenderable, Tcp, MergeALBSpecificData, MergeCollides, NoTcpPorts,
            TcpConfigUnreadable, PutTcpPorts, EmptyTcpConfigMapPanic, Finish, FinishIngress,
            UpdateStatus, Exit, DumpYAML, Crash, Stopped, vars, Goto
      <3>2. CASE HasClaims(n) /\ \A a \in Conf[n].albs : HasPorts(n, a)
        BY <2>r, <3>2, PortsKept
      <3>3. CASE FinishIngress /\ cur.name = n
        BY <1>1, <2>r, <2>f, <3>3, FinishedHasPorts
      <3>4. \/ [name |-> n, class |-> Conf[n].class] \in todo
            \/ cur # Absent /\ cur.name = n
            \/ HasClaims(n) /\ \A a \in Conf[n].albs : HasPorts(n, a)
        BY <1>1, <2>m, <2>f, <3>1 DEF PortInv
      <3> QED BY <1>1, <2>r, <2>m, <3>1, <3>2, <3>3, <3>4, HandKept
    <2> QED BY <2>1, <2>2
  <1>2. ASSUME ~readOnly', pc' = "tcp", ~cur'.tcpFailed, Conf[cur'.name].ports # NoPorts
        PROVE  /\ HasClaims(cur.name)'
               /\ (\A a \in Conf[cur.name].albs \ cur.albs : HasPorts(cur.name, a))'
    <2>1. ~readOnly BY <1>2, SameConfiguration DEF Restart
    <2> PICK n : n = cur'.name OBVIOUS
    <2>2. HasClaims(n)' /\ \A a \in Conf[n].albs \ cur'.albs : HasPorts(n, a)'
      BY <1>2, <2>1, CurPorts
    <2> QED BY <2>2 DEF HasClaims, HasPorts
  <1> QED BY <1>ty, <1>1, <1>2, CreatePorts DEF PortInv

(* SuccessMigratesPorts: as long as no two Ingresses give one name to their   *)
(* parts, a run that ends well and writes leaves every open port of every    *)
(* Ingress it includes in the TCP ConfigMap, whatever was there before and   *)
(* whatever requests failed.                                                 *)
THEOREM SuccessPublishesPorts == NamesApart => (Spec => []SuccessMigratesPorts)
  <1> SUFFICES ASSUME NamesApart PROVE Spec => []SuccessMigratesPorts
    OBVIOUS
  <1> DEFINE Inv == ClassInv /\ ListInv /\ EndInv /\ ClaimInv /\ PortInv
  <1>1. Init => Inv
    BY SuccessInit, ClaimInit, PortInit DEF SuccessInv
  <1>2. Inv /\ [Next]_vars => Inv'
    BY ClassStep, ListStep, EndStep, ClaimStep, PortStep
  <1>3. Inv => SuccessMigratesPorts
    <2> SUFFICES ASSUME Inv, pc = "done", ~readOnly,
                        NEW n \in IngressNames, Included(n), Conf[n].ports # NoPorts
                 PROVE  \A a \in Conf[n].albs : HasPorts(n, a)
      BY ConfType DEF SuccessMigratesPorts, PortsMigrated, HasPorts, Output
    <2>1. todo = {} /\ cur = Absent /\ ~failed
      BY DEF EndInv
    <2> QED BY <2>1 DEF PortInv
  <1> QED BY <1>1, <1>2, <1>3, PTL DEF Spec

-----------------------------------------------------------------------------
(***************************************************************************)
(* The files a run dumps agree with the cluster: both stores get the same  *)
(* object, and a request that the cluster refused keeps the run from the   *)
(* dump.                                                                   *)
(***************************************************************************)
(* At first nothing is recorded, and nothing is listed.                      *)
LEMMA DumpInit == Init => DumpInv
  BY TypeInit DEF Init, DumpInv, DumpIsFaithful

(* Only PutTcpPorts records TCP ConfigMaps.                                  *)
LEMMA RecordedTcp ==
    ASSUME TypeOK, [Next]_vars, ~PutTcpPorts, ~Restart
    PROVE  recorded'.tcp = recorded.tcp
  <1>1. CASE \/ DeleteStatus \/ MigrateConfig \/ ConfigStatus \/ CreateOne \/ UpdateStatus
    BY <1>1
    DEF TypeOK, Store, DeleteStatus, DeleteStatusCm, MigrateConfig, PutConfig, UpdateK8sCm,
        CreateOrUpdateTestCm, ConfigStatus, CreateOrUpdateStatusCm, CreateOne,
        CreateOrUpdateIngress, UpdateStatus, kubeVars
  <1>2. CASE ~(DeleteStatus \/ MigrateConfig \/ ConfigStatus \/ CreateOne \/ UpdateStatus)
    BY <1>2
    DEF Next, Step, Configure, ConfigUnreadable, NoIksConfig, Choose, ListIngresses, Skip,
        Reject, GetIngressConfigPanic, Accept, Create, SplitFails, Unrenderable, Tcp,
        MergeALBSpecificData, MergeCollides, NoTcpPorts, TcpConfigUnreadable,
        EmptyTcpConfigMapPanic, Finish, FinishIngress, Exit, DumpYAML, Crash, Stopped, vars,
        kubeVars
  <1> QED BY <1>1, <1>2

(* An Ingress that was created is the same in both stores.                   *)
LEMMA CreateAgrees ==
    ASSUME TypeOK, CreateOne, RecordResources, ~readOnly, ~failed'
    PROVE  \E p \in IngressNames :
              /\ cur' # Absent
              /\ cur'.as \subseteq cur.as \cup {<<"Ingress", p>>} /\ cur'.tcp = cur.tcp
              /\ Agrees(<<"Ingress", p>>)'
              /\ \A n \in IngressNames \ {p} :
                    /\ cluster'.ingress[n] = cluster.ingress[n]
                    /\ recorded'.ingress[n] = recorded.ingress[n]
  <1>1. cur \in Current /\ cur.name \in IngressNames /\ cur.parts \subseteq IngressNames
    BY DEF CreateOne, TypeOK, Current
  <1>2. PICK p \in cur.parts :
            CreateOrUpdateIngress(p, Generated(cur.name), TRUE) /\ Created(p, TRUE)
    BY DEF CreateOne
  <1>3. Generated(cur.name) # Absent
    BY <1>1, GeneratedType, AbsentAssumption
  <1>4. /\ cluster'.ingress = [cluster.ingress EXCEPT ![p] = Generated(cur.name)]
        /\ recorded'.ingress = [recorded.ingress EXCEPT ![p] = Generated(cur.name)]
        /\ cluster.ingress \in [IngressNames -> Ingress \cup {Absent}]
        /\ recorded.ingress \in [IngressNames -> Ingress \cup {Absent}]
    BY <1>2 DEF CreateOrUpdateIngress, TypeOK, Store
  <1>o. <<"Ingress", p>> \in Outputs BY <1>1 DEF Outputs
  <1>5. cur' \in Current /\ cur'.as = cur.as \cup {<<"Ingress", p>>} /\ cur'.tcp = cur.tcp
    BY <1>1, <1>2, <1>o DEF Created, Current
  <1>6. Agrees(<<"Ingress", p>>)'
    BY <1>1, <1>3, <1>4 DEF Agrees
  <1> QED BY <1>1, <1>4, <1>5, <1>6, NoCurrentAssumption

(* So is a TCP ConfigMap that was written.                                   *)
LEMMA PutAgrees ==
    ASSUME TypeOK, PutTcpPorts, RecordResources, ~readOnly, cur' # Absent => ~cur'.tcpFailed
    PROVE  \E a \in AlbKeys :
              /\ cur' # Absent /\ cur'.as = cur.as
              /\ \/ cur'.tcp = cur.tcp /\ UNCHANGED kubeVars
                 \/ /\ cur'.tcp = cur.tcp \cup {<<"TCP", a>>}
                    /\ Agrees(<<"TCP", a>>)'
                    /\ \A b \in AlbKeys \ {a} :
                          /\ cluster'.tcp[b] = cluster.tcp[b]
                          /\ recorded'.tcp[b] = recorded.tcp[b]
  <1>1. /\ cur \in Current /\ cur.albs \subseteq AlbKeys /\ cur.name \in IngressNames
        /\ Conf[cur.name].ports \in PortMap
    BY ConfType DEF PutTcpPorts, TypeOK, Current
  <1>2. PICK a \in cur.albs :
          \/ cur' = [cur EXCEPT !.albs = @ \ {a}] /\ UNCHANGED kubeVars
          \/ TcpCreated(a, FALSE)
          \/ \E ok \in BOOLEAN : TcpCreated(a, ok) /\ PutTcpConfigMap(a, TcpUpdate(a), ok)
    BY DEF PutTcpPorts
  <1>3. CASE cur' = [cur EXCEPT !.albs = @ \ {a}] /\ UNCHANGED kubeVars
    <2>1. cur' \in Current /\ cur'.as = cur.as /\ cur'.tcp = cur.tcp
      BY <1>1, <1>3 DEF Current
    <2> QED BY <1>1, <1>3, <2>1, NoCurrentAssumption
  <1>4. CASE TcpCreated(a, FALSE)
    <2>1. cur' \in Current /\ cur'.tcpFailed
      BY <1>1, <1>4 DEF TcpCreated, Current
    <2> QED BY <2>1, NoCurrentAssumption
  <1>5. ASSUME NEW ok \in BOOLEAN, TcpCreated(a, ok), PutTcpConfigMap(a, TcpUpdate(a), ok)
        PROVE  /\ cur' # Absent /\ cur'.as = cur.as
               /\ cur'.tcp = cur.tcp \cup {<<"TCP", a>>}
               /\ Agrees(<<"TCP", a>>)'
               /\ \A b \in AlbKeys \ {a} :
                     /\ cluster'.tcp[b] = cluster.tcp[b]
                     /\ recorded'.tcp[b] = recorded.tcp[b]
    <2>0. a \in AlbKeys BY <1>1
    <2>o. <<"TCP", a>> \in Outputs BY <2>0 DEF Outputs
    <2>1. /\ cur'.as = cur.as /\ cur'.tcpFailed = (cur.tcpFailed \/ ~ok)
          /\ cur'.tcp = IF ok THEN cur.tcp \cup {<<"TCP", a>>} ELSE cur.tcp
      BY <1>1, <1>5 DEF TcpCreated, Current
    <2>n. cur' \in Current
      BY <1>1, <1>5, <2>o DEF TcpCreated, Current
    <2>2. cur' # Absent /\ ok BY <2>1, <2>n, NoCurrentAssumption
    <2>3. /\ cluster'.tcp = [cluster.tcp EXCEPT ![a] = TcpUpdate(a)]
          /\ recorded'.tcp = [recorded.tcp EXCEPT ![a] = TcpUpdate(a)]
          /\ cluster.tcp \in [AlbKeys -> PortMap \cup {Absent}]
          /\ recorded.tcp \in [AlbKeys -> PortMap \cup {Absent}]
      BY <1>5, <2>2 DEF PutTcpConfigMap, TypeOK, Store
    <2>4. TcpUpdate(a) # Absent
      <3>1. TcpData(a) \in PortMap BY <1>1, OnlyType DEF TcpData
      <3>2. cluster.tcp[a] \in PortMap \cup {Absent} BY <2>0, <2>3
      <3>3. TcpUpdate(a) \in PortMap BY <3>1, <3>2, OverType DEF TcpUpdate
      <3> QED BY <3>3, AbsentAssumption
    <2>5. Agrees(<<"TCP", a>>)'
      BY <2>0, <2>3, <2>4 DEF Agrees
    <2> QED BY <2>0, <2>1, <2>2, <2>3, <2>5
  <1> QED BY <1>1, <1>2, <1>3, <1>4, <1>5

(* What agrees goes on to, as long as no request fails.                      *)
LEMMA AgreesKept ==
    ASSUME TypeOK, [Next]_vars, ~Restart, RecordResources, ~readOnly, ~failed',
           cur' # Absent => ~cur'.tcpFailed, NEW o, Agrees(o)
    PROVE  Agrees(o)'
  <1>1. CASE CreateOne
    <2>1. ~PutTcpPorts BY <1>1 DEF CreateOne, PutTcpPorts
    <2>2. cluster'.tcp = cluster.tcp /\ recorded'.tcp = recorded.tcp
      BY <2>1, TcpUnchanged, RecordedTcp
    <2>3. PICK p \in IngressNames :
            /\ Agrees(<<"Ingress", p>>)'
            /\ \A n \in IngressNames \ {p} :
                  /\ cluster'.ingress[n] = cluster.ingress[n]
                  /\ recorded'.ingress[n] = recorded.ingress[n]
      BY <1>1, CreateAgrees
    <2> QED BY <2>2, <2>3 DEF Agrees
  <1>2. CASE PutTcpPorts
    <2>1. ~CreateOne BY <1>2 DEF CreateOne, PutTcpPorts
    <2>2. cluster'.ingress = cluster.ingress /\ recorded'.ingress = recorded.ingress
      BY <2>1, SameIngresses
    <2>3. PICK a \in AlbKeys :
            \/ UNCHANGED kubeVars
            \/ /\ Agrees(<<"TCP", a>>)'
               /\ \A b \in AlbKeys \ {a} :
                     /\ cluster'.tcp[b] = cluster.tcp[b]
                     /\ recorded'.tcp[b] = recorded.tcp[b]
      BY <1>2, PutAgrees
    <2> QED BY <2>2, <2>3 DEF Agrees, kubeVars
  <1>3. CASE ~CreateOne /\ ~PutTcpPorts
    <2>1. /\ cluster'.ingress = cluster.ingress /\ recorded'.ingress = recorded.ingress
          /\ cluster'.tcp = cluster.tcp /\ recorded'.tcp = recorded.tcp
      BY <1>3, SameIngresses, TcpUnchanged, RecordedTcp
    <2> QED BY <2>1 DEF Agrees
  <1> QED BY <1>1, <1>2, <1>3

(* An error of the TCP ports is kept until it is one of the run.             *)
LEMMA TcpFailedStays ==
    ASSUME DumpInv, [Next]_vars, ~Restart, cur # Absent, cur.tcpFailed
    PROVE  failed' \/ (cur' # Absent /\ cur'.tcpFailed)
  <1>1. cur \in Current BY DEF DumpInv, TypeOK
  <1>2. CASE FinishIngress
    BY <1>2 DEF FinishIngress, TcpErrors
  <1>3. CASE \/ SplitFails \/ CreateOne \/ Unrenderable \/ MergeCollides \/ NoTcpPorts
             \/ TcpConfigUnreadable \/ PutTcpPorts
    <2>1. cur' \in Current
      BY <1>3, TypeStep, <1>1 DEF DumpInv, TypeOK, SplitFails, CreateOne, Unrenderable,
         MergeCollides, NoTcpPorts, TcpConfigUnreadable, PutTcpPorts, Goto
    <2>2. cur'.tcpFailed
      BY <1>1, <1>3 DEF SplitFails, NoParts, CreateOne, Unrenderable, Created, MergeCollides,
         NoTcpPorts, TcpConfigUnreadable, PutTcpPorts, TcpCreated, Current
    <2> QED BY <2>1, <2>2, NoCurrentAssumption
  <1>4. CASE ~(FinishIngress \/ SplitFails \/ CreateOne \/ Unrenderable \/ MergeCollides
                 \/ NoTcpPorts \/ TcpConfigUnreadable \/ PutTcpPorts)
    <2>1. cur' = cur
      BY <1>4
      DEF DumpInv, Next, Step, Configure, DeleteStatus, ConfigUnreadable, NoIksConfig,
          MigrateConfig, ConfigStatus, Choose, ListIngresses, Skip, Reject, GetIngressConfigPanic,
          Accept, Create, Tcp, MergeALBSpecificData, EmptyTcpConfigMapPanic, Finish,
          UpdateStatus, Exit, DumpYAML, Crash, Stopped, vars, runVars
    <2> QED BY <2>1
  <1> QED BY <1>2, <1>3, <1>4

(* What the Ingress at hand has listed: only a write adds to it.             *)
LEMMA CurOutputs ==
    ASSUME TypeOK, [Next]_vars, cur' # Absent
    PROVE  \/ CreateOne \/ PutTcpPorts
           \/ cur'.as \cup cur'.tcp = {}
           \/ cur # Absent /\ cur'.as = cur.as /\ cur'.tcp = cur.tcp
  <1>1. CASE Accept
    BY <1>1 DEF Accept
  <1>2. CASE \/ SplitFails \/ Unrenderable \/ MergeCollides \/ NoTcpPorts \/ TcpConfigUnreadable
    <2>1. cur \in Current
      BY <1>2 DEF TypeOK, SplitFails, Unrenderable, MergeCollides, NoTcpPorts,
                  TcpConfigUnreadable
    <2>2. cur'.as = cur.as /\ cur'.tcp = cur.tcp
      BY <1>2, <2>1 DEF SplitFails, NoParts, Unrenderable, Created, MergeCollides, NoTcpPorts,
                        TcpConfigUnreadable, Current
    <2> QED BY <2>1, <2>2, NoCurrentAssumption
  <1>3. CASE FinishIngress \/ Restart
    BY <1>3 DEF FinishIngress, Restart
  <1>4. CASE ~(Accept \/ SplitFails \/ Unrenderable \/ MergeCollides \/ NoTcpPorts
                \/ TcpConfigUnreadable \/ FinishIngress \/ Restart \/ CreateOne \/ PutTcpPorts)
    <2>1. cur' = cur
      BY <1>4
      DEF Next, Step, Configure, DeleteStatus, ConfigUnreadable, NoIksConfig, MigrateConfig,
          ConfigStatus, Choose, ListIngresses, Skip, Reject, GetIngressConfigPanic, Create, Tcp,
          MergeALBSpecificData, EmptyTcpConfigMapPanic, Finish, UpdateStatus, Exit, DumpYAML,
          Crash, Stopped, vars, runVars
    <2> QED BY <2>1
  <1> QED BY <1>1, <1>2, <1>3, <1>4

(* What an Ingress at hand lists agrees, as long as nothing failed.          *)
LEMMA HandAgrees ==
    ASSUME DumpInv, TypeOK', [Next]_vars, ~Restart, RecordResources, ~readOnly, ~failed, ~failed',
           cur # Absent => ~cur.tcpFailed, cur' # Absent, ~cur'.tcpFailed,
           NEW o \in cur'.as \cup cur'.tcp
    PROVE  Agrees(o)'
  <1>ty. TypeOK BY DEF DumpInv
  <1>1. ASSUME cur # Absent, o \in cur.as \cup cur.tcp PROVE Agrees(o)'
    <2>1. Agrees(o) BY <1>1 DEF DumpInv
    <2> QED BY <1>ty, <2>1, AgreesKept
  <1>2. CASE CreateOne
    <2>1. cur # Absent BY <1>2, <1>ty, NoCurrentAssumption DEF CreateOne, TypeOK
    <2>2. PICK p \in IngressNames :
             /\ cur'.as \subseteq cur.as \cup {<<"Ingress", p>>} /\ cur'.tcp = cur.tcp
             /\ Agrees(<<"Ingress", p>>)'
      BY <1>2, <1>ty, CreateAgrees
    <2>3. CASE o = <<"Ingress", p>>
      BY <2>2, <2>3 DEF Agrees
    <2> QED BY <1>1, <2>1, <2>2, <2>3
  <1>3. CASE PutTcpPorts
    <2>1. cur # Absent BY <1>3, <1>ty, NoCurrentAssumption DEF PutTcpPorts, TypeOK
    <2>2. PICK a \in AlbKeys :
             /\ cur'.as = cur.as
             /\ \/ cur'.tcp = cur.tcp
                \/ cur'.tcp = cur.tcp \cup {<<"TCP", a>>} /\ Agrees(<<"TCP", a>>)'
      BY <1>3, <1>ty, PutAgrees
    <2>3. CASE o = <<"TCP", a>> /\ o \notin cur.as \cup cur.tcp
      BY <2>2, <2>3 DEF Agrees
    <2> QED BY <1>1, <2>1, <2>2, <2>3
  <1> QED BY <1>ty, <1>1, <1>2, <1>3, CurOutputs

(* So does what its entry lists, and what the earlier ones do.               *)
LEMMA InfosAgree ==
    ASSUME DumpInv, [Next]_vars, ~Restart, RecordResources, ~readOnly, ~failed, ~failed',
           cur # Absent => ~cur.tcpFailed, cur' # Absent => ~cur'.tcpFailed,
           NEW r \in infos', NEW o \in r.as
    PROVE  Agrees(o)'
  <1>ty. TypeOK BY DEF DumpInv
  <1>1. r \in infos \/ (FinishIngress /\ r = IngressInfo)
    BY DEF Next, Step, Configure, DeleteStatus, ConfigUnreadable, NoIksConfig, MigrateConfig,
        ConfigStatus, Choose, ListIngresses, Skip, Reject, GetIngressConfigPanic, Accept, Create,
        SplitFails, CreateOne, Unrenderable, Tcp, MergeALBSpecificData, MergeCollides,
        NoTcpPorts, TcpConfigUnreadable, PutTcpPorts, EmptyTcpConfigMapPanic, Finish,
        FinishIngress, AddInfo, UpdateStatus, Exit, DumpYAML, Crash, Stopped, vars, runVars
  <1>2. Agrees(o)
    <2>1. CASE r \in infos BY <2>1 DEF DumpInv
    <2>2. CASE FinishIngress /\ r = IngressInfo
      <3>1. cur # Absent BY <2>2, <1>ty, NoCurrentAssumption DEF FinishIngress, TypeOK
      <3>2. o \in cur.as \cup cur.tcp BY <2>2 DEF IngressInfo
      <3> QED BY <3>1, <3>2 DEF DumpInv
    <2> QED BY <1>1, <2>1, <2>2
  <1> QED BY <1>ty, <1>2, AgreesKept

(* What agrees when it is dumped is the same in the files.                   *)
LEMMA DumpFaithful ==
    ASSUME DumpInv, [Next]_vars
    PROVE  DumpIsFaithful'
  <1> SUFFICES ASSUME pc' = "done", RecordResources, ~readOnly',
                      NEW r \in infos', NEW o \in r.as
               PROVE  \/ o[1] = "Ingress" /\ dumped'.ingress[o[2]] = cluster'.ingress[o[2]]
                      \/ o[1] = "TCP" /\ dumped'.tcp[o[2]] = cluster'.tcp[o[2]]
    BY DEF DumpIsFaithful
  <1>1. ~Restart BY DEF Restart
  <1>2. ~readOnly BY <1>1, SameConfiguration
  <1>3. CASE DumpYAML
    <2>1. dumped' = DumpAll /\ UNCHANGED <<cluster, recorded, infos>>
      BY <1>3 DEF DumpYAML, kubeVars, runVars
    <2>2. pc = "dump" BY <1>3 DEF DumpYAML
    <2>3. Agrees(o) BY <1>2, <2>1, <2>2 DEF DumpInv
    <2>4. dumped \in Store BY DEF DumpInv, TypeOK
    <2>5. /\ DumpAll.ingress = [n \in IngressNames |-> Put(dumped.ingress[n], recorded.ingress[n])]
          /\ DumpAll.tcp = [a \in AlbKeys |-> Put(dumped.tcp[a], recorded.tcp[a])]
      BY <2>4 DEF DumpAll, DumpIngresses, Store
    <2>6. CASE o[1] = "Ingress" /\ o[2] \in IngressNames /\ cluster.ingress[o[2]] # Absent
                  /\ recorded.ingress[o[2]] = cluster.ingress[o[2]]
      BY <2>1, <2>5, <2>6 DEF Put
    <2>7. CASE o[1] = "TCP" /\ o[2] \in AlbKeys /\ cluster.tcp[o[2]] # Absent
                  /\ recorded.tcp[o[2]] = cluster.tcp[o[2]]
      BY <2>1, <2>5, <2>7 DEF Put
    <2> QED BY <2>3, <2>6, <2>7 DEF Agrees
  <1>4. CASE UNCHANGED vars
    BY <1>2, <1>4 DEF vars, kubeVars, runVars, DumpInv, DumpIsFaithful
  <1>5. DumpYAML \/ UNCHANGED vars
    BY <1>1
    DEF Next, Step, Configure, DeleteStatus, ConfigUnreadable, NoIksConfig, MigrateConfig,
        ConfigStatus, Choose, ListIngresses, Skip, Reject, GetIngressConfigPanic, Accept, Create,
        SplitFails, CreateOne, Unrenderable, Tcp, MergeALBSpecificData, MergeCollides,
        NoTcpPorts, TcpConfigUnreadable, PutTcpPorts, EmptyTcpConfigMapPanic, Finish,
        FinishIngress, UpdateStatus, Exit, AfterIngresses, Crash, Stopped, Goto
  <1> QED BY <1>3, <1>4, <1>5

(* Every step keeps DumpInv.                                                 *)
LEMMA DumpStep == DumpInv /\ [Next]_vars => DumpInv'
  <1> SUFFICES ASSUME DumpInv, [Next]_vars PROVE DumpInv'
    OBVIOUS
  <1>ty. TypeOK /\ TypeOK' BY TypeStep DEF DumpInv
  <1>1. (cur # Absent => pc \in {"create", "tcp", "panicked", "crashed"})'
    BY <1>ty
    DEF DumpInv, Next, Step, Configure, DeleteStatus, ConfigUnreadable, NoIksConfig,
        MigrateConfig, ConfigStatus, Choose, ListIngresses, Skip, Reject, GetIngressConfigPanic,
        Accept, Create, SplitFails, CreateOne, Unrenderable, Tcp, MergeALBSpecificData,
        MergeCollides, NoTcpPorts, TcpConfigUnreadable, PutTcpPorts, EmptyTcpConfigMapPanic,
        Finish, FinishIngress, UpdateStatus, Exit, DumpYAML, Crash, Restart, Stopped, vars,
        runVars, Goto
  <1>2. (pc \in {"dump", "done"} => ~failed)'
    BY DEF DumpInv, Next, Step, Configure, DeleteStatus, ConfigUnreadable, NoIksConfig,
        MigrateConfig, ConfigStatus, Choose, ListIngresses, Skip, Reject, GetIngressConfigPanic,
        Accept, Create, SplitFails, CreateOne, Unrenderable, Tcp, MergeALBSpecificData,
        MergeCollides, NoTcpPorts, TcpConfigUnreadable, PutTcpPorts, EmptyTcpConfigMapPanic,
        Finish, FinishIngress, UpdateStatus, Exit, AfterIngresses, DumpYAML, Crash, Restart,
        Stopped, vars, runVars, Goto
  <1>3. ASSUME RecordResources, ~readOnly', ~failed', cur' # Absent => ~cur'.tcpFailed
        PROVE  /\ \A r \in infos' : \A o \in r.as : Agrees(o)'
               /\ cur' # Absent => \A o \in cur'.as \cup cur'.tcp : Agrees(o)'
    <2>1. CASE Restart
      BY <2>1 DEF Restart
    <2>2. CASE ~Restart
      <3>1. ~readOnly /\ ~failed
        BY <1>3, <2>2, SameConfiguration, FailedStays
      <3>2. cur # Absent => ~cur.tcpFailed
        BY <1>3, <2>2, TcpFailedStays
      <3> QED BY <1>3, <1>ty, <2>2, <3>1, <3>2, HandAgrees, InfosAgree
    <2> QED BY <2>1, <2>2
  <1> QED BY <1>ty, <1>1, <1>2, <1>3, DumpFaithful DEF DumpInv

(* DumpIsFaithful: what a client that writes and records puts into files is  *)
(* what the cluster has of every object that the run lists.                  *)
THEOREM DumpAgreesWithCluster == Spec => []DumpIsFaithful
  <1>1. DumpInv => DumpIsFaithful
    BY DEF DumpInv
  <1> QED BY DumpInit, DumpStep, <1>1, PTL DEF Spec

=============================================================================
