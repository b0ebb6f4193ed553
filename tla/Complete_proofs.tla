-------------------------- MODULE Complete_proofs ---------------------------
(***************************************************************************)
(* Proofs that nothing is missed: an entry without a warning lists all its *)
(* parts, and a run that ends well has migrated and reported everything    *)
(* that its mode does not skip.                                            *)
(***************************************************************************)
EXTENDS Reruns_proofs

(* What a step may do to the Ingress at hand.                                *)
LEMMA CurSteps ==
    ASSUME TypeOK, [Next]_vars, cur' # Absent
    PROVE  \/ Accept
           \/ /\ cur # Absent /\ cur'.name = cur.name
              /\ \/ CreateOne \/ SplitFails \/ Unrenderable
                 \/ /\ cur'.parts = cur.parts /\ cur'.as = cur.as /\ cur'.warned = cur.warned
                    /\ pc' = "tcp" => pc = "tcp" \/ cur.parts = {}
  <1>1. CASE SplitFails \/ Unrenderable \/ CreateOne
    <2>1. cur \in Current /\ cur # Absent
      BY <1>1, NoCurrentAssumption DEF SplitFails, Unrenderable, CreateOne, TypeOK
    <2>2. cur'.name = cur.name
      BY <1>1, <2>1 DEF SplitFails, NoParts, Unrenderable, CreateOne, Created, Current
    <2> QED BY <1>1, <2>1, <2>2
  <1>2. CASE NoTcpPorts \/ TcpConfigUnreadable \/ PutTcpPorts \/ MergeCollides
    <2>1. cur \in Current /\ cur # Absent
      BY <1>2, NoCurrentAssumption
      DEF NoTcpPorts, TcpConfigUnreadable, PutTcpPorts, MergeCollides, TypeOK
    <2>2. /\ cur'.name = cur.name /\ cur'.parts = cur.parts
          /\ cur'.as = cur.as /\ cur'.warned = cur.warned
      BY <1>2, <2>1
      DEF NoTcpPorts, TcpConfigUnreadable, PutTcpPorts, TcpCreated, MergeCollides, Current
    <2>3. pc = "tcp" \/ cur.parts = {}
      BY <1>2 DEF NoTcpPorts, TcpConfigUnreadable, PutTcpPorts, MergeCollides
    <2> QED BY <2>1, <2>2, <2>3
  <1>3. CASE MergeALBSpecificData
    BY <1>3 DEF MergeALBSpecificData
  <1>4. CASE cur' = cur /\ (pc' = "tcp" => pc = "tcp")
    BY <1>4
  <1>5. CASE FinishIngress \/ Restart
    BY <1>5 DEF FinishIngress, Restart
  <1>6. CASE ~(Accept \/ SplitFails \/ Unrenderable \/ CreateOne \/ NoTcpPorts
                \/ TcpConfigUnreadable \/ PutTcpPorts \/ MergeCollides \/ MergeALBSpecificData
                \/ FinishIngress \/ Restart)
    <2>1. cur' = cur
      BY <1>6
      DEF Next, Step, Configure, DeleteStatus, ConfigUnreadable, NoIksConfig, MigrateConfig,
          ConfigStatus, Choose, ListIngresses, Skip, Reject, GetIngressConfigPanic, Create, Tcp,
          EmptyTcpConfigMapPanic, Finish, UpdateStatus, Exit, DumpYAML, Crash, Stopped, vars,
          runVars
    <2>2. pc' = "tcp" => pc = "tcp"
      BY <1>6
      DEF Next, Step, Configure, DeleteStatus, ConfigUnreadable, NoIksConfig, MigrateConfig,
          ConfigStatus, Choose, ListIngresses, Skip, Reject, GetIngressConfigPanic, Create, Tcp,
          EmptyTcpConfigMapPanic, Finish, UpdateStatus, Exit, AfterIngresses, DumpYAML, Crash,
          Stopped, vars, Goto
    <2> QED BY <1>4, <2>1, <2>2
  <1> QED BY <1>1, <1>2, <1>3, <1>5, <1>6

-----------------------------------------------------------------------------
(* UnwarnedIsComplete *)

(* At first nothing is reported and no Ingress is at hand.                   *)
LEMMA CompleteInit == Init => CompleteInv
  BY TypeInit DEF Init, CompleteInv, UnwarnedIsComplete, Entries, Output, EmptyStore

(* A part that is not waited for any more was listed, or warned of.          *)
LEMMA CompleteCur ==
    ASSUME CompleteInv, [Next]_vars
    PROVE  /\ cur' # Absent /\ ~cur'.warned =>
                \A p \in Conf[cur'.name].parts : p \in cur'.parts \/ <<"Ingress", p>> \in cur'.as
           /\ pc' = "tcp" => cur'.parts = {}
  <1>ty. TypeOK /\ TypeOK' BY TypeStep DEF CompleteInv
  <1>cur. pc' = "tcp" => cur' # Absent BY <1>ty, NoCurrentAssumption DEF TypeOK
  <1> SUFFICES ASSUME cur' # Absent
               PROVE  /\ ~cur'.warned =>
                           \A p \in Conf[cur'.name].parts :
                              p \in cur'.parts \/ <<"Ingress", p>> \in cur'.as
                      /\ pc' = "tcp" => cur'.parts = {}
    BY <1>cur
  <1>1. CASE Accept
    BY <1>1 DEF Accept, Goto
  <1>2. CASE CreateOne \/ SplitFails \/ Unrenderable
    <2>1. cur \in Current /\ cur # Absent /\ pc' = "create"
      BY <1>2, <1>ty, NoCurrentAssumption DEF CreateOne, SplitFails, Unrenderable, TypeOK, Goto
    <2>2. CASE SplitFails
      <3>1. cur'.warned BY <2>1, <2>2 DEF SplitFails, NoParts, Current
      <3> QED BY <2>1, <3>1
    <2>3. CASE CreateOne \/ Unrenderable
      <3> PICK q \in cur.parts, ok \in BOOLEAN : Created(q, ok)
        BY <2>3 DEF CreateOne, Unrenderable
      <3>1. /\ cur'.name = cur.name /\ cur'.parts = cur.parts \ {q}
            /\ cur'.as = IF ok THEN cur.as \cup {<<"Ingress", q>>} ELSE cur.as
        BY <2>1 DEF Created, Current
      <3>2. ~cur'.warned => ok /\ ~cur.warned
        BY <2>1 DEF Created, Current
      <3> QED BY <2>1, <3>1, <3>2 DEF CompleteInv
    <2> QED BY <1>2, <2>2, <2>3
  <1>3. CASE ~(Accept \/ CreateOne \/ SplitFails \/ Unrenderable)
    BY <1>3, <1>ty, CurSteps DEF CompleteInv
  <1> QED BY <1>1, <1>2, <1>3

(* The entry of an Ingress lists the parts, once it waits for none.          *)
LEMMA InfoComplete ==
    ASSUME CompleteInv, FinishIngress, ~IngressInfo.warned
    PROVE  ListsParts(IngressInfo)
  <1>1. cur \in Current /\ cur # Absent /\ cur.parts = {}
    BY NoCurrentAssumption DEF FinishIngress, CompleteInv, TypeOK
  <1>2. /\ IngressInfo.source = cur.name /\ IngressInfo.warned = cur.warned
        /\ cur.as \subseteq IngressInfo.as
    BY DEF IngressInfo
  <1> QED BY <1>1, <1>2 DEF CompleteInv, ListsParts

(* Every step keeps CompleteInv.                                             *)
LEMMA CompleteStep == CompleteInv /\ [Next]_vars => CompleteInv'
  <1> SUFFICES ASSUME CompleteInv, [Next]_vars PROVE CompleteInv'
    OBVIOUS
  <1> DEFINE Full(r) == r.source # "iksCm" /\ ~r.warned => ListsParts(r)
  <1>ty. TypeOK /\ TypeOK' BY TypeStep DEF CompleteInv
  <1>1. \A r \in Entries' : Full(r)
    <2>1. CASE Restart
      <3>1. CASE readOnly'
        <4>1. Entries' = {} BY <2>1, <3>1 DEF Restart, Entries, Output, EmptyStore
        <4> QED BY <4>1
      <3>2. CASE ~readOnly'
        <4>1. Entries' = IF cluster.status = Absent THEN {} ELSE cluster.status.resources
          BY <2>1, <3>2 DEF Restart, Entries, Output
        <4> QED BY <4>1 DEF CompleteInv
      <3> QED BY <3>1, <3>2
    <2>2. CASE ~Restart
      <3>1. Full(ConfigInfo) BY DEF ConfigInfo
      <3>2. FinishIngress => Full(IngressInfo) BY InfoComplete
      <3>3. \A r \in Entries : Full(r) BY DEF CompleteInv, UnwarnedIsComplete
      <3> HIDE DEF Full
      <3> QED BY <2>2, <3>1, <3>2, <3>3, <1>ty, NewEntries
    <2> QED BY <2>1, <2>2
  <1>2. cluster'.status # Absent => \A r \in cluster'.status.resources : Full(r)
    <2>1. CASE cluster' = cluster
      BY <2>1 DEF CompleteInv
    <2>2. CASE cluster' # cluster
      <3>1. ~readOnly' BY <2>2, ReadOnlyWritesNothing, SameConfiguration DEF Restart
      <3> QED BY <1>1, <3>1 DEF Entries, Output
    <2> QED BY <2>1, <2>2
  <1> QED BY <1>ty, <1>1, <1>2, CompleteCur DEF CompleteInv, UnwarnedIsComplete

(* UnwarnedIsComplete: an entry without a warning lists every Ingress that    *)
(* its source is split into.                                                 *)
THEOREM UnwarnedAreComplete == Spec => []UnwarnedIsComplete
  <1>1. CompleteInv => UnwarnedIsComplete
    BY DEF CompleteInv
  <1> QED BY CompleteInit, CompleteStep, <1>1, PTL DEF Spec

-----------------------------------------------------------------------------
(* SuccessIsComplete *)

(* A listed Ingress of a user that is not skipped is one the mode includes.   *)
LEMMA IncludedType ==
    ASSUME NEW n \in Listed, ~Skipped(n), n.name \in UserIngresses,
           n.class = Conf[n.name].class
    PROVE  Included(n.name)
  BY DEF Skipped, Included, Candidates, HasPrivateAlb

(* Whatever is included is not skipped.                                      *)
LEMMA IncludedNotSkipped ==
    ASSUME NEW n, Included(n)
    PROVE  /\ n \in UserIngresses /\ n \in Candidates
           /\ ~Skipped([name |-> n, class |-> Conf[n].class])
  BY DEF Skipped, Included, Candidates, HasPrivateAlb

(* The users' Ingresses are there at first, and none is listed yet.          *)
LEMMA ListInit == Init => ListInv
  <1> SUFFICES ASSUME Init PROVE ListInv
    OBVIOUS
  <1> PICK iks \in IksCms, k8s \in K8sCms, tcp \in TcpCms :
        cluster = [EmptyStore EXCEPT !.ingress = [n \in IngressNames |-> InitialIngress(n)],
                                     !.tcp = tcp, !.iksCm = iks, !.k8sCm = k8s]
    BY DEF Init
  <1>1. \A n \in IngressNames : cluster.ingress[n] = InitialIngress(n)
    BY DEF EmptyStore
  <1> QED BY <1>1, InputAssumption DEF Init, ListInv

(* What CreateOne writes is one name, for the Ingress at hand.               *)
LEMMA CreateOneWrites ==
    ASSUME TypeOK, CreateOne
    PROVE  /\ cur \in Current /\ cur # Absent /\ pc' = "create"
           /\ \E p \in cur.parts, ok \in BOOLEAN :
                 /\ p \in IngressNames
                 /\ \A n \in IngressNames \ {p} : Output'.ingress[n] = Output.ingress[n]
                 /\ \A n \in IngressNames \ {p} : cluster'.ingress[n] = cluster.ingress[n]
                 /\ Output'.ingress[p] \in {Output.ingress[p], Generated(cur.name)}
                 /\ ok => Output'.ingress[p] = Generated(cur.name)
                 /\ failed' = (failed \/ ~ok)
                 /\ Created(p, ok)
  <1>1. cur \in Current /\ cur # Absent /\ pc' = "create"
    BY NoCurrentAssumption DEF CreateOne, TypeOK, Goto
  <1> PICK p \in cur.parts, ok \in BOOLEAN :
        /\ CreateOrUpdateIngress(p, Generated(cur.name), ok)
        /\ failed' = (failed \/ ~ok) /\ Created(p, ok)
    BY DEF CreateOne
  <1>2. p \in IngressNames BY <1>1 DEF Current
  <1>ro. readOnly \in BOOLEAN /\ (readOnly => RecordResources)
    BY ReadOnlyRecords DEF TypeOK, Stores
  <1>3. ASSUME NEW s \in Store
        PROVE  /\ [s EXCEPT !.ingress[p] = Generated(cur.name)].ingress[p] = Generated(cur.name)
               /\ \A n \in IngressNames \ {p} :
                     [s EXCEPT !.ingress[p] = Generated(cur.name)].ingress[n] = s.ingress[n]
    BY <1>2 DEF Store
  <1>4. \A n \in IngressNames \ {p} : cluster'.ingress[n] = cluster.ingress[n]
    BY <1>3 DEF CreateOrUpdateIngress, TypeOK
  <1>5. \A n \in IngressNames \ {p} : recorded'.ingress[n] = recorded.ingress[n]
    BY <1>3 DEF CreateOrUpdateIngress, TypeOK
  <1>6. readOnly' = readOnly BY DEF CreateOrUpdateIngress
  <1>7. CASE readOnly
    <2>1. Output = recorded /\ Output' = recorded' BY <1>6, <1>7 DEF Output
    <2>2. recorded'.ingress[p] = Generated(cur.name)
      BY <1>ro, <1>7, <1>3 DEF CreateOrUpdateIngress, TypeOK
    <2> QED BY <1>1, <1>2, <1>4, <1>5, <2>1, <2>2
  <1>8. CASE ~readOnly
    <2>1. Output = cluster /\ Output' = cluster' BY <1>6, <1>8 DEF Output
    <2>2. /\ ok => cluster'.ingress[p] = Generated(cur.name)
          /\ ~ok => cluster'.ingress[p] = cluster.ingress[p]
      BY <1>8, <1>3 DEF CreateOrUpdateIngress, TypeOK
    <2> QED BY <1>1, <1>2, <1>4, <2>1, <2>2
  <1> QED BY <1>ro, <1>7, <1>8

(* Every step keeps ListInv: no part of an Ingress that is migrated has the   *)
(* name of a user's Ingress.                                                 *)
LEMMA ListStep ==
    ASSUME NamesApart, ClassInv, ListInv, [Next]_vars
    PROVE  ListInv'
  <1>ty. TypeOK /\ TypeOK' BY TypeStep DEF ClassInv
  <1>1. \A n \in UserIngresses : cluster'.ingress[n] = InitialIngress(n)
    <2>1. CASE CreateOne
      <3> PICK p \in cur.parts :
            \A n \in IngressNames \ {p} : cluster'.ingress[n] = cluster.ingress[n]
        BY <1>ty, <2>1, CreateOneWrites
      <3>1. p \in Conf[cur.name].parts /\ cur.name \in Candidates
        BY <1>ty, <2>1, CreateOneWrites DEF ListInv, Included
      <3>2. p \notin UserIngresses BY <3>1 DEF NamesApart
      <3> QED BY <3>2, InputAssumption DEF ListInv
    <2>2. CASE ~CreateOne
      BY <2>2, <1>ty, SameIngresses DEF ListInv
    <2> QED BY <2>1, <2>2
  <1>2. \A t \in todo' : t.name \in UserIngresses => t.class = Conf[t.name].class
    <2>1. CASE ListIngresses
      <3>1. ASSUME NEW n \in UserIngresses
            PROVE  cluster.ingress[n].class = Conf[n].class
        <4>1. InitialIngress(n) = [by |-> User, class |-> Conf[n].class]
          BY DEF InitialIngress
        <4>2. cluster.ingress[n] = InitialIngress(n)
          BY DEF ListInv
        <4> QED BY <4>1, <4>2
      <3> QED BY <2>1, <3>1 DEF ListIngresses
    <2>2. CASE ~ListIngresses
      <3>1. todo' \subseteq todo
        BY <2>2
        DEF Next, Step, Configure, DeleteStatus, ConfigUnreadable, NoIksConfig, MigrateConfig,
            ConfigStatus, Choose, Skip, Reject, RejectOne, GetIngressConfigPanic, Accept, Create,
            SplitFails, CreateOne, Unrenderable, Tcp, MergeALBSpecificData, MergeCollides,
            NoTcpPorts, TcpConfigUnreadable, PutTcpPorts, EmptyTcpConfigMapPanic, Finish,
            FinishIngress, UpdateStatus, Exit, DumpYAML, Crash, Restart, Stopped, vars, runVars
      <3> QED BY <3>1 DEF ListInv
    <2> QED BY <2>1, <2>2
  <1>3. ASSUME cur' # Absent
        PROVE  /\ pc' \in {"create", "tcp"} \cup Ended
               /\ Included(cur.name)'
               /\ cur'.parts \subseteq Conf[cur'.name].parts
    <2>r. ~Restart BY <1>3 DEF Restart
    <2>m. Included(cur.name)' <=> Included(cur'.name)
      BY <2>r, <1>ty, RunSteps DEF Included
    <2>1. CASE Accept
      <3> PICK t \in todo :
            /\ ~Skipped(t)
            /\ cur' = [name |-> t.name, parts |-> Conf[t.name].parts, as |-> {},
                       warned |-> FALSE, albs |-> Conf[t.name].albs, tcp |-> {},
                       tcpFailed |-> FALSE]
        BY <2>1 DEF Accept
      <3>1. t.name \in UserIngresses /\ t.class = Conf[t.name].class /\ t \in Listed
        BY <1>ty DEF ClassInv, SkippedOrUsers, Skipped, ListInv, TypeOK
      <3>2. Included(t.name) BY <3>1, IncludedType
      <3> QED BY <2>1, <2>m, <3>2 DEF Accept, Goto
    <2>2. CASE ~Accept
      <3>1. cur # Absent /\ cur'.name = cur.name /\ cur \in Current
        BY <1>3, <2>2, <1>ty, CurSteps DEF TypeOK
      <3>2. cur'.parts \subseteq cur.parts
        <4>1. CASE SplitFails BY <3>1, <4>1 DEF SplitFails, NoParts, Current
        <4>2. CASE CreateOne \/ Unrenderable
          <5> PICK q \in cur.parts, ok \in BOOLEAN : Created(q, ok)
            BY <4>2 DEF CreateOne, Unrenderable
          <5> QED BY <3>1 DEF Created, Current
        <4>3. CASE ~(SplitFails \/ CreateOne \/ Unrenderable)
          BY <1>3, <2>2, <4>3, <1>ty, CurSteps
        <4> QED BY <4>1, <4>2, <4>3
      <3>3. pc \in {"create", "tcp"} \cup Ended
        BY <3>1 DEF ListInv
      <3>4. pc' \in {"create", "tcp"} \cup Ended
        BY <3>3, <2>r, <1>3
        DEF Next, Step, Configure, DeleteStatus, ConfigUnreadable, NoIksConfig, MigrateConfig,
            ConfigStatus, Choose, ListIngresses, Skip, Reject, RejectOne, GetIngressConfigPanic,
            Accept, Create, SplitFails, CreateOne, Unrenderable, Tcp, MergeALBSpecificData,
            MergeCollides, NoTcpPorts, TcpConfigUnreadable, PutTcpPorts,
            EmptyTcpConfigMapPanic, Finish, FinishIngress, UpdateStatus, Exit, DumpYAML,
            Crash, Stopped, vars, Ended, Goto
      <3> QED BY <2>m, <3>1, <3>2, <3>4 DEF ListInv
    <2> QED BY <2>1, <2>2
  <1> QED BY <1>1, <1>2, <1>3 DEF ListInv

(* What a run includes and what it makes of an Ingress depend on its mode.   *)
LEMMA SameMode ==
    ASSUME NEW n, mode' = mode
    PROVE  (Included(n)' <=> Included(n)) /\ Generated(n)' = Generated(n)
  BY DEF Included, Generated, TargetClass

(* What is done stays done: no other Ingress has parts of that name.         *)
LEMMA DoneKept ==
    ASSUME NamesApart, TypeOK, ListInv, [Next]_vars, ~Restart, NEW n, Included(n), Done(n)
    PROVE  Done(n)'
  <1>1. mode' = mode /\ run' = run /\ readOnly' = readOnly
    BY RunSteps, SameConfiguration
  <1>2. n \in IngressNames /\ n \in Candidates /\ Conf[n].parts \subseteq IngressNames
    BY InputAssumption DEF Included, Candidates, IngressConf
  <1>3. infos \subseteq infos'
    BY DEF Next, Step, Configure, DeleteStatus, ConfigUnreadable, NoIksConfig, MigrateConfig,
           ConfigStatus, Choose, ListIngresses, Skip, Reject, GetIngressConfigPanic, Accept, Create,
           SplitFails, CreateOne, Unrenderable, Tcp, MergeALBSpecificData, MergeCollides,
           NoTcpPorts, TcpConfigUnreadable, PutTcpPorts, EmptyTcpConfigMapPanic, Finish,
           FinishIngress, AddInfo, UpdateStatus, Exit, DumpYAML, Crash, Restart, Stopped, vars,
           runVars
  <1>4. \E r \in infos' : Reports(r, n)'
    <2> PICK r \in infos : Reports(r, n) BY DEF Done
    <2>1. Reports(r, n)' BY <1>1 DEF Reports, ListsParts
    <2> QED BY <1>3, <2>1
  <1>5. ASSUME NEW p \in Conf[n].parts PROVE Output'.ingress[p] = Generated(n)
    <2>1. Output.ingress[p] = Generated(n)
      BY DEF Done, Migrated
    <2>2. CASE CreateOne
      <3> PICK q \in cur.parts :
            /\ \A m \in IngressNames \ {q} : Output'.ingress[m] = Output.ingress[m]
            /\ Output'.ingress[q] \in {Output.ingress[q], Generated(cur.name)}
        BY <2>2, CreateOneWrites
      <3>1. CASE p # q
        BY <1>2, <2>1, <3>1
      <3>2. CASE p = q
        <4>1. q \in Conf[cur.name].parts /\ cur.name \in Candidates
          BY <2>2, CreateOneWrites DEF ListInv, Included
        <4>2. cur.name = n BY <1>2, <3>2, <4>1 DEF NamesApart
        <4> QED BY <2>1, <3>2, <4>2
      <3> QED BY <3>1, <3>2
    <2>3. CASE ~CreateOne
      <3>1. Output'.ingress = Output.ingress
        BY <1>1, <2>3, SameIngresses DEF Output
      <3> QED BY <2>1, <3>1
    <2> QED BY <2>2, <2>3
  <1>6. Migrated(n)'
    BY <1>1, <1>5, SameMode DEF Migrated
  <1> QED BY <1>4, <1>6 DEF Done

(* Errors are not forgotten within a run.                                    *)
LEMMA FailedStays ==
    ASSUME [Next]_vars, ~Restart, failed
    PROVE  failed'
  BY DEF Next, Step, Configure, DeleteStatus, ConfigUnreadable, NoIksConfig, MigrateConfig,
         ConfigStatus, Choose, ListIngresses, Skip, Reject, GetIngressConfigPanic, Accept, Create,
         SplitFails, CreateOne, Unrenderable, Tcp, MergeALBSpecificData, MergeCollides,
         NoTcpPorts, TcpConfigUnreadable, PutTcpPorts, EmptyTcpConfigMapPanic, Finish,
         FinishIngress, TcpErrors, UpdateStatus, Exit, DumpYAML, Crash, Restart, Stopped, vars,
         runVars

(* The Ingress that is finished without an error is done.                    *)
LEMMA FinishedIsDone ==
    ASSUME CompleteInv, LoopInv, ListInv, FinishIngress, ~failed, [Next]_vars, ~Restart,
           NEW n, n = cur.name
    PROVE  Done(n)'
  <1>1. cur \in Current /\ cur # Absent /\ cur.parts = {}
    BY NoCurrentAssumption DEF FinishIngress, CompleteInv, TypeOK
  <1>2. mode' = mode /\ run' = run /\ UNCHANGED kubeVars /\ IngressInfo \in infos'
    BY RunSteps DEF FinishIngress, AddInfo, CompleteInv
  <1>3. ~IngressInfo.warned /\ IngressInfo.source = cur.name /\ IngressInfo.run = run
    BY <1>1 DEF IngressInfo, LoopInv
  <1>4. ListsParts(IngressInfo)
    BY <1>3, InfoComplete
  <1>5. \A p \in Conf[cur.name].parts : Output.ingress[p] = Generated(cur.name)
    BY <1>1 DEF LoopInv
  <1>6. Output' = Output /\ \A k : Generated(k)' = Generated(k)
    BY <1>2, SameMode DEF Output, kubeVars
  <1> PICK r : r = IngressInfo OBVIOUS
  <1>7. Migrated(n)'
    BY <1>5, <1>6, <1>2 DEF Migrated
  <1>8. Reports(r, n)'
    BY <1>2, <1>3, <1>4 DEF Reports, ListsParts
  <1> QED BY <1>2, <1>7, <1>8 DEF Done

(* The cluster's Ingress that the mode includes is listed with its class.    *)
LEMMA IncludedIsListed ==
    ASSUME ListInv, ListIngresses, pc' = "pick", NEW n, Included(n)
    PROVE  [name |-> n, class |-> Conf[n].class] \in todo'
  <1>1. n \in UserIngresses /\ n \in IngressNames
    BY InputAssumption DEF Included, Candidates
  <1>2. cluster.ingress[n] = [by |-> User, class |-> Conf[n].class]
    BY <1>1 DEF ListInv, InitialIngress
  <1>3. cluster.ingress[n] \in Ingress
    BY <1>1, <1>2, ConfType DEF Ingress
  <1>4. cluster.ingress[n] # Absent /\ cluster.ingress[n].class = Conf[n].class
    BY <1>2, <1>3, AbsentAssumption
  <1>5. todo' = {[name |-> m, class |-> cluster.ingress[m].class] :
                    m \in {m \in IngressNames : cluster.ingress[m] # Absent}}
    BY DEF ListIngresses, Goto
  <1> QED BY <1>1, <1>4, <1>5

(* Without an error, an included Ingress leaves the list only to be at hand,  *)
(* and is at hand until it is finished.                                      *)
LEMMA HandKept ==
    ASSUME ClassInv, ListInv, [Next]_vars, ~Restart, ~failed',
           pc \in {"pick", "create", "tcp", "exit", "dump", "done"},
           NEW n \in IngressNames, Included(n),
           \/ [name |-> n, class |-> Conf[n].class] \in todo
           \/ cur # Absent /\ cur.name = n
    PROVE  \/ [name |-> n, class |-> Conf[n].class] \in todo'
           \/ cur' # Absent /\ cur'.name = n
           \/ FinishIngress /\ cur.name = n
  <1>ty. TypeOK /\ TypeOK' /\ ~failed BY TypeStep, FailedStays DEF ClassInv
  <1> DEFINE own == [name |-> n, class |-> Conf[n].class]
  <1>1. CASE own \in todo
    <2>1. ~Skipped(own) BY IncludedNotSkipped
    <2>2. CASE Skip \/ Reject \/ Accept
      <3>1. CASE Skip
        BY <1>1, <2>1, <3>1 DEF Skip
      <3>2. CASE Reject
        BY <1>ty, <3>2 DEF Reject
      <3>3. CASE Accept
        <4>1. cur' # Absent
          BY <3>3, <1>ty, NoCurrentAssumption DEF Accept, TypeOK, Goto
        <4> PICK t \in todo : todo' = todo \ {t} /\ cur'.name = t.name
          BY <3>3 DEF Accept
        <4> QED BY <1>1, <4>1
      <3> QED BY <2>2, <3>1, <3>2, <3>3
    <2>3. CASE ~(Skip \/ Reject \/ Accept)
      <3>1. todo' = todo
        BY <2>3
        DEF Next, Step, Configure, DeleteStatus, ConfigUnreadable, NoIksConfig, MigrateConfig,
            ConfigStatus, Choose, ListIngresses, GetIngressConfigPanic, Create, SplitFails,
            CreateOne, Unrenderable, Tcp, MergeALBSpecificData, MergeCollides, NoTcpPorts,
            TcpConfigUnreadable, PutTcpPorts, EmptyTcpConfigMapPanic, Finish, FinishIngress,
            UpdateStatus, Exit, DumpYAML, Crash, Restart, Stopped, vars, runVars
      <3> QED BY <1>1, <3>1
    <2> QED BY <2>2, <2>3
  <1>2. CASE cur # Absent /\ cur.name = n
    <2>1. CASE FinishIngress
      BY <1>2, <2>1
    <2>2. CASE ~FinishIngress
      <3>1. cur' # Absent
        <4>1. CASE pc' \in {"create", "tcp"}
          BY <4>1, <1>ty, NoCurrentAssumption DEF TypeOK
        <4>2. CASE pc' \notin {"create", "tcp"}
          <5>1. cur' = cur
            BY <1>2, <2>2, <4>2
            DEF ListInv, Ended, Next, Step, Configure, DeleteStatus, ConfigUnreadable,
                NoIksConfig, MigrateConfig, ConfigStatus, Choose, ListIngresses, Skip, Reject,
                GetIngressConfigPanic, Accept, Create, SplitFails, CreateOne, Unrenderable, Tcp,
                MergeALBSpecificData, MergeCollides, NoTcpPorts, TcpConfigUnreadable,
                PutTcpPorts, EmptyTcpConfigMapPanic, Finish, UpdateStatus, Exit, DumpYAML,
                Crash, Restart, Stopped, vars, runVars, Goto
          <5> QED BY <1>2, <5>1
        <4> QED BY <4>1, <4>2
      <3>2. ~Accept BY <1>2 DEF Accept, ListInv, Ended
      <3>3. cur'.name = cur.name
        BY <1>ty, <3>1, <3>2, CurSteps
      <3> QED BY <1>2, <3>1, <3>3
    <2> QED BY <2>1, <2>2
  <1> QED BY <1>1, <1>2

(* What is not done yet is listed or at hand.                                *)
LEMMA LoopKept ==
    ASSUME NamesApart, ClassInv, CompleteInv, ListInv, LoopInv, [Next]_vars, ~Restart,
           ~failed', pc \in {"pick", "create", "tcp", "exit", "dump", "done"},
           NEW n \in IngressNames, Included(n)
    PROVE  \/ [name |-> n, class |-> Conf[n].class] \in todo'
           \/ cur' # Absent /\ cur'.name = n
           \/ Done(n)'
  <1>ty. TypeOK /\ ~failed BY FailedStays DEF ClassInv
  <1>1. CASE Done(n)
    BY <1>1, <1>ty, DoneKept
  <1>2. CASE FinishIngress /\ cur.name = n
    BY <1>2, <1>ty, FinishedIsDone
  <1>3. \/ [name |-> n, class |-> Conf[n].class] \in todo
        \/ cur # Absent /\ cur.name = n
        \/ Done(n)
    BY <1>ty DEF LoopInv
  <1> QED BY <1>1, <1>2, <1>3, HandKept

(* The parts of the Ingress at hand that were reached are in place.          *)
LEMMA PartsStep ==
    ASSUME NamesApart, ClassInv, ListInv, LoopInv, [Next]_vars, ~failed', cur' # Absent
    PROVE  /\ ~cur'.warned
           /\ \A p \in Conf[cur'.name].parts \ cur'.parts :
                 Output'.ingress[p] = Generated(cur'.name)
  <1>r. ~Restart BY DEF Restart
  <1>ty. TypeOK /\ TypeOK' /\ ~failed /\ readOnly' = readOnly
    BY <1>r, TypeStep, FailedStays, SameConfiguration DEF ClassInv
  <1>1. CASE Accept
    BY <1>1 DEF Accept
  <1>2. CASE CreateOne
    <2>1. cur \in Current /\ cur # Absent BY <1>2, <1>ty, CreateOneWrites
    <2> PICK p \in cur.parts, ok \in BOOLEAN :
          /\ p \in IngressNames
          /\ \A n \in IngressNames \ {p} : Output'.ingress[n] = Output.ingress[n]
          /\ ok => Output'.ingress[p] = Generated(cur.name)
          /\ failed' = (failed \/ ~ok)
          /\ Created(p, ok)
      BY <1>2, <1>ty, CreateOneWrites
    <2>2. ok BY <1>ty
    <2>3. cur'.name = cur.name /\ cur'.parts = cur.parts \ {p} /\ cur'.warned = cur.warned
      BY <2>1, <2>2 DEF Created, Current
    <2>4. cur.name \in IngressNames BY <2>1 DEF Current
    <2>5. Conf[cur.name].parts \subseteq IngressNames
      BY <2>4, ConfType DEF IngressConf
    <2> QED BY <1>ty, <2>1, <2>2, <2>3, <2>5 DEF LoopInv
  <1>3. CASE SplitFails \/ Unrenderable
    BY <1>3, <1>ty DEF SplitFails, Unrenderable
  <1>4. CASE ~(Accept \/ CreateOne \/ SplitFails \/ Unrenderable)
    <2>1. /\ cur # Absent /\ cur'.name = cur.name
          /\ cur'.parts = cur.parts /\ cur'.warned = cur.warned
      BY <1>4, <1>ty, CurSteps
    <2>2. Output'.ingress = Output.ingress
      BY <1>4, <1>r, <1>ty, SameIngresses DEF Output
    <2> QED BY <1>ty, <2>1, <2>2 DEF LoopInv
  <1> QED BY <1>1, <1>2, <1>3, <1>4

(* Every step keeps LoopInv.                                                 *)
LEMMA LoopStep ==
    ASSUME NamesApart, ClassInv, CompleteInv, ListInv, LoopInv, [Next]_vars
    PROVE  LoopInv'
  <1>ty. TypeOK /\ TypeOK' BY TypeStep DEF ClassInv
  <1>1. ASSUME ~failed', pc' \in {"pick", "create", "tcp", "exit", "dump", "done"},
               NEW n \in IngressNames, Included(n)'
        PROVE  \/ [name |-> n, class |-> Conf[n].class] \in todo'
               \/ cur' # Absent /\ cur'.name = n
               \/ Done(n)'
    <2>r. ~Restart BY <1>1 DEF Restart
    <2>m. Included(n) BY <1>1, <1>ty, <2>r, RunSteps, SameMode
    <2>1. CASE ListIngresses
      <3>1. pc' = "pick" BY <1>1, <2>1 DEF ListIngresses, Goto
      <3> QED BY <2>m, <2>1, <3>1, IncludedIsListed
    <2>2. CASE ~ListIngresses
      <3>1. pc \in {"pick", "create", "tcp", "exit", "dump", "done"}
        BY <1>1, <2>r, <2>2
        DEF Next, Step, Configure, DeleteStatus, ConfigUnreadable, NoIksConfig, MigrateConfig,
            ConfigStatus, Choose, Skip, Reject, GetIngressConfigPanic, Accept, Create, SplitFails,
            CreateOne, Unrenderable, Tcp, MergeALBSpecificData, MergeCollides, NoTcpPorts,
            TcpConfigUnreadable, PutTcpPorts, EmptyTcpConfigMapPanic, Finish, FinishIngress,
            UpdateStatus, Exit, DumpYAML, Crash, Stopped, vars, Goto
      <3> QED BY <1>1, <2>r, <2>m, <3>1, LoopKept
    <2> QED BY <2>1, <2>2
  <1>2. ASSUME ~failed', cur' # Absent
        PROVE  \A p \in Conf[cur'.name].parts \ cur'.parts :
                  Output'.ingress[p] = (Generated(cur.name))'
    <2>r. ~Restart BY <1>2 DEF Restart
    <2>1. (Generated(cur.name))' = Generated(cur'.name)
      BY <2>r, <1>ty, RunSteps DEF Generated, TargetClass
    <2> QED BY <1>2, <2>1, PartsStep
  <1> QED BY <1>1, <1>2, PartsStep DEF LoopInv

(* No step of the tool, and no request it sends, touches the IKS ConfigMap.  *)
LEMMA SameIksCm ==
    ASSUME TypeOK, [Next]_vars
    PROVE  cluster'.iksCm = cluster.iksCm
  <1>1. CASE UNCHANGED cluster
    BY <1>1
  <1>2. CASE MigrateConfig
    <2> PICK ok \in BOOLEAN : UpdateK8sCm(MigratedCm, ok) \/ CreateOrUpdateTestCm(MigratedCm, ok)
      BY <1>2 DEF MigrateConfig, PutConfig
    <2> QED BY DEF UpdateK8sCm, CreateOrUpdateTestCm, TypeOK, Store
  <1>3. CASE CreateOne
    <2> PICK p \in cur.parts, ok \in BOOLEAN : CreateOrUpdateIngress(p, Generated(cur.name), ok)
      BY <1>3 DEF CreateOne
    <2> QED BY DEF CreateOrUpdateIngress, TypeOK, Store
  <1>4. CASE PutTcpPorts
    <2> PICK a \in cur.albs :
          \/ UNCHANGED kubeVars
          \/ \E ok \in BOOLEAN : PutTcpConfigMap(a, TcpUpdate(a), ok)
      BY <1>4 DEF PutTcpPorts
    <2>1. ASSUME NEW ok \in BOOLEAN, PutTcpConfigMap(a, TcpUpdate(a), ok)
          PROVE  cluster'.iksCm = cluster.iksCm
      BY <2>1 DEF PutTcpConfigMap, TypeOK, Store
    <2> QED BY <2>1 DEF kubeVars
  <1>5. CASE DeleteStatus
    BY <1>5 DEF DeleteStatus, DeleteStatusCm, TypeOK, Store
  <1>6. CASE ConfigStatus \/ UpdateStatus
    <2>1. ASSUME NEW m, NEW update, NEW got \in BOOLEAN, NEW ok \in BOOLEAN,
                 CreateOrUpdateStatusCm(m, update, got, ok)
          PROVE  cluster'.iksCm = cluster.iksCm
      <3>1. [cluster EXCEPT !.status = StatusUpdate(m, update)].iksCm = cluster.iksCm
        BY DEF TypeOK, Store
      <3> QED BY <2>1, <3>1 DEF CreateOrUpdateStatusCm, kubeVars
    <2> QED BY <1>6, <2>1 DEF ConfigStatus, UpdateStatus
  <1> QED
    BY <1>1, <1>2, <1>3, <1>4, <1>5, <1>6
    DEF Next, Step, Configure, ConfigUnreadable, NoIksConfig, Choose, ListIngresses, Skip, Reject,
        GetIngressConfigPanic, Accept, Create, SplitFails, Unrenderable, Tcp, MergeALBSpecificData,
        MergeCollides, NoTcpPorts, TcpConfigUnreadable, EmptyTcpConfigMapPanic, Finish,
        FinishIngress, Exit, DumpYAML, Crash, Restart, Stopped, vars, kubeVars

(* An update of the status removes nothing; one that succeeds adds what it is *)
(* given.                                                                    *)
LEMMA StatusGrows ==
    ASSUME Stores, NEW m \in Modes, NEW update \in SUBSET MigratedResource,
           NEW got \in BOOLEAN, NEW ok \in BOOLEAN,
           CreateOrUpdateStatusCm(m, update, got, ok)
    PROVE  /\ Output.status # Absent =>
                 /\ Output'.status # Absent
                 /\ Output.status.resources \subseteq Output'.status.resources
           /\ ok /\ StatusAccepts(m) =>
                 Output'.status # Absent /\ update \subseteq Output'.status.resources
  <1>1. StatusUpdate(m, update) # Absent
    BY StatusUpdateType, AbsentAssumption
  <1>2. /\ update \subseteq StatusUpdate(m, update).resources
        /\ Output.status # Absent =>
              Output.status.resources \subseteq StatusUpdate(m, update).resources
    BY DEF StatusUpdate, StatusRead
  <1>3. Output'.status = Output.status \/ Output'.status = StatusUpdate(m, update)
    BY StatusKept
  <1>4. ASSUME ok, StatusAccepts(m) PROVE Output'.status = StatusUpdate(m, update)
    <2>1. got BY <1>4 DEF CreateOrUpdateStatusCm
    <2>2. \A s \in Store :
             [s EXCEPT !.status = StatusUpdate(m, update)].status = StatusUpdate(m, update)
      BY DEF Store
    <2>3. readOnly \in BOOLEAN /\ (readOnly => RecordResources) BY ReadOnlyRecords
    <2>4. CASE readOnly
      <3>1. Output' = [recorded EXCEPT !.status = StatusUpdate(m, update)]
        BY <1>4, <2>1, <2>3, <2>4 DEF CreateOrUpdateStatusCm, Output
      <3> QED BY <2>2, <3>1 DEF Stores
    <2>5. CASE ~readOnly
      <3>1. Output' = [cluster EXCEPT !.status = StatusUpdate(m, update)]
        BY <1>4, <2>1, <2>3, <2>5 DEF CreateOrUpdateStatusCm, Output
      <3> QED BY <2>2, <3>1 DEF Stores
    <2> QED BY <2>4, <2>5
  <1> QED BY <1>1, <1>2, <1>3, <1>4

(* Every step keeps EndInv.                                                  *)
LEMMA EndStep ==
    ASSUME ClassInv, ListInv, EndInv, [Next]_vars
    PROVE  EndInv'
  <1>ty. TypeOK /\ TypeOK' BY TypeStep DEF ClassInv
  <1>st. Stores BY <1>ty DEF TypeOK, Stores
  <1>1. ASSUME pc' \in {"exit", "dump", "done"}
        PROVE  /\ todo' = {} /\ cur' = Absent
               /\ ~failed' => Output'.status # Absent /\ infos' \subseteq Output'.status.resources
               /\ pc' \in {"dump", "done"} => ~failed'
    <2>1. CASE UpdateStatus
      <3> PICK got \in BOOLEAN, ok \in BOOLEAN :
            /\ CreateOrUpdateStatusCm(mode, infos, got, ok)
            /\ failed' = (failed \/ ~ok \/ ~StatusAccepts(mode))
        BY <2>1 DEF UpdateStatus
      <3>1. /\ cur = Absent /\ todo' = {} /\ cur' = cur /\ infos' = infos /\ pc' = "exit"
        BY <2>1 DEF UpdateStatus, ListInv, Ended, Goto
      <3>2. ~failed' => Output'.status # Absent /\ infos \subseteq Output'.status.resources
        BY <1>ty, <1>st, StatusGrows DEF TypeOK
      <3> QED BY <3>1, <3>2
    <2>2. CASE ~UpdateStatus
      <3>1. /\ pc \in {"exit", "dump", "done"} /\ UNCHANGED <<kubeVars, runVars>>
            /\ pc' \in {"dump", "done"} => ~failed \/ pc \in {"dump", "done"}
        BY <1>1, <2>2
        DEF Next, Step, Configure, DeleteStatus, ConfigUnreadable, NoIksConfig, MigrateConfig,
            ConfigStatus, Choose, ListIngresses, Skip, Reject, GetIngressConfigPanic, Accept, Create,
            SplitFails, CreateOne, Unrenderable, Tcp, MergeALBSpecificData, MergeCollides,
            NoTcpPorts, TcpConfigUnreadable, PutTcpPorts, EmptyTcpConfigMapPanic, Finish,
            FinishIngress, Exit, AfterIngresses, DumpYAML, Crash, Restart, Stopped, vars, Goto
      <3> QED BY <3>1 DEF EndInv, kubeVars, runVars, Output
    <2> QED BY <2>1, <2>2
  <1>2. ASSUME pc' \in {"list", "pick", "create", "tcp", "exit", "dump", "done"},
               cluster'.iksCm # Absent
        PROVE  ConfigReported'
    <2>r. ~Restart BY <1>2 DEF Restart
    <2>1. run' = run /\ readOnly' = readOnly /\ cluster.iksCm # Absent
      BY <1>ty, <1>2, <2>r, RunSteps, SameConfiguration, SameIksCm
    <2>2. CASE ConfigStatus
      <3> PICK got \in BOOLEAN, ok \in BOOLEAN :
            /\ CreateOrUpdateStatusCm(mode, {ConfigInfo}, got, ok)
            /\ pc' = IF ok /\ StatusAccepts(mode) THEN "list" ELSE "panicked"
        BY <2>2 DEF ConfigStatus, Goto
      <3>1. ok /\ StatusAccepts(mode) BY <1>2
      <3>2. {ConfigInfo} \in SUBSET MigratedResource
        BY <1>ty DEF TypeOK, ConfigInfo, MigratedResource, Outputs
      <3>3. Output'.status # Absent /\ ConfigInfo \in Output'.status.resources
        BY <1>ty, <1>st, <3>1, <3>2, StatusGrows DEF TypeOK
      <3>4. ConfigInfo.run = run /\ ConfigInfo.source = "iksCm"
        BY DEF ConfigInfo
      <3> QED BY <2>1, <3>3, <3>4 DEF ConfigReported
    <2>3. CASE ~ConfigStatus
      <3>1. ~NoIksConfig BY <2>1 DEF NoIksConfig
      <3>2. pc \in {"list", "pick", "create", "tcp", "exit", "dump", "done"} /\ ~DeleteStatus
        BY <1>2, <2>r, <2>3, <3>1
        DEF Next, Step, Configure, DeleteStatus, ConfigUnreadable, MigrateConfig, Choose,
            ListIngresses, Skip, Reject, GetIngressConfigPanic, Accept, Create, SplitFails, CreateOne,
            Unrenderable, Tcp, MergeALBSpecificData, MergeCollides, NoTcpPorts,
            TcpConfigUnreadable, PutTcpPorts, EmptyTcpConfigMapPanic, Finish, FinishIngress,
            UpdateStatus, Exit, DumpYAML, Crash, Stopped, vars, Goto
      <3>3. ConfigReported BY <2>1, <3>2 DEF EndInv
      <3>4. /\ Output'.status # Absent
            /\ Output.status.resources \subseteq Output'.status.resources
        <4>1. CASE UpdateStatus
          <5> PICK got \in BOOLEAN, ok \in BOOLEAN :
                CreateOrUpdateStatusCm(mode, infos, got, ok)
            BY <4>1 DEF UpdateStatus
          <5> QED BY <1>ty, <1>st, <3>3, StatusGrows DEF TypeOK, ConfigReported
        <4>2. CASE ~UpdateStatus
          <5>1. Output'.status = Output.status
            BY <1>ty, <2>1, <2>r, <2>3, <3>2, <4>2, SameStatus DEF Output
          <5> QED BY <3>3, <5>1 DEF ConfigReported
        <4> QED BY <4>1, <4>2
      <3> QED BY <2>1, <3>3, <3>4 DEF ConfigReported
    <2> QED BY <2>2, <2>3
  <1> QED BY <1>1, <1>2 DEF EndInv

(* At first nothing is listed, at hand, or ended.                            *)
LEMMA SuccessInit == Init => SuccessInv
  <1> SUFFICES ASSUME Init PROVE SuccessInv
    OBVIOUS
  <1>1. LoopInv /\ EndInv
    BY DEF Init, LoopInv, EndInv
  <1> QED BY <1>1, ClassInit, CompleteInit, ListInit DEF SuccessInv

(* SuccessIsComplete: as long as no two Ingresses give one name to their      *)
(* parts, a run that ends well has migrated and reported whatever its mode    *)
(* includes, after any number of runs in any modes, killed or not, and        *)
(* whatever requests failed.                                                 *)
THEOREM SuccessMeansComplete == NamesApart => (Spec => []SuccessIsComplete)
  <1> SUFFICES ASSUME NamesApart PROVE Spec => []SuccessIsComplete
    OBVIOUS
  <1>1. SuccessInv /\ [Next]_vars => SuccessInv'
    BY ClassStep, CompleteStep, ListStep, LoopStep, EndStep DEF SuccessInv
  <1>2. SuccessInv => SuccessIsComplete
    <2> SUFFICES ASSUME SuccessInv, pc = "done"
                 PROVE  /\ \A n \in IngressNames : Included(n) =>
                              /\ Migrated(n)
                              /\ \E r \in Output.status.resources : Reports(r, n)
                        /\ cluster.iksCm # Absent => ConfigReported
      BY DEF SuccessIsComplete
    <2>1. todo = {} /\ cur = Absent /\ ~failed /\ infos \subseteq Output.status.resources
      BY DEF SuccessInv, EndInv
    <2>2. \A n \in IngressNames : Included(n) => Done(n)
      BY <2>1 DEF SuccessInv, LoopInv
    <2>3. cluster.iksCm # Absent => ConfigReported
      BY DEF SuccessInv, EndInv
    <2> QED BY <2>1, <2>2, <2>3 DEF Done
  <1> QED BY SuccessInit, <1>1, <1>2, PTL DEF Spec

=============================================================================
