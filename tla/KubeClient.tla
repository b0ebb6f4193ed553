----------------------------- MODULE KubeClient -----------------------------
(***************************************************************************)
(* The client of utils/kube_client.go: what the API server stores and what *)
(* the client records in its containers for the YAML dump.                 *)
(*                                                                         *)
(* Every read goes to the cluster, also in read-only mode; only the status *)
(* ConfigMap is read back from the containers then.  Every write is first  *)
(* recorded and then, unless the client is read-only, sent to the cluster, *)
(* where it may fail: a failed write stays recorded.                       *)
(***************************************************************************)
EXTENDS Naturals

CONSTANTS
    ReadOnlyChoices,    \* config.go: ReadOnly, as the runs may be configured
    RecordResources,    \* config.go: DumpResources
    IngressNames,       \* namespace/name of every Ingress, migrated or not
    Albs,               \* the ids an ALB-ID annotation may list
    NoAlb,              \* the empty ALB id: the generic TCP ConfigMap
    Ports, Backends,    \* TCP ports and namespace/service:port strings
    User,               \* the author of an Ingress the tool did not generate
    Absent              \* no such object, key or value

ASSUME ModeAssumption ==
    /\ ReadOnlyChoices \subseteq BOOLEAN /\ RecordResources \in BOOLEAN
    \* a client that neither writes nor records has no effect at all
    /\ TRUE \in ReadOnlyChoices => RecordResources

ASSUME NamesAssumption ==
    /\ NoAlb \notin Albs
    /\ Absent \notin Backends
    /\ User \notin IngressNames

VARIABLES
    cluster,    \* the objects of the API server
    recorded,   \* ingressContainer and configMapContainer
    readOnly    \* config.go: ReadOnly, of this run

kubeVars == <<cluster, recorded, readOnly>>

-----------------------------------------------------------------------------
Modes == {"test", "test-with-private", "production"}

CommunityClasses == {"public-iks-k8s-nginx", "private-iks-k8s-nginx", "test"}

Classes == CommunityClasses \cup {"none"}

(* The class is the kubernetes.io/ingress.class annotation; the tool does   *)
(* not look at spec.ingressClassName.  by is what it was generated from.    *)
Ingress == [by : IngressNames \cup {User}, class : Classes]

AlbKeys == Albs \cup {NoAlb}

PortMap == [Ports -> Backends \cup {Absent}]

NoPorts == [p \in Ports |-> Absent]

(* The ports of new, and those of old that new leaves alone.               *)
Over(old, new) == [p \in Ports |-> IF new[p] = Absent THEN old[p] ELSE new[p]]

(* A "<kind>/<name>" string of MigratedResource.MigratedAs.                *)
Outputs == {"Ingress"} \X IngressNames
              \cup {"TCP"} \X AlbKeys
              \cup {"ConfigMap"} \X {"k8sCm", "testCm"}

(* model.MigratedResource, with the run that made it.  warned says that it *)
(* has the ErrorCreatingIngressResources warning.                          *)
MigratedResource ==
    [run : Nat, source : IngressNames \cup {"iksCm"}, as : SUBSET Outputs, warned : BOOLEAN]

Status == [mode : Modes, resources : SUBSET MigratedResource]

CmData == {"empty", "original", "migrated"}

(* ibm-cloud-provider-ingress-cm: whether it has a parameter that migrates, *)
(* and the ports it opens.                                                 *)
IksCmData == [params : BOOLEAN, public : SUBSET Ports, private : SUBSET Ports]

Store == [ingress : [IngressNames -> Ingress \cup {Absent}],
          tcp     : [AlbKeys -> PortMap \cup {Absent}],
          iksCm   : IksCmData \cup {Absent},
          k8sCm   : CmData \cup {Absent},
          testCm  : CmData \cup {Absent},
          status  : Status \cup {Absent}]

EmptyStore == [ingress |-> [n \in IngressNames |-> Absent],
               tcp     |-> [a \in AlbKeys |-> Absent],
               iksCm   |-> Absent,
               k8sCm   |-> Absent,
               testCm  |-> Absent,
               status  |-> Absent]

ASSUME AbsentAssumption ==
    /\ Absent \notin Ingress /\ Absent \notin PortMap
    /\ Absent \notin CmData /\ Absent \notin IksCmData /\ Absent \notin Status

(* Where this client leaves its results: the containers that are dumped, or *)
(* the cluster.                                                             *)
Output == IF readOnly THEN recorded ELSE cluster

-----------------------------------------------------------------------------
(* A request to the API server that may write; ok says whether it succeeds. *)
MayWrite(ok) == ok \/ ~readOnly

(* Mutant: a client that writes nothing records nothing.                    *)
CreateOrUpdateIngressUnrecorded(n, ing, ok) ==
    /\ MayWrite(ok)
    /\ cluster' = IF ~readOnly /\ ok
                  THEN [cluster EXCEPT !.ingress[n] = ing] ELSE cluster
    /\ recorded' = IF RecordResources /\ ~readOnly
                   THEN [recorded EXCEPT !.ingress[n] = ing] ELSE recorded
    /\ UNCHANGED readOnly

CreateOrUpdateIngress(n, ing, ok) ==
    /\ MayWrite(ok)
    /\ recorded' = IF RecordResources
                   THEN [recorded EXCEPT !.ingress[n] = ing] ELSE recorded
    /\ cluster' = IF ~readOnly /\ ok
                  THEN [cluster EXCEPT !.ingress[n] = ing] ELSE cluster
    /\ UNCHANGED readOnly

(* Mutant: an update is not recorded.                                       *)
PutTcpConfigMapRecordedOnce(a, data, ok) ==
    /\ MayWrite(ok)
    /\ recorded' = IF RecordResources /\ recorded.tcp[a] = Absent
                   THEN [recorded EXCEPT !.tcp[a] = data] ELSE recorded
    /\ cluster' = IF ~readOnly /\ ok
                  THEN [cluster EXCEPT !.tcp[a] = data] ELSE cluster
    /\ UNCHANGED readOnly

(* CreateConfigMap and UpdateConfigmap for a TCP ConfigMap.                *)
PutTcpConfigMap(a, data, ok) ==
    /\ MayWrite(ok)
    /\ recorded' = IF RecordResources
                   THEN [recorded EXCEPT !.tcp[a] = data] ELSE recorded
    /\ cluster' = IF ~readOnly /\ ok
                  THEN [cluster EXCEPT !.tcp[a] = data] ELSE cluster
    /\ UNCHANGED readOnly

UpdateK8sCm(data, ok) ==
    /\ MayWrite(ok)
    /\ recorded' = IF RecordResources
                   THEN [recorded EXCEPT !.k8sCm = data] ELSE recorded
    /\ cluster' = IF ~readOnly /\ ok
                  THEN [cluster EXCEPT !.k8sCm = data] ELSE cluster
    /\ UNCHANGED readOnly

CreateOrUpdateTestCm(data, ok) ==
    /\ MayWrite(ok)
    /\ recorded' = IF RecordResources
                   THEN [recorded EXCEPT !.testCm = data] ELSE recorded
    /\ cluster' = IF ~readOnly /\ ok
                  THEN [cluster EXCEPT !.testCm = data] ELSE cluster
    /\ UNCHANGED readOnly

(* The status ConfigMap that an update starts from.                        *)
StatusRead == Output.status

(* Mutants: the mode is not compared; the entries are replaced.             *)
StatusAcceptsAny(mode) == TRUE
StatusReplacement(mode, update) == [mode |-> mode, resources |-> update]

(* A single run must not change the mode of the status it finds.           *)
StatusAccepts(mode) == StatusRead = Absent \/ StatusRead.mode = mode

StatusUpdate(mode, update) ==
    [mode |-> mode,
     resources |-> update \cup (IF StatusRead = Absent THEN {} ELSE StatusRead.resources)]

(* The update succeeds exactly when ok holds and the mode is accepted; a    *)
(* read failure (got = FALSE) or another mode returns before it is recorded. *)
CreateOrUpdateStatusCm(mode, update, got, ok) ==
    /\ MayWrite(ok) /\ MayWrite(got)
    /\ got \/ ~ok
    /\ IF got /\ StatusAccepts(mode)
       THEN /\ recorded' = IF RecordResources
                           THEN [recorded EXCEPT !.status = StatusUpdate(mode, update)]
                           ELSE recorded
            /\ cluster' = IF ~readOnly /\ ok
                          THEN [cluster EXCEPT !.status = StatusUpdate(mode, update)]
                          ELSE cluster
            /\ UNCHANGED readOnly
       ELSE UNCHANGED kubeVars

(* Mutant: the status is kept.                                               *)
KeepStatusCm(ok) == MayWrite(ok) /\ UNCHANGED kubeVars

DeleteStatusCm(ok) ==
    /\ MayWrite(ok)
    /\ cluster' = IF ~readOnly /\ ok THEN [cluster EXCEPT !.status = Absent] ELSE cluster
    /\ UNCHANGED <<recorded, readOnly>>

=============================================================================
