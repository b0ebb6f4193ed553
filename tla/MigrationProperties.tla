------------------------ MODULE MigrationProperties -------------------------
(***************************************************************************)
(* What a run of the migration tool must and must not do.                  *)
(***************************************************************************)
EXTENDS MigrationRun

Entries == infos \cup (IF Output.status = Absent THEN {} ELSE Output.status.resources)

Published(store, a) == IF store.tcp[a] = Absent THEN NoPorts ELSE store.tcp[a]

WrittenIn(store, o) ==
    \/ o[1] = "Ingress" /\ store.ingress[o[2]] # Absent /\ store.ingress[o[2]].by # User
    \/ o[1] = "TCP" /\ Published(store, o[2]) # NoPorts
    \/ o[1] = "ConfigMap" /\ o[2] = "k8sCm" /\ store.k8sCm # Absent
    \/ o[1] = "ConfigMap" /\ o[2] = "testCm" /\ store.testCm # Absent

Written(o) == WrittenIn(Output, o)

(* Whatever fails, is killed or runs again: what the status ConfigMap lists  *)
(* under "migrated as", now and in every entry collected for it, is where    *)
(* the tool puts its results (createIngressResources, handleTCPPorts).       *)
ReportedIsWritten == \A r \in Entries : \A o \in r.as : Written(o)

CurIsWritten == cur # Absent => \A o \in cur.as \cup cur.tcp : Written(o)

ConfigIsWritten == pc = "configStatus" => \A o \in ConfigInfo.as : Written(o)

(* The status in the cluster, also while a read-only run has its own.         *)
ClusterIsTrue ==
    cluster.status # Absent =>
        \A r \in cluster.status.resources : \A o \in r.as : WrittenIn(cluster, o)

(* ReportedIsWritten is inductive with what is about to be reported, and with  *)
(* what a run that writes finds after one that did not.                       *)
ReportInv == TypeOK /\ ReportedIsWritten /\ CurIsWritten /\ ConfigIsWritten /\ ClusterIsTrue

(* An entry without the ErrorCreatingIngressResources warning lists every    *)
(* Ingress its source is split into (HandleIngressResources).                *)
ListsParts(r) == \A p \in Conf[r.source].parts : <<"Ingress", p>> \in r.as

UnwarnedIsComplete ==
    \A r \in Entries : r.source # "iksCm" /\ ~r.warned => ListsParts(r)

(* It is inductive with the parts the current Ingress still waits for, and   *)
(* with the status a later run may find.                                     *)
CompleteInv ==
    /\ TypeOK /\ UnwarnedIsComplete
    /\ cluster.status # Absent =>
          \A r \in cluster.status.resources : r.source # "iksCm" /\ ~r.warned => ListsParts(r)
    /\ cur # Absent /\ ~cur.warned =>
          \A p \in Conf[cur.name].parts : p \in cur.parts \/ <<"Ingress", p>> \in cur.as
    /\ pc = "tcp" => cur.parts = {}

(* An Ingress the tool generated is never migrated again, in no mode and no  *)
(* later run: the class it is given is one that skipIngresses matches.       *)
NeverMigratedTwice ==
    \A n \in IngressNames :
        cluster.ingress[n] # Absent => cluster.ingress[n].by \in UserIngresses \cup {User}

(* What the tool may come across is of a user, or has a class it skips.      *)
SkippedOrUsers(n, class) == n \in UserIngresses \/ class \in CommunityClasses

ClassInv ==
    /\ TypeOK /\ NeverMigratedTwice
    /\ \A n \in IngressNames :
          cluster.ingress[n] # Absent => SkippedOrUsers(n, cluster.ingress[n].class)
    /\ \A t \in todo : SkippedOrUsers(t.name, t.class)
    /\ cur # Absent => cur.name \in UserIngresses

Migrated(n) ==
    \A p \in Conf[n].parts :
        Output.ingress[p] = Generated(n)

(* The Ingresses of users that no mode skips.                                *)
Candidates == {n \in UserIngresses \ SkipNames : Conf[n].class \notin CommunityClasses}

Included(n) ==
    /\ n \in Candidates
    /\ ~(mode = "test" /\ \E a \in Conf[n].albs : a \in PrivateAlbs)

Reports(r, n) == r.run = run /\ r.source = n /\ ~r.warned /\ ListsParts(r)

ConfigReported ==
    /\ Output.status # Absent
    /\ \E r \in Output.status.resources : r.run = run /\ r.source = "iksCm"

(* A run that ends well has migrated every Ingress that is not skipped into  *)
(* the class of its mode, says so in one entry of the status, and listed the *)
(* ConfigMap too; earlier runs, killed or not, in the same or another mode,  *)
(* leave nothing that is missed now (main, HandleIngressResources).          *)
SuccessIsComplete ==
    pc = "done" /\ RecordResources =>
        /\ \A n \in IngressNames : Included(n) =>
              /\ Migrated(n)
              /\ \E r \in Output.status.resources : Reports(r, n)
        /\ cluster.iksCm # Absent => ConfigReported

(* No two Ingresses give one name to their parts, and none takes a user's    *)
(* Ingress for a part: the run SharedNames shows that the code needs it.     *)
NamesApart ==
    \A n \in Candidates :
        /\ Conf[n].parts \cap UserIngresses = {}
        /\ \A m \in Candidates \ {n} : Conf[n].parts \cap Conf[m].parts = {}

Done(n) == Migrated(n) /\ \E r \in infos : Reports(r, n)

(* Users' Ingresses are as they were, others are skipped; what the loop has  *)
(* not reached it has listed.                                                *)
ListInv ==
    /\ \A n \in UserIngresses : cluster.ingress[n] = InitialIngress(n)
    /\ \A t \in todo : t.name \in UserIngresses => t.class = Conf[t.name].class
    /\ cur # Absent =>
          /\ pc \in {"create", "tcp"} \cup Ended
          /\ Included(cur.name)
          /\ cur.parts \subseteq Conf[cur.name].parts

(* Unless something failed, what is not listed any more is done or at hand.  *)
LoopInv ==
    /\ ~failed /\ pc \in {"pick", "create", "tcp", "exit", "dump", "done"} =>
          \A n \in IngressNames : Included(n) =>
              \/ [name |-> n, class |-> Conf[n].class] \in todo
              \/ cur # Absent /\ cur.name = n
              \/ Done(n)
    /\ ~failed /\ cur # Absent =>
          /\ ~cur.warned
          /\ \A p \in Conf[cur.name].parts \ cur.parts : Output.ingress[p] = Generated(cur.name)

EndInv ==
    /\ pc \in {"exit", "dump", "done"} =>
          /\ todo = {} /\ cur = Absent
          /\ ~failed => Output.status # Absent /\ infos \subseteq Output.status.resources
    /\ pc \in {"dump", "done"} => ~failed
    /\ pc \in {"list", "pick", "create", "tcp", "exit", "dump", "done"}
          /\ cluster.iksCm # Absent => ConfigReported

(* SuccessIsComplete is inductive with these.                                *)
SuccessInv == ClassInv /\ CompleteInv /\ ListInv /\ LoopInv /\ EndInv

PortsMigrated ==
    \A n \in IngressNames : Included(n) /\ Conf[n].ports # NoPorts =>
        \A a \in Conf[n].albs : \A p \in EnabledPorts(a) :
            Conf[n].ports[p] # Absent => Published(Output, a)[p] = Conf[n].ports[p]

(* After such a run, when it writes, the TCP ConfigMap of every ALB of an    *)
(* Ingress sends each port the IKS ConfigMap opens to the backend of the     *)
(* tcp-ports annotation (handleTCPPorts, CreateOrUpdateTCPPortsCM).          *)
SuccessMigratesPorts == pc = "done" /\ ~readOnly => PortsMigrated

HasClaims(n) ==
    \A a \in Conf[n].albs, p \in Ports :
        Conf[n].ports[p] # Absent => alb[a][p] = Conf[n].ports[p]

HasPorts(n, a) ==
    /\ cluster.iksCm # Absent
    /\ \A p \in EnabledPorts(a) :
          Conf[n].ports[p] # Absent => Published(cluster, a)[p] = Conf[n].ports[p]

(* SuccessMigratesPorts is inductive with the claims of the Ingresses that   *)
(* are done, which keep others from changing their ports, and with the ALBs  *)
(* that the one at hand has been through.                                    *)
PortInv ==
    /\ TypeOK
    /\ pc = "create" => cur.albs = Conf[cur.name].albs /\ ~cur.tcpFailed
    /\ ~readOnly /\ ~failed /\ pc \in {"pick", "create", "tcp", "exit", "dump", "done"} =>
          \A n \in IngressNames : Included(n) /\ Conf[n].ports # NoPorts =>
              \/ [name |-> n, class |-> Conf[n].class] \in todo
              \/ cur # Absent /\ cur.name = n
              \/ HasClaims(n) /\ \A a \in Conf[n].albs : HasPorts(n, a)
    /\ ~readOnly /\ pc = "tcp" /\ ~cur.tcpFailed /\ Conf[cur.name].ports # NoPorts =>
          /\ HasClaims(cur.name)
          /\ \A a \in Conf[cur.name].albs \ cur.albs : HasPorts(cur.name, a)

(* The same for a run that only records, which the code does not satisfy     *)
(* (CreateOrUpdateTCPPortsCM reads what it never wrote).                     *)
DumpMigratesPorts == pc = "done" /\ readOnly => PortsMigrated

(* A client that writes and records dumps what the cluster got: after a run  *)
(* that ends well the files agree with the cluster on every object an entry  *)
(* of this run lists (kube_client.go, DumpYAML).                             *)
DumpIsFaithful ==
    pc = "done" /\ RecordResources /\ ~readOnly =>
        \A r \in infos : \A o \in r.as :
            \/ o[1] = "Ingress" /\ dumped.ingress[o[2]] = cluster.ingress[o[2]]
            \/ o[1] = "TCP" /\ dumped.tcp[o[2]] = cluster.tcp[o[2]]

Agrees(o) ==
    \/ /\ o[1] = "Ingress" /\ o[2] \in IngressNames
       /\ cluster.ingress[o[2]] # Absent /\ recorded.ingress[o[2]] = cluster.ingress[o[2]]
    \/ /\ o[1] = "TCP" /\ o[2] \in AlbKeys
       /\ cluster.tcp[o[2]] # Absent /\ recorded.tcp[o[2]] = cluster.tcp[o[2]]

(* What was recorded agrees with the cluster until a request fails, which    *)
(* keeps the run from its end.                                               *)
DumpInv ==
    /\ TypeOK /\ DumpIsFaithful
    /\ cur # Absent => pc \in {"create", "tcp", "panicked", "crashed"}
    /\ pc \in {"dump", "done"} => ~failed
    /\ RecordResources /\ ~readOnly /\ ~failed /\ (cur # Absent => ~cur.tcpFailed) =>
          /\ \A r \in infos : \A o \in r.as : Agrees(o)
          /\ cur # Absent => \A o \in cur.as \cup cur.tcp : Agrees(o)

(* Entries of an earlier run are in the status only when its deletion failed *)
(* (main, DeleteStatusCm).                                                   *)
StatusStartsEmpty ==
    faults = 0 /\ pc \notin {"start", "crashed"} =>
        \A r \in Entries : r.run = run

(* At the start a run has no entries of its own.                             *)
FreshInv ==
    /\ TypeOK /\ StatusStartsEmpty
    /\ pc = "start" => infos = {} /\ recorded.status = Absent

(* The status never changes its mode, so all its entries are of one mode,    *)
(* also when its deletion failed before a run in another mode                *)
(* (CreateOrUpdateStatusCm).                                                 *)
StatusKeepsMode ==
    [][cluster.status # Absent /\ cluster'.status # Absent
          => cluster'.status.mode = cluster.status.mode]_vars

(* A run in a test mode leaves the ConfigMap of the production controllers   *)
(* as it is (HandleConfigMap).                                               *)
TestKeepsConfig ==
    [][mode # "production" => cluster'.k8sCm = cluster.k8sCm]_vars

Registry == INSTANCE PortRegistry
                WITH Keys <- AlbKeys, None <- Absent, claims <- alb,
                     table <- [a \in AlbKeys |-> Published(cluster, a)]

(* The tool implements the port registry on the cluster: no run drops a port *)
(* or gives it to two backends, whatever order the Ingresses come in and     *)
(* whatever fails, and a run that only records changes nothing               *)
(* (MergeALBSpecificData, CreateOrUpdateTCPPortsCM).                         *)
ImplementsRegistry == Registry!Spec

(* What is about to be published is claimed.                                 *)
ClaimInv ==
    /\ TypeOK
    /\ pc = "tcp" => \A a \in cur.albs, p \in Ports :
          Conf[cur.name].ports[p] # Absent => alb[a][p] = Conf[cur.name].ports[p]

(* The loop has not come to this Ingress, or is at it.                       *)
Ahead(n) ==
    \/ [name |-> n, class |-> Conf[n].class] \in todo
    \/ cur # Absent /\ cur.name = n

(* The panics in the loop: at an Ingress that it has not got past, or at a   *)
(* TCP ConfigMap without data.                                               *)
PanickedInLoop ==
    /\ pc = "panicked"
    /\ \/ \E t \in todo :
             ~Skipped(t) /\ (Conf[t.name].outcome = "panic" \/ Conf[t.name].secrets = "mutual-auth")
       \/ cur # Absent /\ \E a \in cur.albs : cluster.tcp[a] = NoPorts

PanickedBeforeLoop ==
    pc = "panicked" /\ ~failed /\ todo = {} /\ cur = Absent /\ infos = {}

NeedsNothing(n) ==
    Conf[n].outcome = "ok" /\ Conf[n].unrenderable = {} /\ Conf[n].secrets # "ssl-services"

Settled(n) == Migrated(n) \/ \E r \in infos : r.source = n /\ r.warned

(* Errors of one Ingress, a failing request or not, do not keep the others   *)
(* from being migrated: every Ingress that converts and renders and needs no *)
(* ssl secret eventually is, or its entry has the warning.  Only a panic     *)
(* keeps it from that, before the loop starts or before it is past this      *)
(* Ingress; what was past is migrated (the loop of HandleIngressResources).  *)
OthersAreMigrated ==
    \A n \in UserIngresses :
        Included(n) /\ NeedsNothing(n) =>
            <>(Settled(n) \/ PanickedBeforeLoop \/ (PanickedInLoop /\ Ahead(n)))
=============================================================================
