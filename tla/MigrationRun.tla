---------------------------- MODULE MigrationRun ----------------------------
(***************************************************************************)
(* A run of the migration tool, and the runs after it: main.go, the two    *)
(* top level handlers of handlers/, the TCP ConfigMaps they share, the     *)
(* status ConfigMap and the YAML dump.                                     *)
(*                                                                         *)
(* The program is one thread that talks to the API server; a step of the   *)
(* model is one request that may write, with the computation around it.    *)
(* Any request may fail (MaxFaults of them), the process may be killed     *)
(* between two requests (Crashes), and it may be started again in another  *)
(* mode (MaxRuns): the Job that runs it has a backoffLimit.                *)
(***************************************************************************)
EXTENDS KubeClient

CONSTANTS
    UserIngresses,  \* the Ingresses that are in the cluster at first
    SkipNames,      \* skipIngresses that are matched by name
    PrivateAlbs,    \* the ALB ids that contain "private"
    Conf,           \* what getIngressConfig and createSingleIngConfs make of one
    IksCms,         \* possible contents of ibm-cloud-provider-ingress-cm
    K8sCms,         \* possible contents of ibm-k8s-controller-config
    TcpCms,         \* possible TCP ConfigMaps before the first run
    MaxFaults, MaxRuns, Crashes

(* albs is {NoAlb} without an ALB-ID annotation; its order plays no part in *)
(* the properties.  outcome is what getIngressConfig makes of the            *)
(* annotations when all secrets are there, secrets the kind of secret it    *)
(* needs.  parts are the names of the Ingresses it is split into,           *)
(* unrenderable those whose template gives no Ingress.                      *)
IngressConf ==
    [class : Classes, albs : SUBSET AlbKeys, ports : PortMap,
     parts : SUBSET IngressNames, unrenderable : SUBSET IngressNames,
     outcome : {"ok", "error", "panic"},
     secrets : {"none", "ssl-services", "mutual-auth"}]

ASSUME InputAssumption ==
    /\ UserIngresses \subseteq IngressNames
    /\ PrivateAlbs \subseteq Albs
    /\ Conf \in [IngressNames -> IngressConf]
    /\ IksCms \subseteq IksCmData \cup {Absent}
    /\ K8sCms \subseteq CmData \cup {Absent}
    /\ TcpCms \subseteq [AlbKeys -> PortMap \cup {Absent}]

ASSUME BoundAssumption ==
    /\ MaxFaults \in Nat /\ MaxRuns \in Nat \ {0} /\ Crashes \in BOOLEAN

VARIABLES
    pc,         \* the next request
    mode,       \* config.go: GetMode()
    run,        \* how many runs were started
    faults,     \* how many requests failed
    todo,       \* the listed Ingresses that the loop has not reached
    cur,        \* the Ingress the loop is at, Absent between two Ingresses
    alb,        \* albSpecificData: the TCP ports claimed so far in this run
    infos,      \* migrationInfos
    failed,     \* len(errors) > 0
    dumped      \* the files in the output directory

runVars == <<todo, cur, alb, infos, failed>>
vars == <<kubeVars, pc, mode, run, faults, runVars, dumped>>

-----------------------------------------------------------------------------
Ended == {"done", "panicked", "crashed"}

Listed == [name : IngressNames, class : Classes]

(* as collects the MigratedAs strings, tcp those of the TCP ConfigMaps,     *)
(* which are dropped when one of them fails.                                *)
Current == [name : IngressNames, parts : SUBSET IngressNames, as : SUBSET Outputs,
            warned : BOOLEAN, albs : SUBSET AlbKeys, tcp : SUBSET Outputs,
            tcpFailed : BOOLEAN]

ASSUME NoCurrentAssumption == Absent \notin Current

(* What each variable may hold; an Ingress is at hand while its resources are *)
(* written (HandleIngressResources).                                         *)
TypeOK ==
    /\ cluster \in Store /\ recorded \in Store /\ dumped \in Store
    /\ readOnly \in ReadOnlyChoices
    /\ pc \in {"start", "config", "configStatus", "list", "pick", "create",
               "tcp", "exit", "dump"} \cup Ended
    /\ mode \in Modes /\ run \in Nat /\ faults \in Nat
    /\ todo \subseteq Listed
    /\ cur \in Current \cup {Absent}
    /\ pc \in {"create", "tcp"} => cur \in Current
    /\ alb \in [AlbKeys -> PortMap]
    /\ infos \subseteq MigratedResource
    /\ failed \in BOOLEAN

NoClaims == [a \in AlbKeys |-> NoPorts]

InitialIngress(n) ==
    IF n \in UserIngresses
    THEN [by |-> User, class |-> Conf[n].class]
    ELSE Absent

Init ==
    /\ \E iks \in IksCms, k8s \in K8sCms, tcp \in TcpCms :
          cluster = [EmptyStore EXCEPT !.ingress = [n \in IngressNames |-> InitialIngress(n)],
                                       !.tcp = tcp, !.iksCm = iks, !.k8sCm = k8s]
    /\ recorded = EmptyStore /\ readOnly \in ReadOnlyChoices /\ dumped = EmptyStore
    /\ pc = "start" /\ mode \in Modes /\ run = 1 /\ faults = 0
    /\ todo = {} /\ cur = Absent /\ alb = NoClaims /\ infos = {} /\ failed = FALSE

(* A request that may fail.                                                 *)
Call(ok) ==
    /\ ok \/ faults < MaxFaults
    /\ faults' = IF ok THEN faults ELSE faults + 1

Goto(label) == pc' = label /\ UNCHANGED <<mode, run, dumped>>

-----------------------------------------------------------------------------
(* main(): an error of DeleteStatusCm is not looked at.                     *)
DeleteStatus ==
    /\ pc = "start"
    /\ \E ok \in BOOLEAN : Call(ok) /\ DeleteStatusCm(ok)
    /\ Goto("config")
    /\ UNCHANGED runVars

(* Reading one of the two ConfigMaps fails, the k8s one is missing, or it    *)
(* has no data: then its data map is nil, and the assignment panics.         *)
ConfigUnreadable ==
    /\ pc = "config"
    /\ \/ Call(FALSE)
       \/ /\ Call(TRUE)
          /\ \/ cluster.k8sCm = Absent
             \/ cluster.iksCm # Absent /\ cluster.iksCm.params /\ cluster.k8sCm = "empty"
    /\ Goto("panicked")
    /\ UNCHANGED <<kubeVars, runVars>>

NoIksConfig ==
    /\ pc = "config"
    /\ cluster.k8sCm # Absent /\ cluster.iksCm = Absent
    /\ Goto("list")
    /\ UNCHANGED <<kubeVars, faults, runVars>>

MigratedCm == IF cluster.iksCm.params THEN "migrated" ELSE cluster.k8sCm

(* Mutant: the k8s ConfigMap is updated in every mode.                        *)
PutConfigInPlace(ok) == UpdateK8sCm(MigratedCm, ok)

PutConfig(ok) == IF mode = "production" THEN UpdateK8sCm(MigratedCm, ok)
                 ELSE CreateOrUpdateTestCm(MigratedCm, ok)

(* HandleConfigMap: in production mode the k8s ConfigMap itself is updated.  *)
MigrateConfig ==
    /\ pc = "config"
    /\ cluster.iksCm # Absent /\ cluster.k8sCm # Absent
    /\ cluster.iksCm.params => cluster.k8sCm # "empty"
    /\ \E ok \in BOOLEAN :
          /\ Call(ok)
          /\ PutConfig(ok)
          /\ Goto(IF ok THEN "configStatus" ELSE "panicked")
    /\ UNCHANGED runVars

ConfigInfo ==
    [run |-> run, source |-> "iksCm", warned |-> FALSE,
     as |-> {<<"ConfigMap", IF mode = "production" THEN "k8sCm" ELSE "testCm">>}]

ConfigStatus ==
    /\ pc = "configStatus"
    /\ \E got, ok \in BOOLEAN :
          /\ Call(ok)
          /\ CreateOrUpdateStatusCm(mode, {ConfigInfo}, got, ok)
          /\ Goto(IF ok /\ StatusAccepts(mode) THEN "list" ELSE "panicked")
    /\ UNCHANGED runVars

-----------------------------------------------------------------------------
(* HandleIngressResources starts, with the Ingresses there are now.          *)
ListIngresses ==
    /\ pc = "list"
    /\ \E ok \in BOOLEAN :
          /\ Call(ok)
          /\ todo' = IF ok
                     THEN {[name |-> n, class |-> cluster.ingress[n].class] :
                              n \in {m \in IngressNames : cluster.ingress[m] # Absent}}
                     ELSE {}
          /\ Goto(IF ok THEN "pick" ELSE "panicked")
    /\ UNCHANGED <<kubeVars, cur, alb, infos, failed>>

HasPrivateAlb(n) == Conf[n].albs \cap PrivateAlbs # {}

(* Mutant: the class is not looked at.                                       *)
SkippedByName(t) ==
    \/ t.name \in SkipNames
    \/ HasPrivateAlb(t.name) /\ mode = "test"

(* By name, by the annotation of the class, by the mode.                     *)
Skipped(t) ==
    \/ t.name \in SkipNames
    \/ t.class \in CommunityClasses
    \/ HasPrivateAlb(t.name) /\ mode = "test"

Skip ==
    /\ pc = "pick"
    /\ \E t \in todo : Skipped(t) /\ todo' = todo \ {t}
    /\ Goto("pick")
    /\ UNCHANGED <<kubeVars, faults, cur, alb, infos, failed>>

(* Mutant: an error returns from the loop.                                    *)
RejectAll(t) == todo' = {}

RejectOne(t) == todo' = todo \ {t}

(* getIngressConfig returns errors: the Ingress leaves no entry.  An ssl     *)
(* secret is such an error when it is not there, which is no failed request, *)
(* or cannot be read or updated; users make and delete secrets at any time.  *)
Reject ==
    /\ pc = "pick"
    /\ \E t \in todo :
          /\ ~Skipped(t)
          /\ \/ Conf[t.name].outcome = "error" /\ Call(TRUE)
             \/ Conf[t.name].secrets = "ssl-services" /\ \E ok \in BOOLEAN : Call(ok)
          /\ RejectOne(t)
    /\ failed' = TRUE
    /\ Goto("pick")
    /\ UNCHANGED <<kubeVars, cur, alb, infos>>

(* getIngressConfig panics: a parser indexes past the end of an annotation,  *)
(* or a mutual-auth secret is dereferenced that LookupSecret did not find,   *)
(* because there is none or because it could not be read.                    *)
GetIngressConfigPanic ==
    /\ pc = "pick"
    /\ \E t \in todo :
          /\ ~Skipped(t)
          /\ \/ Conf[t.name].outcome = "panic" /\ Call(TRUE)
             \/ Conf[t.name].secrets = "mutual-auth" /\ \E ok \in BOOLEAN : Call(ok)
    /\ Goto("panicked")
    /\ UNCHANGED <<kubeVars, runVars>>

(* getIngressConfig succeeds, createSingleIngConfs gives the parts.          *)
Accept ==
    /\ pc = "pick"
    /\ \E t \in todo :
          /\ ~Skipped(t) /\ Conf[t.name].outcome = "ok"
          /\ todo' = todo \ {t}
          /\ cur' = [name |-> t.name, parts |-> Conf[t.name].parts, as |-> {},
                     warned |-> FALSE, albs |-> Conf[t.name].albs, tcp |-> {},
                     tcpFailed |-> FALSE]
    /\ Goto("create")
    /\ UNCHANGED <<kubeVars, faults, alb, infos, failed>>

-----------------------------------------------------------------------------
(* Mutant: no class for a private ALB in the test-with-private mode.          *)
TargetClassOfTwoModes(n) ==
    IF HasPrivateAlb(n)
    THEN IF mode = "production" THEN "private-iks-k8s-nginx" ELSE ""
    ELSE IF mode = "production" THEN "public-iks-k8s-nginx" ELSE "test"

TargetClass(n) ==
    IF mode # "production" THEN "test"
    ELSE IF HasPrivateAlb(n) THEN "private-iks-k8s-nginx" ELSE "public-iks-k8s-nginx"

Generated(n) == [by |-> n, class |-> TargetClass(n)]

(* Mutant: no warning.                                                       *)
SplitNothing == cur' = [cur EXCEPT !.parts = {}]

NoParts == cur' = [cur EXCEPT !.parts = {}, !.warned = TRUE]

(* createSingleIngConfs found no random test host: nothing is created.       *)
SplitFails ==
    /\ pc = "create"
    /\ mode # "production" /\ cur.as = {} /\ cur.parts = Conf[cur.name].parts /\ ~cur.warned
    /\ Call(FALSE)
    /\ NoParts
    /\ failed' = TRUE
    /\ Goto("create")
    /\ UNCHANGED <<kubeVars, todo, alb, infos>>

(* Mutants: a failed write is reported, or gives no warning.                 *)
CreatedAnyway(p, ok) ==
    cur' = [cur EXCEPT !.parts = @ \ {p}, !.as = @ \cup {<<"Ingress", p>>}, !.warned = @ \/ ~ok]
CreatedSilently(p, ok) ==
    cur' = [cur EXCEPT !.parts = @ \ {p}, !.as = IF ok THEN @ \cup {<<"Ingress", p>>} ELSE @]

Created(p, ok) ==
    cur' = [cur EXCEPT !.parts = @ \ {p},
                       !.as = IF ok THEN @ \cup {<<"Ingress", p>>} ELSE @,
                       !.warned = @ \/ ~ok]

(* One Ingress of createIngressResources.  It is reported when its write     *)
(* succeeded, else the loop goes on with the next one.                       *)
CreateOne ==
    /\ pc = "create"
    /\ \E p \in cur.parts \ Conf[cur.name].unrenderable, ok \in BOOLEAN :
          /\ Call(ok)
          /\ CreateOrUpdateIngress(p, Generated(cur.name), ok)
          /\ Created(p, ok)
          /\ failed' = (failed \/ ~ok)
    /\ Goto("create")
    /\ UNCHANGED <<todo, alb, infos>>

(* generateFromTemplate fails before anything is recorded.                   *)
Unrenderable ==
    /\ pc = "create"
    /\ \E p \in cur.parts \cap Conf[cur.name].unrenderable :
          Created(p, FALSE)
    /\ failed' = TRUE
    /\ Goto("create")
    /\ UNCHANGED <<kubeVars, faults, todo, alb, infos>>

-----------------------------------------------------------------------------
(* Mutant: a claim is taken over.                                             *)
NeverColliding(a) == {}

(* MergeALBSpecificData: the ports of the Ingress that another one already    *)
(* claimed for the same ALB and another backend.                              *)
Colliding(a) ==
    {p \in Ports : /\ Conf[cur.name].ports[p] # Absent
                   /\ alb[a][p] \notin {Absent, Conf[cur.name].ports[p]}}

Only(ports, ps) == [p \in Ports |-> IF p \in ps THEN ports[p] ELSE Absent]

MergeALBSpecificData ==
    /\ pc = "create" /\ cur.parts = {}
    /\ \A a \in cur.albs : Colliding(a) = {}
    /\ alb' = [a \in AlbKeys |-> IF a \in cur.albs THEN Over(alb[a], Conf[cur.name].ports)
                                 ELSE alb[a]]
    /\ Goto("tcp")
    /\ UNCHANGED <<kubeVars, faults, todo, cur, infos, failed>>

(* At a collision the claims made before it stay: the ALBs before, and those  *)
(* ports of this ALB that the map iteration happened to visit first.          *)
MergeCollides ==
    /\ pc = "create" /\ cur.parts = {}
    /\ \E a \in cur.albs, before \in SUBSET cur.albs, ps \in SUBSET Ports :
          /\ Colliding(a) # {} /\ ps \cap Colliding(a) = {}
          /\ \A b \in before : Colliding(b) = {}
          /\ alb' = [b \in AlbKeys |->
                        IF b \in before THEN Over(alb[b], Conf[cur.name].ports)
                        ELSE IF b = a THEN Over(alb[b], Only(Conf[cur.name].ports, ps))
                        ELSE alb[b]]
    /\ cur' = [cur EXCEPT !.albs = {}, !.tcpFailed = TRUE]
    /\ Goto("tcp")
    /\ UNCHANGED <<kubeVars, faults, todo, infos, failed>>

EnabledPorts(a) == IF a \in PrivateAlbs THEN cluster.iksCm.private ELSE cluster.iksCm.public

(* createK8STCPPortData: the ports that the IKS ConfigMap opens.              *)
TcpData(a) == Only(Conf[cur.name].ports, EnabledPorts(a))

(* handleTCPPorts: nothing to do, or no IKS ConfigMap to be read.             *)
NoTcpPorts ==
    /\ pc = "tcp" /\ cur.albs # {}
    /\ Conf[cur.name].ports = NoPorts
    /\ cur' = [cur EXCEPT !.albs = {}]
    /\ Goto("tcp")
    /\ UNCHANGED <<kubeVars, faults, todo, alb, infos, failed>>

TcpConfigUnreadable ==
    /\ pc = "tcp" /\ cur.albs = Conf[cur.name].albs /\ cur.albs # {}
    /\ Conf[cur.name].ports # NoPorts
    /\ IF cluster.iksCm = Absent THEN Call(TRUE) ELSE Call(FALSE)
    /\ cur' = [cur EXCEPT !.albs = {}, !.tcpFailed = TRUE]
    /\ Goto("tcp")
    /\ UNCHANGED <<kubeVars, todo, alb, infos, failed>>

(* Mutant: the ConfigMap is replaced.                                         *)
TcpReplacement(a) == TcpData(a)

(* CreateOrUpdateTCPPortsCM adds to the ConfigMap that the cluster has.       *)
TcpUpdate(a) == IF cluster.tcp[a] = Absent THEN TcpData(a)
                ELSE Over(cluster.tcp[a], TcpData(a))

TcpCreated(a, ok) ==
    cur' = [cur EXCEPT !.albs = @ \ {a},
                       !.tcp = IF ok THEN @ \cup {<<"TCP", a>>} ELSE @,
                       !.tcpFailed = @ \/ ~ok]

(* One ALB of handleTCPPorts; the read may fail, then the write.              *)
PutTcpPorts ==
    /\ pc = "tcp" /\ cluster.iksCm # Absent /\ Conf[cur.name].ports # NoPorts
    /\ \E a \in cur.albs :
          \/ /\ TcpData(a) = NoPorts
             /\ cur' = [cur EXCEPT !.albs = @ \ {a}]
             /\ UNCHANGED <<kubeVars, faults>>
          \/ /\ TcpData(a) # NoPorts
             /\ Call(FALSE) /\ TcpCreated(a, FALSE) /\ UNCHANGED kubeVars
          \/ /\ TcpData(a) # NoPorts /\ cluster.tcp[a] # NoPorts
             /\ \E ok \in BOOLEAN :
                   Call(ok) /\ TcpCreated(a, ok) /\ PutTcpConfigMap(a, TcpUpdate(a), ok)
    /\ Goto("tcp")
    /\ UNCHANGED <<todo, alb, infos, failed>>

(* A TCP ConfigMap without data has a nil map, which cannot be assigned to.    *)
EmptyTcpConfigMapPanic ==
    /\ pc = "tcp" /\ cluster.iksCm # Absent /\ Conf[cur.name].ports # NoPorts
    /\ \E a \in cur.albs : TcpData(a) # NoPorts /\ cluster.tcp[a] = NoPorts
    /\ Goto("panicked")
    /\ UNCHANGED <<kubeVars, faults, runVars>>

-----------------------------------------------------------------------------
(* Mutant: the errors of the TCP ports are lost.                              *)
TcpErrorsIgnored == failed' = failed

TcpErrors == failed' = (failed \/ cur.tcpFailed)
AddInfo(info) == infos' = infos \cup {info}

IngressInfo ==
    [run |-> run, source |-> cur.name, warned |-> cur.warned,
     as |-> cur.as \cup (IF cur.tcpFailed THEN {} ELSE cur.tcp)]

(* The entry of the Ingress; the names of the TCP ConfigMaps are lost when     *)
(* one of them failed, and no warning tells so.                                *)
FinishIngress ==
    /\ pc = "tcp" /\ cur.albs = {}
    /\ AddInfo(IngressInfo)
    /\ TcpErrors
    /\ cur' = Absent
    /\ Goto("pick")
    /\ UNCHANGED <<kubeVars, faults, todo, alb>>

UpdateStatus ==
    /\ pc = "pick" /\ todo = {}
    /\ \E got, ok \in BOOLEAN :
          /\ Call(ok)
          /\ CreateOrUpdateStatusCm(mode, infos, got, ok)
          /\ failed' = (failed \/ ~ok \/ ~StatusAccepts(mode))
    /\ Goto("exit")
    /\ UNCHANGED <<todo, cur, alb, infos>>

(* Mutant: the result of HandleIngressResources is not looked at.              *)
AfterAnything == IF RecordResources THEN "dump" ELSE "done"

AfterIngresses == IF failed THEN "panicked" ELSE IF RecordResources THEN "dump" ELSE "done"

(* main() panics at any error, before it dumps what was recorded.              *)
Exit ==
    /\ pc = "exit"
    /\ Goto(AfterIngresses)
    /\ UNCHANGED <<kubeVars, faults, runVars>>

Put(files, object) == IF object = Absent THEN files ELSE object

(* DumpYAML overwrites files, and removes none of an earlier run.              *)
DumpIngresses ==
    [dumped EXCEPT !.ingress = [n \in IngressNames |-> Put(@[n], recorded.ingress[n])]]

DumpAll ==
    [DumpIngresses EXCEPT !.tcp = [a \in AlbKeys |-> Put(@[a], recorded.tcp[a])],
                          !.k8sCm = Put(@, recorded.k8sCm),
                          !.testCm = Put(@, recorded.testCm),
                          !.status = Put(@, recorded.status)]

DumpYAML ==
    /\ pc = "dump"
    /\ \/ Call(TRUE) /\ pc' = "done" /\ dumped' = DumpAll
       \/ Call(FALSE) /\ pc' = "panicked" /\ dumped' \in {dumped, DumpIngresses}
    /\ UNCHANGED <<kubeVars, mode, run, runVars>>

-----------------------------------------------------------------------------
Crash ==
    /\ Crashes /\ pc \notin Ended
    /\ Goto("crashed")
    /\ UNCHANGED <<kubeVars, faults, runVars>>

(* A new process: it only finds the cluster and the output directory.          *)
Restart ==
    /\ pc \in Ended /\ run < MaxRuns
    /\ pc' = "start" /\ mode' \in Modes /\ run' = run + 1
    /\ recorded' = EmptyStore /\ readOnly' \in ReadOnlyChoices
    /\ todo' = {} /\ cur' = Absent /\ alb' = NoClaims /\ infos' = {} /\ failed' = FALSE
    /\ UNCHANGED <<cluster, faults, dumped>>

Configure == DeleteStatus \/ ConfigUnreadable \/ NoIksConfig \/ MigrateConfig \/ ConfigStatus

Choose == ListIngresses \/ Skip \/ Reject \/ GetIngressConfigPanic \/ Accept

Create == SplitFails \/ CreateOne \/ Unrenderable

Tcp == \/ MergeALBSpecificData \/ MergeCollides \/ NoTcpPorts \/ TcpConfigUnreadable
       \/ PutTcpPorts \/ EmptyTcpConfigMapPanic

Finish == FinishIngress \/ UpdateStatus \/ Exit \/ DumpYAML

(* What the process does; Crash and Restart happen to it.                       *)
Step == Configure \/ Choose \/ Create \/ Tcp \/ Finish

Stopped == pc \in Ended /\ run = MaxRuns /\ UNCHANGED vars

Next == Step \/ Crash \/ Restart \/ Stopped

Spec == Init /\ [][Next]_vars

(* The process is scheduled until it ends; nothing starts it again.             *)
FairSpec == Spec /\ WF_vars(Step)

=============================================================================
