# A model of the IKS Ingress migration tool

The tool (`src/`, Go) runs once as a Job or on a workstation. It reads the Ingress resources
and the ConfigMap of the old IBM Cloud Ingress controller, converts them for the Kubernetes
Ingress controller, writes the results to the cluster, reports in a status ConfigMap what
became what, and dumps everything as YAML files. It has three modes: `production`, and
`test` / `test-with-private`, that put the results beside the running configuration under test
hosts. It is one thread; what is hard about it is everything around that thread: requests that
fail half way, reads that are stale when they are used, a process that is killed and started
again by the Job in another mode, results of one Ingress that meet those of another, and maps
and slices of Go whose order and sharing the code does not control.

## Inventory

| component | state | operations | interacts with | what is hard | correct when |
|---|---|---|---|---|---|
| `main.go` | what was recorded | delete the status, run the two handlers, dump | both handlers, client | any error panics, before the dump | a run that ends well has missed nothing |
| `utils/kube_client.go` | containers of recorded Ingresses, ConfigMaps, Secrets; the cluster behind it | create-or-update per kind, status update, status deletion | API server | recorded before written; read-only reads the cluster; the status read-modify-write; the mode check | the records agree with the cluster, the status keeps its mode |
| `handlers/configmap_handler.go`, `parsers/configmap_parser.go` | a copy of the k8s ConfigMap | convert the parameters one by one, write the copy back or into a test ConfigMap | client, administrators, the Job | map order, parameters made of two others, a stale copy, a ConfigMap that an earlier pod created, nil data map | the result means what the parameters meant, nobody's edit is lost, a test mode leaves production alone |
| `HandleIngressResources` | errors, entries, subdomain map, claimed TCP ports | skip, reject, accept, create, finish, update status | everything | errors of one Ingress and the others; the results of an earlier run are input now | entries are true and complete, nothing is migrated twice |
| `createSingleIngConfs` | names in use, hosts, TLS secrets of the server resource | split an Ingress, invent names and test hosts | other Ingresses through names and hosts | names collide within and across Ingresses | each location and each server has a resource of its own |
| snippet code of `getIngressConfig` | a map to slices | append lines for App ID, headers, keepalive | Go runtime | map order, shared backing arrays, nested loops | a service gets its own lines, once |
| `ingress_to_configmap_data_handler.go` | TCP ConfigMaps, `albSpecificData` | claim ports, publish them | IKS ConfigMap | collisions, partial failure, stale ConfigMap | no port changes hands or is dropped |
| `LookupSecret`, `UpdateProxySecret` | secrets | search three namespaces, add keys | API server, whoever renews secrets | up to four requests, failures, reference secrets | the meant secret is found, no content is lost |
| `DumpYAML` | output directory | write each container | - | files of earlier runs | the files agree with the cluster |
| `parsers/annotation_*.go` | - | annotations to settings per service, or per server | `getIngressConfig` | several entries for a service, entries for all services, errors and index panics | a location gets what its service was given, and nothing of another one |
| version conversion in `utils/utils.go`, `kube_client.go` | the discovered API version | v1 <-> v1beta1 | API server, templates | path types and ports that have no counterpart, a failed discovery, YAML | route, path type and port survive |
| templates | - | settings to annotations of an Ingress | - | text that YAML reads differently | (what is written is in the two rows above, the layout is not modelled) |
| FAQ, status printing, logging | - | text | - | - | (not modelled) |

The hazards are listed one by one, at their lines, in `PROJECT.json`.

## Modules

`KubeClient` has the state of the API server (`cluster`) and of the containers (`recorded`),
as records of functions from names to objects, and one action per method that writes. An object
is reduced to what the run decides on: an Ingress to who made it and its class, a TCP ConfigMap
to ports and backends, the status to its mode and entries. `ok` says whether the request
succeeded.

`MigrationRun` EXTENDS it with the program: `pc` is the next request. One action is one request
with the computation up to the next one. `Configure` is main's beginning and HandleConfigMap;
`Choose` the head of the loop of HandleIngressResources (`ListIngresses`, `Skip`, `Reject`,
`GetIngressConfigPanic`, `Accept`); `Create` is createIngressResources; `Tcp` is
HandleIngressToCMData (`MergeALBSpecificData`, `PutTcpPorts`, ...); `Finish` the entry, the
status, the decision of main and the dump. `Crash` kills the process between two requests,
`Restart` starts another one in any mode with the cluster and the output directory as they are.
What getIngressConfig makes of an Ingress (its class, ALB ids, ports, the names it is split
into, whether it converts, gives errors or panics, which secrets it needs, whether it renders) is the
constant `Conf`; whether the secrets are there is open; the order of the loop and of map
iterations is nondeterministic.

`PortRegistry` is the abstract specification of the TCP migration: claims that are not taken
over within a run, and a table that only changes to claimed backends and drops nothing.
`MigrationProperties` has the properties, the refinement mapping (`claims <- alb`,
`table <-` the published ConfigMaps) and the inductive invariants. `MCMigration` instantiates it.

`IngressSplit` models getIngressConfig's servers and locations, createSingleIngConfs and
createIngressResources for several Ingresses of a namespace, in detail: names as sequences of
parts between dashes, path characters that a name cannot have, suffixes, hosts, test hosts,
wildcard ids, TLS secrets, the subdomain map, the settings of the annotations, and the way of a
path type and a port through the conversion to v1beta1, the template, YAML and the conversion to
v1, for the API version the client discovered. It refines what `Conf` leaves constant in
`MigrationRun`. `Annotations`, which it EXTENDS, has the parsers as operators from an entry (a
sequence of words, each cut at its "=") to settings, an error or a panic, and GetAnnotationMap and
GetAnnotationSizes over the entries. `Durations` has the two functions that make seconds of a
text. `MCIngressSplit` instantiates them.

`ConfigMapParams` models HandleConfigMap request by request and parameter by parameter: the copy
with its resource version, the loop in any order, the update that another version refuses, the
test ConfigMap that may be there already. `AdminEdit` is an administrator, `Retry` the Job after a
pod that failed, `RunAgain` another Job. A request fails with or without its effect.
`MCConfigMapParams` instantiates it. `MigrationRun` has the same handler as two requests of a run.

`LocationSnippets` models the snippets with Go's slices: a slice is a length and an array, and
`AppendLines` writes in place or copies as the runtime does. `MCLocationSnippets` instantiates it.

`ProxySecrets` models LookupSecret and UpdateProxySecret request by request, with a resource
version per secret, `Renew` for whoever else writes secrets, and failing requests.
`MCProxySecrets` instantiates it.

The theorems are in `MigrationRun_proofs`, `Reruns_proofs`, `Complete_proofs` and `Cluster_proofs`
(about `MigrationRun`, each using the ones before it), `IngressSplit_proofs`,
`LocationSnippets_proofs`, `ConfigMapParams_proofs` and `ProxySecrets_proofs`.

Definitions whose comment starts with "Mutant" are variants with a plausible bug; nothing uses
them. They document which mistake each property would notice.

## Runs

| run | asks | bounds |
|---|---|---|
| `OneRun` | TypeOK, ReportedIsWritten, UnwarnedIsComplete, SuccessIsComplete, SuccessMigratesPorts, DumpIsFaithful, ImplementsRegistry, TestKeepsConfig | four Ingresses (two to migrate, one skipped by name, one by class), two ALBs, two ports, two failing requests, all modes, TCP and k8s ConfigMaps present, empty or absent |
| `Trouble` | ReportedIsWritten, UnwarnedIsComplete, ImplementsRegistry, OthersAreMigrated (liveness) when ports collide, annotations do not convert or make a parser panic, a template fails, an ssl or mutual-auth secret is missing, a TCP ConfigMap has no data | six Ingresses in every order, one failing request, all modes (the one that makes a parser panic is skipped in the test mode, so that the loop can end too) |
| `Reruns` | ReportedIsWritten, UnwarnedIsComplete, NeverMigratedTwice, SuccessIsComplete, SuccessMigratesPorts, StatusStartsEmpty, StatusKeepsMode, ImplementsRegistry | two runs in any modes, each writing or only recording, killed anywhere, two failing requests |
| `Split` | TypeOK, EveryLocationOnce, ServerAgrees, TestHostsDiffer, HostsAreReported, SettingsArrive, RouteKept | one Ingress of two rules with up to three paths each and a default backend in production; two Ingresses, wildcards among their hosts, in the test mode; one Ingress with every annotation in several values (entries for one, both or all services, wrong ones, repeated ones); path types and ports on clusters 1.16, 1.19 and 1.22, discovered or not |
| `Snippets` | TypeOK, SnippetIsOwn, AuthHasSnippet | two services, every combination of six annotations, snippets of up to four lines and all visiting orders |
| `Secrets` | TypeOK, LookupFindsMeant, OnlyTargetsAdded, MismatchIsWarned | three namespaces, one name, two key pairs, three uses, two renewals, one failing request, writing and read-only |
| `Params` | TypeOK, LossIsWarned, ConversionIsMeant, AdminEditsKept, ConflictIsRetried (liveness) | seven IKS ConfigMaps that have every kind of parameter between them, three k8s ConfigMaps, a test ConfigMap or none, one failing request, one edit, two Jobs of two pods each |

Why these bounds are enough. Two Ingresses of one ALB with two ports are the least at which a
port can collide, be shared or be lost, and a third and a fourth Ingress bring the cases that do
not go well. Two faults let a failure meet the failure of its handling (a failed status deletion
and then a failed update). A run depends on the one before through the cluster and the files
only, so two runs show what three would, except for the status of a run before the last one.
Three look-alike locations reach the second suffix. Capacities of Go slices double, so up to four
lines plus 10 or 11 of App ID pass both kinds of append. `Params` has two pods for a Job, 1 + the
backoffLimit of `src/testutils/test/deployment/job.yaml`, and a failure or an edit for each of them;
the second Job meets what the first one left. Symmetry is not used.

Fairness: two runs need it. `FairSpec` of `MigrationRun` (run `Trouble`) adds weak fairness of
`Step`, everything the process does by itself: it is one thread that waits for nothing but answers,
and a request gets one or fails by its timeout. `Restart` has no fairness: nobody promises that the
tool is started again. `FairSpec` of `ConfigMapParams` (run `Params`) has weak fairness of the
process and of `Retry`, since the Job controller does start another pod until the backoffLimit;
`RunAgain` and `AdminEdit` are up to people and have none.

`CHECK_DEADLOCK` is left on: the end of a run is an explicit `Stopped`.

### Where the code and its texts differ

Each of these runs checks one property that a comment or the documentation states, and TLC finds
the code's behaviour against it.

* `LostPorts` - checks `DumpMigratesPorts`: read-only, `CreateOrUpdateTCPPortsCM` (utils.go:208) reads the ConfigMap from the
  cluster where it was never written, so the recorded one has the last Ingress's ports only.
* `SharedNames` - names in use are collected per Ingress (ingress_handler.go:756), so the resources
  of Ingress `a` with service `b-x` and of `a-b` with service `x` overwrite each other.
* `KeepaliveTwice` - the nested loop at ingress_handler.go:435-441 adds every directive once per
  service.
* `SharedSnippet` - all services share one slice (annotation_getter.go:171); appends for one
  overwrite those of another.

* `AllServicesLost` - an entry that names no service, as in `proxy-read-timeout: timeout=5m`, is
  kept under the empty name and looked up by the name of each service (ingress_handler.go:483).

The passing runs are about inputs without these cases: `SuccessMigratesPorts` is checked for
writing clients, names do not meet in `Split`, `SettingsArrive` takes a setting for all services
for none where the code does, `Snippets` has at most one service with keepalive-requests and
shared slices without room.

More limits of the code, which no text of the repository excludes, are kept out of the properties
by a condition or by the inputs:

* every error of a read is taken for a missing secret (utils.go:301): `LookupFindsMeant` says
  `faults = 0`;
* the subdomain map keeps one test host per host (ingress_handler.go:133), and ids of wildcard test
  hosts are counted per Ingress (utils.go:181): the two Ingresses of `Split` have no host in common
  and only one has wildcards;
* the name of the server resource is not among the names in use: no service of `Split` is called
  `server`;
* an Ingress is skipped by the annotation of its class, never by `spec.ingressClassName`;
* a mutual-auth secret that does not exist, whatever the requests do, an annotation that is indexed past
  its end, and a TCP ConfigMap without data make the program panic in the loop (ingress_handler.go:326,
  annotation_parsers.go:533, utils.go:227): the Ingresses behind it are not migrated, in this run or when
  the Job tries again, and there is no status. In the model whether a secret is there is open at each
  Ingress that needs one and costs no failed request. `OthersAreMigrated` says so: an Ingress that needs
  no ssl secret is migrated or has a warning, also when a request fails or others are rejected, unless
  the program panics before the loop or before it got past this Ingress; what it got past is migrated;
* when one Ingress gives an error main() panics before the dump (main.go:86-92): `DumpIsFaithful` is
  about runs that end well;
* the warnings of an Ingress that cannot be converted are dropped, and it gets no entry
  (ingress_handler.go:466);
* the server made for a default backend alone gets no annotations (ingress_handler.go:562):
  `SettingsArrive` says `i.rules # <<>>` of the server;
* a word without "=" in appid-auth and missing values of proxy-buffers are indexed past their end
  and the run panics (`ParserPanic`); `SettingsArrive` is about what was written before;
* a client that does not know the version of the cluster drops path types: `RouteKept` says
  `api.discovered`; and YAML reads a port name like `1e3` as a number;
* `keep-alive: "75"` and `keep-alive: ""` become "0", for digits without a unit are not counted
  (annotation_parsers.go:396): `Params` has durations with units;
* a k8s ConfigMap without data has a nil map, and the first converted parameter panics
  (configmap_handler.go:76): `ConflictIsRetried` asks for one with data;
* `access-log-params` of the k8s ConfigMap stays when the IKS ConfigMap says
  `access-log-buffering: "false"`: `ConversionIsMeant` is about what is set, not about what is unset.

## Proofs

Everything here holds for any number of Ingresses, ALBs, ports, secrets, parameters, faults and
runs. The assumptions are the named ones about the constants in `KubeClient` (modes, names,
`Absent` is no object), `MigrationRun` (the inputs have their types, the bounds are numbers),
`ConfigMapParams`, `ProxySecrets`, `IngressSplit` and `LocationSnippets`, which TLC evaluates in every run.

About a run of the tool, `MigrationRun`:

* `TypeCorrect`: `Spec => []TypeOK`, one step per action, from the types of the stores' updates.
* `ReportsAreTrue`: `Spec => []ReportedIsWritten`. It is not inductive as it stands: an entry takes
  over what was collected in `cur`, the ConfigMap entry what was written a step before, and a run
  that writes finds the status of the cluster after one that only recorded. `ReportInv` adds
  `CurIsWritten`, `ConfigIsWritten` and `ClusterIsTrue`. Each action is split into whether it loses
  anything that was written (`Kept`: no action deletes or empties what the tool wrote; TCP
  ConfigMaps only gain ports) and which entries are new (`EntriesKept`, `CurKept`, `Quiet`).
* `RegistryImplemented` in `Cluster_proofs`: `Spec => ImplementsRegistry`, the refinement, on the TCP ConfigMaps of the
  cluster and for both kinds of client, from `ClaimInv`: at its TCP requests an Ingress holds claims
  on all its ports.
* `Reruns_proofs`: NeverMigratedTwice from `ClassInv` (whatever is in the cluster or listed is of a
  user or has a class that is skipped); StatusStartsEmpty from `FreshInv`; the action properties
  StatusKeepsMode and TestKeepsConfig.
* `Complete_proofs`: UnwarnedIsComplete from `CompleteInv` (the parts that the Ingress at hand still
  waits for are the ones it does not list), and SuccessIsComplete from `SuccessInv`: unless something
  failed, an Ingress is listed, at hand, or done, and what is done stays done.
* `SuccessPublishesPorts` in `Cluster_proofs`: SuccessMigratesPorts. `PortInv` says the same of the
  ports, and they stay because the registry lets nobody take over a claim: the step of the
  refinement, not the code, is what the proof uses (`TableStep`).
* `DumpAgreesWithCluster` in `Cluster_proofs`: DumpIsFaithful from `DumpInv`. Recorded objects and the
  cluster agree on what is listed until a request fails; the error of a TCP ConfigMap is at first
  only known to the Ingress at hand (`TcpFailedStays`).

SuccessIsComplete and SuccessMigratesPorts have the hypothesis `NamesApart`: no two Ingresses give
their parts the same name, and none the name of a user's Ingress. The code does not ensure it, as
the run `SharedNames` shows, and without it a part is overwritten. It speaks of constants only; TLC
evaluates it for the inputs of the runs (`NamesApartAssumption` in `MCMigration`).

About the splitting, `IngressSplit`:

* `TypeCorrect` holds for all Ingresses, also for ones whose resources overwrite each other. `TypeInv`
  adds where in the servers of its Ingress the split is; the lemmas before it say that the servers
  are numbered slots, one for each place of the user's rules (`SlotsOfServer`, `PlaceHasSlot`), and
  what becomes of a configuration on its way to the cluster (`WrittenIs`).
* `LocationsOnce`, `RoutesKept` and `ServersAgree` (EveryLocationOnce, RouteKept, ServerAgrees) come from
  one inductive invariant, `SplitInv`. `NamesInv`: what is in the cluster has a name that its
  Ingress may give, what is still to be written has a new one. `PlacesInv`: the places that are done and
  the resources that are made, in the cluster or waiting, are in a one-to-one correspondence, and
  each resource fits its place. This is what EveryLocationOnce counts in the end, and what makes it
  hold in between: fewer names are used than there are places, so a suffix is free
  (`FewUsed`, `NewName`). `ServerInv`: the hosts and secrets of the server resource are those of the
  locations so far, and for the Ingresses that are finished those in the cluster.
* `TestHosts` and `HostsReported` (TestHostsDiffer, HostsAreReported) add `TestInv`: the subdomain map of
  the Ingress is injective and has the hosts of the servers that were begun. A wildcard gets an id that
  the map does not have (`WildcardIsNew`), by counting.
* `SettingsReach` (SettingsArrive) adds `RightInv`, that what is migrated has well-formed annotations, for
  others are rejected, to the part of `SplitInv` that says which settings the resources were made with. The
  rest is about GetAnnotationMap, for any number of entries: it is a recursive function on the numbers of
  entries read, and the least number after which the map would not have the last entry of some service does
  not exist (`MapIs`, `EntriesAre`), so what a lookup finds is what the last entry of the service says
  (`FoundIsLasting`) and each setting has what is meant (`SettingIsMeant`, `ServerSettingIs`). Each parser
  is shown to put the entry under the service that it names (`NamesService`). The hypothesis
  `All \notin DOMAIN Dashed` is that no service is called "k8-svc-all", the name under which the code keeps
  what is for all of them: settings for all would reach that service.

Their hypothesis `NamesApart(Inputs)` says that no resource can get a name that one of another Ingress, or
the server resource of its own, can get; it is about names and paths, not about what the run does. The
code does not ensure it, and the run `SharedNames` shows what happens without it. `DifferingNamesAreApart`
says when it holds whatever the services and paths are: no service is called "server", and two names of
Ingresses, cut at their dashes, differ in a piece that both have, so none begins with the other
(`NamesDiffer`). This is how a user can tell. TestHosts and HostsReported need `HostsApart(Inputs)` too:
in a test mode no host is in two rules, for the subdomain map has one entry for a host. TLC evaluates all
of them for the inputs of `Split` (`ApartAssumption` in `MCIngressSplit`). The assumptions are
`InputsAssumption`, what the API server lets an Ingress be (a service has a name, which has at least one
piece, and an annotation is a text, here a sequence of entries), and `SuffixesAssumption`, that there are
as many suffixes as an Ingress has locations, since the code counts on.

About the snippets, `LocationSnippets`: `TypeCorrect`, `AuthIsComplete` (AuthHasSnippet) and
`SnippetsAreOwn` (SnippetIsOwn). `SliceInv` says that no two slices share room: when two services read the
same array both slices end where it ends, so the next append to one of them copies. `TextInv`, on top of
it, says which lines each service has before and after its visit in each phase, and `AuthInv` that the
App ID lines of a visited service stay. The hypotheses are `NoSharedRoom` (what the parser gives to all
services fills its array) and, for `SnippetsAreOwn`, `OneRequestKey` (one service at most has
keepalive-requests). The code ensures neither, as the runs `SharedSnippet` and `KeepaliveTwice` show; TLC
evaluates both for the inputs of `Snippets` (`ApartAssumption` in `MCLocationSnippets`).

About the ConfigMap, `ConfigMapParams`: TypeCorrect, and `EditsAreKept`, that is AdminEditsKept,
from an invariant that the copy of the tool differs from the version it was read from only in keys
that parameters are converted to (`CopyAgrees`). An update of that version then changes nothing
else, and one of another version is refused.

`NoSilentLoss` (LossIsWarned) and `ParametersArrive` (ConversionIsMeant) come from `LoopInv`: the results
of the parameters that the loop has visited are in the copy or in the warnings, and nothing else in the
copy has changed. It is kept whatever the order, for no two parameters are converted to the same key
(`ResultKey`, `KeyOnce`), and at the end of the loop the results are what is meant, pair by pair
(`MeantIsResult`, `ResultIsMeant`). What the proof cannot look into is the sum over the pieces of a
duration: `SecondsAgree` says that the texts that parseTimeWithUnits accepts are those that mean something
and that it computes what they mean, which is false of digits without a unit. `NoEmptyKeepAlive` is what the proof
of ConversionIsMeant brought up: an empty keep-alive is no error but becomes "0". TLC evaluates
both for the inputs of `Params` (`MeaningAssumption` in `MCConfigMapParams`).

About the secrets, `ProxySecrets`: TypeCorrect; `SearchIsRight` (LookupFindsMeant) from `SearchInv`,
which says what is known of the namespaces that were asked already although secrets are renewed
meanwhile; `NothingIsLost` (OnlyTargetsAdded) and `DifferencesAreWarned` (MismatchIsWarned) from
`VersionInv`: a copy with the current version is the current content.

Only model-checked: liveness under fairness (`OthersAreMigrated`, `ConflictIsRetried`), which is out of
the prover's reach; and `SecondsAgree`, an induction over the pieces of a duration, which TLC evaluates
for the durations of the run.

## Not modelled

Text: the layout of the templates, FAQ, status printing, logs. The text of modify-headers, the
parsing of tcp-ports entries and of ALB id lists (their results are in `Conf`), the warnings of
annotations that have no counterpart. Backends that are resources and ingressClassName in the API
conversion. The recording of Secrets in the dump, which is that of the other kinds. The length of
names. The file names of the dump: two kinds of one name do not meet in the model. Two concurrent
runs of the tool: the Job runs one pod.

## Plan

What is left, in order:

1. A composition of `IngressSplit` with `MigrationRun`: the constant `Conf` replaced by what the
   splitting computes, so that `NamesApart` is decided by names and paths.
2. `SecondsAgree` for texts of any length, as SettingsArrive was had for any number of entries: by the
   smallest counterexample of a recursive function.
