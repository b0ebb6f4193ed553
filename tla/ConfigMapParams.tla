-------------------------- MODULE ConfigMapParams ---------------------------
(***************************************************************************)
(* HandleConfigMap, parameter by parameter: the ConfigMap of the IKS       *)
(* controller is converted into that of the Kubernetes controller, or, in  *)
(* the test modes, into the one of the test deployment.                    *)
(*                                                                         *)
(* The tool reads both ConfigMaps, changes its copy while it ranges over   *)
(* the parameters in any order, and writes the copy back; an administrator *)
(* may have changed the original by then.  Requests fail, with or without  *)
(* having had their effect, the tool panics then, and the Job starts it    *)
(* again.  The client is one that writes; MigrationRun has the other one.  *)
(*                                                                         *)
(* The value of a parameter is a sequence of words, <<>> the empty text;   *)
(* the ones the parsers put together have more than one word.              *)
(***************************************************************************)
EXTENDS Durations, FiniteSets
LOCAL INSTANCE TLC
LOCAL INSTANCE SequencesExt

CONSTANTS
    IksCms,     \* possible data of ibm-cloud-provider-ingress-cm
    K8sCms,     \* possible data of ibm-k8s-controller-config
    TestCms,    \* possible ConfigMaps of the test deployment
    Edits,      \* [key, value] an administrator may set
    Lasting,    \* what a duration means, in seconds
    MaxFaults, MaxEdits,
    MaxRuns,    \* 1 + the backoffLimit of the Job
    MaxJobs,    \* Jobs that are started one after another
    Absent

ASSUME BoundsAssumption ==
    MaxFaults \in Nat /\ MaxEdits \in Nat /\ MaxRuns \in Nat \ {0} /\ MaxJobs \in Nat \ {0}

(* The data of a ConfigMap, and a ConfigMap with its resource version.      *)
IsData(d) == d = [k \in DOMAIN d |-> d[k]]

IsVersioned(c) == /\ c = [data |-> c.data, version |-> c.version]
                  /\ IsData(c.data) /\ c.version \in Nat

ASSUME DataAssumption == \A d \in IksCms \cup K8sCms \cup TestCms : IsData(d)

(* The data of a ConfigMap are texts.                                       *)
ASSUME TextAssumption == \A d \in IksCms : \A k \in DOMAIN d : d[k] \in Seq(STRING)

(* parseTimeWithUnits computes what the durations mean: a text that it reads *)
(* ends with a unit.                                                         *)
SecondsAgree ==
    /\ DOMAIN Lasting = {t \in DOMAIN Pieces : ValidTime(t)}
    /\ \A t \in DOMAIN Lasting : Lasting[t] = TimeWithUnits(t)

(* An empty keep-alive, that means nothing, is converted into 0.             *)
NoEmptyKeepAlive ==
    \A d \in IksCms : "keep-alive" \in DOMAIN d => d["keep-alive"] # <<>>

VARIABLES
    k8s,        \* ibm-k8s-controller-config: [data, version], or Absent
    iks,        \* data of ibm-cloud-provider-ingress-cm, or Absent
    test,       \* data of the test ConfigMap, or Absent
    mode, pc,
    cm,         \* k8sCm: the copy that was read, with its version
    params,     \* iksCm.Data
    todo,       \* the parameters that are not yet visited
    warnings,   \* migrationInfo.Warnings
    faults, edits, run, job

cluster == <<k8s, iks, test>>
local == <<cm, params, todo, warnings>>
bounds == <<edits, run, job>>
vars == <<cluster, mode, pc, local, faults, bounds>>

TestModes == {"test", "test-with-private"}
Modes == TestModes \cup {"production"}

-----------------------------------------------------------------------------
(* handleConfigMapData: what becomes of one parameter.                      *)
Ignored == {"public-ports", "private-ports", "vts-status-zone-size",
            "ingress-resource-creation-rate", "ingress-resource-timeout"}

NoWarning == ""

Nothing == [key |-> "", value |-> <<>>, warning |-> NoWarning]
As(key, value) == [key |-> key, value |-> value, warning |-> NoWarning]
Warn(text) == [key |-> "", value |-> <<>>, warning |-> text]

(* Parameters that keep their value, and the names they get.                *)
Renamed(key) ==
    CASE key = "server-names-hash-bucket-size" -> "server-name-hash-bucket-size"
      [] key = "server-names-hash-max-size" -> "server-name-hash-max-size"
      [] OTHER -> key

Copied == {"ssl-ciphers", "ssl-protocols", "keep-alive-requests",
           "server-names-hash-bucket-size", "server-names-hash-max-size"}

Itoa(number) == <<ToString(number)>>

ParseKeepAlive(value) ==
    IF value = <<>> THEN As("keep-alive", Itoa(0))
    ELSE IF Len(value) = 1 /\ ValidTime(value[1])
         THEN As("keep-alive", Itoa(TimeWithUnits(value[1])))
         ELSE Warn("failed to process")

Setting(word, key, ps) ==
    IF key \in DOMAIN ps /\ ps[key] # <<>> THEN <<word>> \o ps[key] ELSE <<>>

(* parseAccessLogBuffering reads the two parameters it goes with.           *)
ParseAccessLogBuffering(value, ps) ==
    LET parts == Setting("buffer", "buffer-size", ps)
                     \o Setting("flush", "flush-interval", ps)
    IN  IF value = <<"true">> /\ parts # <<>> THEN As("access-log-params", parts) ELSE Nothing

(* Mutant: they set their part themselves.                                  *)
ParseAccessLogPartAlone(key, value) ==
    As("access-log-params", <<IF key = "buffer-size" THEN "buffer" ELSE "flush">> \o value)

(* buffer-size and flush-interval have parsers that return nothing.         *)
ParseAccessLogPart(key, value) == Nothing

HandleConfigMapData(key, value, ps) ==
    CASE key \in Ignored -> Nothing
      [] key \in Copied -> As(Renamed(key), value)
      [] key = "keep-alive" -> ParseKeepAlive(value)
      [] key = "access-log-buffering" -> ParseAccessLogBuffering(value, ps)
      [] key \in {"buffer-size", "flush-interval"} -> ParseAccessLogPart(key, value)
      [] key = "ssl-dhparam-file" -> Warn("cannot be migrated")
      [] OTHER -> Warn("could not be migrated")

Changes(c) == c.key # "" /\ c.value # <<>>

Put(data, key, value) ==
    [k \in DOMAIN data \cup {key} |-> IF k = key THEN value ELSE data[k]]

(* Mutant: only parameters that a parser refuses are warned of.             *)
WarnedOfErrors(key, c) ==
    IF c.warning = "failed to process" THEN {<<key, c.warning>>} ELSE {}

Warned(key, c) == IF c.warning = NoWarning THEN {} ELSE {<<key, c.warning>>}

-----------------------------------------------------------------------------
Init ==
    /\ k8s \in {Absent} \cup [data : K8sCms, version : {0}]
    /\ iks \in {Absent} \cup IksCms
    /\ test \in {Absent} \cup TestCms
    /\ mode \in Modes
    /\ pc = "readK8s"
    /\ cm = Absent /\ params = Absent /\ todo = {} /\ warnings = {}
    /\ faults = 0 /\ edits = 0 /\ run = 1 /\ job = 1

Panic == pc' = "panicked" /\ UNCHANGED <<mode, local, bounds>>

Fault == faults < MaxFaults /\ faults' = faults + 1

GetK8sConfigMap ==
    /\ pc = "readK8s"
    /\ UNCHANGED cluster
    /\ \/ /\ k8s # Absent
          /\ cm' = k8s /\ pc' = "readIks"
          /\ UNCHANGED <<mode, params, todo, warnings, faults, bounds>>
       \/ k8s = Absent /\ Panic /\ UNCHANGED faults
       \/ Fault /\ Panic

(* Mutant: the handler goes on with what the failed request returned.        *)
NoIksConfigMapIgnored == "convert"

(* Without a ConfigMap of the IKS controller there is nothing to do.         *)
NoIksConfigMap == "skipped"

GetIksConfigMap ==
    /\ pc = "readIks"
    /\ UNCHANGED cluster
    /\ \/ /\ iks # Absent
          /\ params' = iks /\ todo' = DOMAIN iks /\ warnings' = {} /\ pc' = "convert"
          /\ UNCHANGED <<mode, cm, faults, bounds>>
       \/ iks = Absent /\ pc' = NoIksConfigMap /\ UNCHANGED <<mode, local, faults, bounds>>
       \/ Fault /\ Panic

(* One turn of the loop.  The data of a ConfigMap without any are a nil map, *)
(* and the assignment to it panics.                                          *)
Convert(key) ==
    LET c == HandleConfigMapData(key, params[key], params)
    IN  /\ pc = "convert" /\ key \in todo
        /\ todo' = todo \ {key}
        /\ warnings' = warnings \cup Warned(key, c)
        /\ \/ ~Changes(c) /\ UNCHANGED <<cm, pc>>
           \/ /\ Changes(c) /\ DOMAIN cm.data # {}
              /\ cm' = [cm EXCEPT !.data = Put(cm.data, c.key, c.value)]
              /\ UNCHANGED pc
           \/ /\ Changes(c) /\ DOMAIN cm.data = {}
              /\ pc' = "panicked" /\ UNCHANGED cm
        /\ UNCHANGED <<cluster, mode, params, faults, bounds>>

EndConvert ==
    /\ pc = "convert" /\ todo = {}
    /\ pc' = IF mode \in TestModes THEN "create" ELSE "update"
    /\ UNCHANGED <<cluster, mode, local, faults, bounds>>

-----------------------------------------------------------------------------
(* A request that writes: it is refused, fails before or after its effect,   *)
(* or succeeds.                                                              *)
Request(accepted, effect, next) ==
    \/ accepted /\ effect /\ pc' = next /\ UNCHANGED <<mode, local, faults, bounds>>
    \/ accepted /\ effect /\ Fault /\ Panic
    \/ UNCHANGED cluster /\ Fault /\ Panic

Refused(next) == UNCHANGED <<cluster, mode, local, faults, bounds>> /\ pc' = next

(* Mutant: the copy is written as one that has no version.                   *)
AnyVersion == TRUE

(* The API server refuses an update of another version than it has.          *)
SameVersion == k8s.version = cm.version

UpdateK8sConfigMap ==
    /\ pc = "update"
    /\ \/ Request(SameVersion,
                  /\ k8s' = [data |-> cm.data, version |-> k8s.version + 1]
                  /\ UNCHANGED <<iks, test>>,
                  "status")
       \/ ~SameVersion /\ Refused("panicked")

(* Mutant: an existing ConfigMap is an error like the others.                *)
AlreadyExistsIsFailure == "panicked"

(* An existing ConfigMap is updated; any other error ends the run.           *)
AlreadyExists == "replace"

CreateTestConfigMap ==
    /\ pc = "create"
    /\ \/ Request(test = Absent, test' = cm.data /\ UNCHANGED <<k8s, iks>>, "status")
       \/ test # Absent /\ Refused(AlreadyExists)

(* This update carries no version.                                           *)
UpdateTestConfigMap ==
    /\ pc = "replace"
    /\ \/ Request(test # Absent, test' = cm.data /\ UNCHANGED <<k8s, iks>>, "status")
       \/ test = Absent /\ Refused("panicked")

ReportStatus ==
    /\ pc = "status"
    /\ Request(TRUE, UNCHANGED cluster, "done")

Step ==
    \/ GetK8sConfigMap
    \/ GetIksConfigMap
    \/ \E key \in todo : Convert(key)
    \/ EndConvert
    \/ UpdateK8sConfigMap
    \/ CreateTestConfigMap
    \/ UpdateTestConfigMap
    \/ ReportStatus

-----------------------------------------------------------------------------
Ended == {"done", "skipped", "panicked"}

Start(m) ==
    /\ mode' = m /\ pc' = "readK8s"
    /\ cm' = Absent /\ params' = Absent /\ todo' = {} /\ warnings' = {}
    /\ UNCHANGED <<cluster, faults, edits>>

(* The Job starts another pod for one that failed, up to its limit.          *)
Retry ==
    /\ pc = "panicked" /\ run < MaxRuns
    /\ Start(mode)
    /\ run' = run + 1 /\ UNCHANGED job

(* The user runs the tool again, in any mode.                                *)
RunAgain ==
    /\ job < MaxJobs
    /\ pc \in {"done", "skipped"} \/ (pc = "panicked" /\ run = MaxRuns)
    /\ \E m \in Modes : Start(m)
    /\ run' = 1 /\ job' = job + 1

AdminEdit ==
    /\ edits < MaxEdits /\ edits' = edits + 1
    /\ \/ /\ k8s # Absent
          /\ \E e \in Edits : k8s' = [data |-> Put(k8s.data, e.key, e.value),
                                      version |-> k8s.version + 1]
          /\ UNCHANGED <<iks, test>>
       \/ test # Absent /\ test' = Absent /\ UNCHANGED <<k8s, iks>>
    /\ UNCHANGED <<mode, pc, local, faults, run, job>>

Stopped ==
    /\ pc \in Ended /\ job = MaxJobs /\ (pc = "panicked" => run = MaxRuns)
    /\ UNCHANGED vars

Next == Step \/ Retry \/ RunAgain \/ AdminEdit \/ Stopped

Spec == Init /\ [][Next]_vars

(* The process goes on while it runs, and the Job starts failed ones again.  *)
FairSpec == Spec /\ WF_vars(Step) /\ WF_vars(Retry)

-----------------------------------------------------------------------------
Locations == {"readK8s", "readIks", "convert", "create", "replace", "update", "status"}

(* The variables have their types.  From the first read on the tool has a    *)
(* copy of a ConfigMap that exists, not newer than it, and it only visits    *)
(* parameters that it has read: configmap_handler.go:43-79.                  *)
TypeOK ==
    /\ k8s = Absent \/ IsVersioned(k8s)
    /\ iks = Absent \/ IsData(iks)
    /\ test = Absent \/ IsData(test)
    /\ mode \in Modes /\ pc \in Locations \cup Ended
    /\ pc \in Locations \ {"readK8s"} =>
          IsVersioned(k8s) /\ IsVersioned(cm) /\ cm.version <= k8s.version
    /\ pc \in Locations \ {"readK8s", "readIks"} =>
          params # Absent /\ IsData(params) /\ todo \subseteq DOMAIN params
    /\ faults \in 0..MaxFaults /\ edits \in 0..MaxEdits
    /\ run \in 1..MaxRuns /\ job \in 1..MaxJobs

(* The parameters that are copied, and what they are called afterwards.      *)
KeptAs == {[from |-> "ssl-ciphers", to |-> "ssl-ciphers"],
           [from |-> "ssl-protocols", to |-> "ssl-protocols"],
           [from |-> "keep-alive-requests", to |-> "keep-alive-requests"],
           [from |-> "server-names-hash-bucket-size", to |-> "server-name-hash-bucket-size"],
           [from |-> "server-names-hash-max-size", to |-> "server-name-hash-max-size"]}

(* What the parameters mean, each by itself: pairs of a key and its value.   *)
MeantPairs(ps) ==
    LET has(p) == p \in DOMAIN ps /\ ps[p] # <<>>
        kept == {name \in KeptAs : has(name.from)}
        lasts == {t \in DOMAIN Lasting : has("keep-alive") /\ ps["keep-alive"] = <<t>>}
        part(p, word) == IF has(p) THEN <<word>> \o ps[p] ELSE <<>>
        logs == IF has("access-log-buffering") /\ ps["access-log-buffering"] = <<"true">>
                THEN part("buffer-size", "buffer") \o part("flush-interval", "flush") ELSE <<>>
    IN  {<<name.to, ps[name.from]>> : name \in kept}
          \cup {<<"keep-alive", Itoa(Lasting[t])>> : t \in lasts}
          \cup (IF logs = <<>> THEN {} ELSE {<<"access-log-params", logs>>})

Meant(data, ps) ==
    LET new == MeantPairs(ps)
        keys == {pair[1] : pair \in new}
    IN  [k \in DOMAIN data \cup keys |->
            IF k \in keys THEN (CHOOSE pair \in new : pair[1] = k)[2] ELSE data[k]]

Wrote == /\ pc \in {"update", "create", "replace"} /\ edits' = edits
         /\ pc' = "status" \/ cluster' # cluster

Target == IF mode = "production" THEN k8s.data ELSE test

(* Whatever the order of the loop, what is written is what the parameters    *)
(* mean, over what the ConfigMap had when it was read: the parameters that   *)
(* are made of two others get both parts, and nothing else changes.          *)
ConversionIsMeant ==
    [][Wrote /\ k8s.version = cm.version => Target' = Meant(k8s.data, params)]_vars

(* The keys that a parameter of the IKS ConfigMap may be converted to.       *)
Targets(ps) == {HandleConfigMapData(p, ps[p], ps).key : p \in DOMAIN ps}

SameOutside(keys, d, e) ==
    /\ DOMAIN d \ keys = DOMAIN e \ keys
    /\ \A k \in DOMAIN d \ keys : d[k] = e[k]

(* The tool never changes a key of the ConfigMap of the controllers that no  *)
(* parameter is converted to, also when an administrator changes it while    *)
(* the tool works on its copy (configmap_handler.go:43 to 103).              *)
AdminEditsKept ==
    [][k8s' # k8s /\ edits' = edits => SameOutside(Targets(params), k8s.data, k8s'.data)]_vars

(* What would not be meant without the parameter p.                          *)
Contribution(p) ==
    MeantPairs(params) \ MeantPairs([q \in DOMAIN params \ {p} |-> params[q]])

(* They mean nothing unless access-log-buffering is on and has a part.       *)
LogParts == {"access-log-buffering", "buffer-size", "flush-interval"}

(* A parameter that has an effect is in what is written or in a warning      *)
(* (src/README.md:66), also one that is only half of an nginx directive, and *)
(* a parameter that means nothing to the tool is warned of.                  *)
LossIsWarned ==
    pc = "status" =>
        \A p \in DOMAIN params \ Ignored :
            \/ params[p] = <<>>
            \/ \E w \in warnings : w[1] = p
            \/ /\ Contribution(p) # {} \/ p \in LogParts
               /\ Contribution(p) \subseteq {<<k, cm.data[k]>> : k \in DOMAIN cm.data}

(* Unless every pod of the Job is disturbed, the Job gets the ConfigMap      *)
(* migrated: a conflict, a failed request or a ConfigMap that a pod before   *)
(* has created does not keep the next pod from it.  A missing ConfigMap and  *)
(* one without data do.                                                      *)
ConflictIsRetried ==
    (pc = "readK8s" /\ run = 1 /\ k8s # Absent /\ DOMAIN k8s.data # {})
        ~> (pc \in {"done", "skipped"} \/ faults + edits >= MaxRuns)
=============================================================================
