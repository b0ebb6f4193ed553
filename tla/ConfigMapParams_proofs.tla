----------------------- MODULE ConfigMapParams_proofs -----------------------
(***************************************************************************)
(* ConfigMapParams for every instance: its types, that the tool never      *)
(* overwrites a key of the ConfigMap that no parameter is converted to,    *)
(* and that what it writes is what the parameters mean.                    *)
(***************************************************************************)
EXTENDS ConfigMapParams, TLAPS

(* A value put under a key gives data again.                                *)
LEMMA PutData ==
    ASSUME NEW data, NEW key, NEW value
    PROVE  IsData(Put(data, key, value))
  BY DEF IsData, Put

(* It changes that key only.                                                *)
LEMMA PutOutside ==
    ASSUME NEW data, NEW key, NEW value, NEW keys, key \in keys
    PROVE  SameOutside(keys, data, Put(data, key, value))
  BY DEF Put, SameOutside

(* Data that agree with the same data agree.                                *)
LEMMA SameOutsideTransitive ==
    ASSUME NEW keys, NEW d, NEW e, NEW f,
           SameOutside(keys, d, e), SameOutside(keys, e, f)
    PROVE  SameOutside(keys, d, f)
  BY DEF SameOutside

-----------------------------------------------------------------------------
(* One lemma for each group of actions that keep the types.                 *)
LEMMA InitType == Init => TypeOK
  BY BoundsAssumption, DataAssumption
     DEF Init, TypeOK, IsVersioned, Locations, Ended, Modes

(* The reads, that give the tool its copies.                                *)
LEMMA ReadType ==
    ASSUME TypeOK, GetK8sConfigMap \/ GetIksConfigMap
    PROVE  TypeOK'
  <1>1. CASE GetK8sConfigMap
    BY <1>1, BoundsAssumption
       DEF TypeOK, GetK8sConfigMap, Panic, Fault, cluster, local, bounds, Locations, Ended,
           IsVersioned
  <1>2. CASE GetIksConfigMap
    BY <1>2, BoundsAssumption
       DEF TypeOK, GetIksConfigMap, NoIksConfigMap, Panic, Fault, cluster, local, bounds,
           Locations, Ended
  <1> QED BY <1>1, <1>2

(* The loop, that changes the copy.                                         *)
LEMMA ConvertType ==
    ASSUME TypeOK, NEW key \in todo, Convert(key)
    PROVE  TypeOK'
  <1> DEFINE c == HandleConfigMapData(key, params[key], params)
  <1>1. IsVersioned(cm) /\ pc = "convert"
    BY DEF Convert, TypeOK, Locations
  <1>2. IsData(Put(cm.data, c.key, c.value))
    BY PutData
  <1> HIDE DEF c
  <1>3. IsVersioned([cm EXCEPT !.data = Put(cm.data, c.key, c.value)])
    BY <1>1, <1>2 DEF IsVersioned
  <1>4. [cm EXCEPT !.data = Put(cm.data, c.key, c.value)].version = cm.version
    BY <1>1 DEF IsVersioned
  <1>5. /\ cm' = cm \/ cm' = [cm EXCEPT !.data = Put(cm.data, c.key, c.value)]
        /\ pc' \in {"convert", "panicked"} /\ todo' \subseteq todo
        /\ UNCHANGED <<cluster, mode, params, faults, bounds>>
    BY <1>1 DEF Convert, c
  <1> QED BY <1>1, <1>3, <1>4, <1>5 DEF TypeOK, cluster, bounds, Locations, Ended

(* The writes.                                                              *)
LEMMA WriteType ==
    ASSUME TypeOK,
           EndConvert \/ UpdateK8sConfigMap \/ CreateTestConfigMap \/ UpdateTestConfigMap
             \/ ReportStatus
    PROVE  TypeOK'
  <1> USE BoundsAssumption DEF cluster, local, bounds, Locations, Ended
  <1>1. CASE EndConvert
    BY <1>1 DEF TypeOK, EndConvert
  <1>2. CASE UpdateK8sConfigMap
    BY <1>2 DEF TypeOK, UpdateK8sConfigMap, Request, Refused, Panic, Fault, IsVersioned
  <1>3. CASE CreateTestConfigMap
    BY <1>3 DEF TypeOK, CreateTestConfigMap, AlreadyExists, Request, Refused, Panic, Fault,
                IsVersioned
  <1>4. CASE UpdateTestConfigMap
    BY <1>4 DEF TypeOK, UpdateTestConfigMap, Request, Refused, Panic, Fault, IsVersioned
  <1>5. CASE ReportStatus
    BY <1>5 DEF TypeOK, ReportStatus, Request, Panic, Fault
  <1> QED BY <1>1, <1>2, <1>3, <1>4, <1>5

(* What happens around the process.                                         *)
LEMMA OutsideType ==
    ASSUME TypeOK, Retry \/ RunAgain \/ AdminEdit
    PROVE  TypeOK'
  <1> USE BoundsAssumption DEF cluster, local, bounds, Locations, Ended, Start
  <1>1. CASE Retry
    BY <1>1 DEF TypeOK, Retry
  <1>2. CASE RunAgain
    BY <1>2 DEF TypeOK, RunAgain
  <1>3. CASE AdminEdit
    <2>1. CASE UNCHANGED k8s
      BY <1>3, <2>1 DEF TypeOK, AdminEdit
    <2>2. CASE \E e \in Edits : /\ k8s # Absent
                                /\ k8s' = [data |-> Put(k8s.data, e.key, e.value),
                                           version |-> k8s.version + 1]
      <3>1. PICK e \in Edits : /\ k8s # Absent
                               /\ k8s' = [data |-> Put(k8s.data, e.key, e.value),
                                          version |-> k8s.version + 1]
        BY <2>2
      <3>2. IsData(Put(k8s.data, e.key, e.value))
        BY PutData
      <3>3. IsVersioned(k8s') /\ k8s'.version = k8s.version + 1
        BY <3>1, <3>2 DEF TypeOK, IsVersioned
      <3> QED BY <1>3, <3>1, <3>3 DEF TypeOK, AdminEdit, IsVersioned
    <2> QED BY <1>3, <2>1, <2>2 DEF AdminEdit
  <1> QED BY <1>1, <1>2, <1>3

(* Every step keeps the types.                                              *)
LEMMA TypeStep == TypeOK /\ [Next]_vars => TypeOK'
  <1> SUFFICES ASSUME TypeOK, [Next]_vars PROVE TypeOK'
    OBVIOUS
  <1>1. CASE UNCHANGED vars
    BY <1>1 DEF TypeOK, vars, cluster, local, bounds
  <1>2. CASE Stopped
    BY <1>1, <1>2 DEF Stopped
  <1> QED BY <1>1, <1>2, ReadType, ConvertType, WriteType, OutsideType DEF Next, Step

(* Type correctness of HandleConfigMap: once read, the copy belongs to a    *)
(* ConfigMap that exists and is not newer than it, and the loop only visits *)
(* parameters that were read.                                               *)
THEOREM TypeCorrect == Spec => []TypeOK
  BY InitType, TypeStep, PTL DEF Spec

-----------------------------------------------------------------------------
(* As long as nobody else has written the ConfigMap, the copy differs from  *)
(* it only where a parameter is converted to.                               *)
CopyAgrees ==
    (pc \in Locations \ {"readK8s"} /\ k8s.version = cm.version) =>
        SameOutside(IF pc = "readIks" THEN {} ELSE Targets(params), k8s.data, cm.data)

IInv == TypeOK /\ CopyAgrees

(* The reads give a copy that agrees.                                       *)
LEMMA ReadAgrees ==
    ASSUME IInv, GetK8sConfigMap \/ GetIksConfigMap
    PROVE  CopyAgrees'
  <1>1. CASE GetK8sConfigMap
    BY <1>1 DEF GetK8sConfigMap, CopyAgrees, SameOutside, Panic, local, cluster, Locations
  <1>2. CASE GetIksConfigMap
    BY <1>2 DEF IInv, GetIksConfigMap, NoIksConfigMap, CopyAgrees, SameOutside, Panic, local,
                cluster, Locations
  <1> QED BY <1>1, <1>2

(* The loop changes targets only.                                           *)
LEMMA ConvertAgrees ==
    ASSUME IInv, NEW key \in todo, Convert(key)
    PROVE  CopyAgrees'
  <1> DEFINE c == HandleConfigMapData(key, params[key], params)
             new == [cm EXCEPT !.data = Put(cm.data, c.key, c.value)]
  <1>1. key \in DOMAIN params /\ IsVersioned(cm) /\ pc = "convert"
    BY DEF Convert, IInv, TypeOK, Locations
  <1>2. c.key \in Targets(params)
    BY <1>1 DEF Targets
  <1>3. SameOutside(Targets(params), cm.data, Put(cm.data, c.key, c.value))
    BY <1>2, PutOutside
  <1>4. new.data = Put(cm.data, c.key, c.value) /\ new.version = cm.version
    BY <1>1 DEF IsVersioned
  <1>5. /\ cm' = cm \/ cm' = new
        /\ pc' \in {"convert", "panicked"}
        /\ UNCHANGED <<k8s, params>>
    BY <1>1 DEF Convert, cluster
  <1> HIDE DEF c, new
  <1>6. SUFFICES ASSUME pc' = "convert", k8s.version = cm'.version
                 PROVE  SameOutside(Targets(params), k8s.data, cm'.data)
    BY <1>5 DEF CopyAgrees, Locations
  <1>7. SameOutside(Targets(params), k8s.data, cm.data)
    BY <1>1, <1>4, <1>5, <1>6 DEF IInv, CopyAgrees, Locations
  <1>8. cm'.data = cm.data \/ cm'.data = Put(cm.data, c.key, c.value)
    BY <1>4, <1>5
  <1> QED BY <1>3, <1>7, <1>8, SameOutsideTransitive

(* A write of the ConfigMap gives it another version.                       *)
LEMMA WriteAgrees ==
    ASSUME IInv,
           EndConvert \/ UpdateK8sConfigMap \/ CreateTestConfigMap \/ UpdateTestConfigMap
             \/ ReportStatus
    PROVE  CopyAgrees'
  <1> USE DEF IInv, CopyAgrees, cluster, local, Locations, Request, Refused, Panic
  <1>1. CASE EndConvert
    BY <1>1 DEF EndConvert
  <1>2. CASE UpdateK8sConfigMap
    <2>1. cm.version \in Nat /\ cm.version # k8s.version + 1
      BY <1>2 DEF UpdateK8sConfigMap, TypeOK, IsVersioned
    <2> QED BY <1>2, <2>1 DEF UpdateK8sConfigMap
  <1>3. CASE CreateTestConfigMap
    BY <1>3 DEF CreateTestConfigMap, AlreadyExists
  <1>4. CASE UpdateTestConfigMap
    BY <1>4 DEF UpdateTestConfigMap
  <1>5. CASE ReportStatus
    BY <1>5 DEF ReportStatus
  <1> QED BY <1>1, <1>2, <1>3, <1>4, <1>5

(* So does an edit of an administrator.                                     *)
LEMMA OutsideAgrees ==
    ASSUME IInv, Retry \/ RunAgain \/ AdminEdit
    PROVE  CopyAgrees'
  <1> USE DEF CopyAgrees, cluster, local, Locations
  <1>1. CASE Retry \/ RunAgain
    BY <1>1 DEF Retry, RunAgain, Start
  <1>2. CASE AdminEdit
    <2>1. CASE UNCHANGED k8s
      BY <1>2, <2>1 DEF AdminEdit, IInv
    <2>2. CASE k8s'.version = k8s.version + 1
      BY <1>2, <2>2 DEF AdminEdit, IInv, TypeOK, IsVersioned
    <2> QED BY <1>2, <2>1, <2>2 DEF AdminEdit
  <1> QED BY <1>1, <1>2

(* The invariant is inductive.                                              *)
LEMMA Agreement == Spec => []IInv
  <1>1. Init => IInv
    BY InitType DEF Init, IInv, CopyAgrees, Locations
  <1>2. IInv /\ [Next]_vars => IInv'
    <2> SUFFICES ASSUME IInv, [Next]_vars PROVE CopyAgrees'
      BY TypeStep DEF IInv
    <2>1. CASE UNCHANGED vars
      BY <2>1 DEF IInv, CopyAgrees, vars, cluster, local
    <2>2. CASE Stopped
      BY <2>1, <2>2 DEF Stopped
    <2> QED BY <2>1, <2>2, ReadAgrees, ConvertAgrees, WriteAgrees, OutsideAgrees DEF Next, Step
  <1> QED BY <1>1, <1>2, PTL DEF Spec

(* One step of the tool keeps the keys that no parameter is converted to.   *)
LEMMA StepKeepsEdits ==
    ASSUME IInv, [Next]_vars, k8s' # k8s, edits' = edits
    PROVE  SameOutside(Targets(params), k8s.data, k8s'.data)
  <1>1. ~AdminEdit
    BY DEF AdminEdit, IInv, TypeOK
  <1>2. UpdateK8sConfigMap
    BY <1>1 DEF Next, Step, vars, cluster, GetK8sConfigMap, GetIksConfigMap, Convert, EndConvert,
            CreateTestConfigMap, UpdateTestConfigMap, ReportStatus, Request, Refused, Retry,
            RunAgain, Start, Stopped
  <1>3. /\ pc = "update" /\ k8s.version = cm.version
        /\ k8s' = [data |-> cm.data, version |-> k8s.version + 1]
    BY <1>2 DEF UpdateK8sConfigMap, SameVersion, Request, Refused, cluster
  <1>4. IsVersioned(k8s)
    BY <1>3 DEF IInv, TypeOK, Locations
  <1>5. SameOutside(Targets(params), k8s.data, cm.data)
    BY <1>3 DEF IInv, CopyAgrees, Locations
  <1> QED BY <1>3, <1>4, <1>5

(* For all ConfigMaps and any edits at any time: what an administrator has  *)
(* in the ConfigMap stays, except under the keys that the parameters are    *)
(* converted to.                                                            *)
THEOREM EditsAreKept == Spec => AdminEditsKept
  <1>1. IInv /\ [Next]_vars
          => (k8s' # k8s /\ edits' = edits
                => SameOutside(Targets(params), k8s.data, k8s'.data))
    BY StepKeepsEdits
  <1> QED BY <1>1, Agreement, PTL DEF Spec, AdminEditsKept

-----------------------------------------------------------------------------
(* The parameters that are converted, and the key that each gives.          *)
Converted == Copied \cup {"keep-alive", "access-log-buffering"}

KeyOf(p) == IF p = "access-log-buffering" THEN "access-log-params" ELSE Renamed(p)

Result(ps, p) == HandleConfigMapData(p, ps[p], ps)

(* The keys that the parameters of a set have changed.                      *)
Written(ps, done) == {Result(ps, p).key : p \in {q \in done : Changes(Result(ps, q))}}

(* What the loop has done so far: the results of the parameters it has      *)
(* visited are in the copy or in the warnings, and as long as nobody else   *)
(* has written the ConfigMap, the copy is the same for the other keys.      *)
LoopInv ==
    /\ iks = Absent \/ iks \in IksCms
    /\ pc \in {"update", "create", "replace", "status"} => todo = {}
    /\ pc = "update" => mode = "production"
    /\ pc \in {"create", "replace"} => mode # "production"
    /\ (pc = "readIks" /\ k8s.version = cm.version) => cm.data = k8s.data
    /\ pc \in Locations \ {"readK8s", "readIks"} =>
          /\ params \in IksCms
          /\ \A p \in DOMAIN params \ todo :
                /\ Warned(p, Result(params, p)) \subseteq warnings
                /\ Changes(Result(params, p)) =>
                      /\ Result(params, p).key \in DOMAIN cm.data
                      /\ cm.data[Result(params, p).key] = Result(params, p).value
          /\ k8s.version = cm.version =>
                SameOutside(Written(params, DOMAIN params \ todo), k8s.data, cm.data)

CInv == TypeOK /\ LoopInv

(* Texts are put together from texts.                                       *)
IsTexts(ps) == IsData(ps) /\ \A k \in DOMAIN ps : ps[k] \in Seq(STRING)

(* A parameter that changes the copy does so under the key of its own.      *)
LEMMA ResultKey ==
    ASSUME NEW ps, NEW p, Changes(Result(ps, p))
    PROVE  p \in Converted /\ Result(ps, p).key = KeyOf(p)
  <1>1. CASE p \in Copied
    BY <1>1 DEF Result, HandleConfigMapData, Ignored, Copied, As, KeyOf, Converted
  <1>2. CASE p = "keep-alive"
    BY <1>2 DEF Result, HandleConfigMapData, Ignored, Copied, As, KeyOf, Renamed, Converted,
                ParseKeepAlive, Changes, Warn
  <1>3. CASE p = "access-log-buffering"
    BY <1>3 DEF Result, HandleConfigMapData, Ignored, Copied, As, KeyOf, Converted,
                ParseAccessLogBuffering, Changes, Nothing
  <1>4. CASE p \notin Converted
    BY <1>4 DEF Result, HandleConfigMapData, Converted, Changes, Nothing, Warn,
                ParseAccessLogPart
  <1> QED BY <1>1, <1>2, <1>3, <1>4 DEF Converted

(* No two parameters are converted to the same key.                         *)
LEMMA KeyOnce ==
    ASSUME NEW p \in Converted, NEW q \in Converted, KeyOf(p) = KeyOf(q)
    PROVE  p = q
  BY DEF Converted, Copied, KeyOf, Renamed

(* A parameter with a value and without a warning is converted, unless it   *)
(* goes with others.                                                        *)
LEMMA NothingElse ==
    ASSUME NEW ps, NEW p, ps[p] # <<>>, p \notin Ignored, p \notin LogParts,
           Result(ps, p).warning = NoWarning
    PROVE  Changes(Result(ps, p))
  <1>1. CASE p \in Copied
    BY <1>1 DEF Result, HandleConfigMapData, Copied, As, Renamed, Changes
  <1>2. CASE p = "keep-alive"
    <2>1. Result(ps, p) = ParseKeepAlive(ps[p])
      BY <1>2 DEF Result, HandleConfigMapData, Ignored, Copied
    <2>2. Warn("failed to process").warning # NoWarning
      BY DEF Warn, NoWarning
    <2>3. PICK seconds : ParseKeepAlive(ps[p]) = As("keep-alive", Itoa(seconds))
      BY <2>1, <2>2 DEF ParseKeepAlive
    <2>4. Result(ps, p).key = "keep-alive" /\ Result(ps, p).value = Itoa(seconds)
      BY <2>1, <2>3 DEF As
    <2> QED BY <2>4 DEF Changes, Itoa
  <1>3. CASE p \notin Copied \cup {"keep-alive"}
    BY <1>3 DEF Result, HandleConfigMapData, LogParts, Warn, NoWarning
  <1> QED BY <1>1, <1>2, <1>3

(* What a copied parameter means is its result.                             *)
LEMMA KeptResult ==
    ASSUME NEW ps, NEW name \in KeptAs
    PROVE  /\ name.from \in Copied
           /\ Result(ps, name.from) = As(name.to, ps[name.from])
           /\ Changes(As(name.to, ps[name.from])) <=> ps[name.from] # <<>>
  <1>1. name.from \in Copied /\ Renamed(name.from) = name.to /\ name.to # ""
    <2>1. CASE name = [from |-> "ssl-ciphers", to |-> "ssl-ciphers"]
      BY <2>1 DEF Copied, Renamed
    <2>2. CASE name = [from |-> "ssl-protocols", to |-> "ssl-protocols"]
      BY <2>2 DEF Copied, Renamed
    <2>3. CASE name = [from |-> "keep-alive-requests", to |-> "keep-alive-requests"]
      BY <2>3 DEF Copied, Renamed
    <2>4. CASE name = [from |-> "server-names-hash-bucket-size",
                      to |-> "server-name-hash-bucket-size"]
      BY <2>4 DEF Copied, Renamed
    <2>5. CASE name = [from |-> "server-names-hash-max-size",
                      to |-> "server-name-hash-max-size"]
      BY <2>5 DEF Copied, Renamed
    <2> QED BY <2>1, <2>2, <2>3, <2>4, <2>5 DEF KeptAs
  <1>2. name.from \notin Ignored
    BY <1>1 DEF Ignored, Copied
  <1>3. Result(ps, name.from) = As(name.to, ps[name.from])
    <2>1. Result(ps, name.from) = As(Renamed(name.from), ps[name.from])
      BY <1>1, <1>2 DEF Result, HandleConfigMapData, Copied, Ignored
    <2> QED BY <1>1, <2>1
  <1> QED BY <1>1, <1>3 DEF As, Changes

(* Each copied parameter has its name.                                      *)
LEMMA KeptName ==
    ASSUME NEW p \in Copied
    PROVE  [from |-> p, to |-> KeyOf(p)] \in KeptAs
  BY DEF KeptAs, Copied, KeyOf, Renamed

(* What a keep-alive of one word means.                                     *)
LEMMA KeepAliveResult ==
    ASSUME SecondsAgree, NEW ps, NEW t, ps["keep-alive"] = <<t>>
    PROVE  /\ t \in DOMAIN Lasting =>
                Result(ps, "keep-alive") = As("keep-alive", Itoa(Lasting[t]))
           /\ t \notin DOMAIN Lasting => ~Changes(Result(ps, "keep-alive"))
  <1>1. Result(ps, "keep-alive") = ParseKeepAlive(<<t>>)
    BY DEF Result, HandleConfigMapData, Ignored, Copied
  <1>2. t \in DOMAIN Lasting <=> ValidTime(t)
    BY DEF SecondsAgree, ValidTime
  <1>3. t \in DOMAIN Lasting => Lasting[t] = TimeWithUnits(t)
    BY DEF SecondsAgree
  <1>4. Len(<<t>>) = 1 /\ <<t>>[1] = t /\ <<t>> # <<>>
    OBVIOUS
  <1>5. ValidTime(t) => ParseKeepAlive(<<t>>) = As("keep-alive", Itoa(TimeWithUnits(t)))
    BY <1>4 DEF ParseKeepAlive
  <1>6. ~ValidTime(t) => ParseKeepAlive(<<t>>) = Warn("failed to process")
    BY <1>4 DEF ParseKeepAlive
  <1>7. ~Changes(Warn("failed to process"))
    BY DEF Changes, Warn
  <1> QED BY <1>1, <1>2, <1>3, <1>5, <1>6, <1>7

(* A keep-alive that changes the copy is empty or one word.                 *)
LEMMA KeepAliveWord ==
    ASSUME NEW ps, IsTexts(ps), "keep-alive" \in DOMAIN ps, ps["keep-alive"] # <<>>,
           Changes(Result(ps, "keep-alive"))
    PROVE  \E t : ps["keep-alive"] = <<t>>
  <1>1. Result(ps, "keep-alive") = ParseKeepAlive(ps["keep-alive"])
    BY DEF Result, HandleConfigMapData, Ignored, Copied
  <1>2. Len(ps["keep-alive"]) = 1
    <2>1. ~Changes(Warn("failed to process"))
      BY DEF Changes, Warn
    <2>2. Result(ps, "keep-alive") # Warn("failed to process")
      BY <2>1
    <2> QED BY <1>1, <2>2 DEF ParseKeepAlive
  <1>3. ps["keep-alive"] \in Seq(STRING)
    BY DEF IsTexts
  <1> QED BY <1>2, <1>3

(* What the parameters of the access log mean.                              *)
LogsOf(ps) ==
    IF "access-log-buffering" \in DOMAIN ps /\ ps["access-log-buffering"] = <<"true">>
    THEN Setting("buffer", "buffer-size", ps) \o Setting("flush", "flush-interval", ps)
    ELSE <<>>

(* They mean the result of access-log-buffering.                            *)
LEMMA LogsResult ==
    ASSUME NEW ps, "access-log-buffering" \in DOMAIN ps
    PROVE  /\ Changes(Result(ps, "access-log-buffering")) <=> LogsOf(ps) # <<>>
           /\ LogsOf(ps) # <<>> =>
                Result(ps, "access-log-buffering") = As("access-log-params", LogsOf(ps))
  <1>1. Result(ps, "access-log-buffering") =
            ParseAccessLogBuffering(ps["access-log-buffering"], ps)
    BY DEF Result, HandleConfigMapData, Ignored, Copied
  <1> DEFINE parts == Setting("buffer", "buffer-size", ps)
                        \o Setting("flush", "flush-interval", ps)
  <1>2. /\ As("access-log-params", parts).key # ""
        /\ As("access-log-params", parts).value = parts
        /\ ~Changes(Nothing)
    BY DEF As, Changes, Nothing
  <1>3. /\ ps["access-log-buffering"] = <<"true">> => LogsOf(ps) = parts
        /\ ps["access-log-buffering"] # <<"true">> => LogsOf(ps) = <<>>
    BY DEF LogsOf
  <1>4. Result(ps, "access-log-buffering") =
            IF ps["access-log-buffering"] = <<"true">> /\ parts # <<>>
            THEN As("access-log-params", parts) ELSE Nothing
    BY <1>1 DEF ParseAccessLogBuffering
  <1> HIDE DEF parts
  <1>5. CASE ps["access-log-buffering"] = <<"true">> /\ parts # <<>>
    BY <1>2, <1>3, <1>4, <1>5 DEF Changes
  <1>6. CASE ~(ps["access-log-buffering"] = <<"true">> /\ parts # <<>>)
    BY <1>2, <1>3, <1>4, <1>6
  <1> QED BY <1>5, <1>6

(* MeantPairs, part by part.                                                *)
LEMMA MeantParts ==
    ASSUME NEW ps, NEW pair
    PROVE  pair \in MeantPairs(ps) <=>
             \/ \E name \in KeptAs :
                   /\ name.from \in DOMAIN ps /\ ps[name.from] # <<>>
                   /\ pair = <<name.to, ps[name.from]>>
             \/ \E t \in DOMAIN Lasting :
                   /\ "keep-alive" \in DOMAIN ps /\ ps["keep-alive"] # <<>>
                   /\ ps["keep-alive"] = <<t>>
                   /\ pair = <<"keep-alive", Itoa(Lasting[t])>>
             \/ LogsOf(ps) # <<>> /\ pair = <<"access-log-params", LogsOf(ps)>>
  <1> DEFINE has(p) == p \in DOMAIN ps /\ ps[p] # <<>>
             kept == {<<name.to, ps[name.from]>> : name \in {name \in KeptAs : has(name.from)}}
             lasts == {t \in DOMAIN Lasting : has("keep-alive") /\ ps["keep-alive"] = <<t>>}
             alive == {<<"keep-alive", Itoa(Lasting[t])>> : t \in lasts}
             logs == IF LogsOf(ps) = <<>> THEN {} ELSE {<<"access-log-params", LogsOf(ps)>>}
  <1>1. has("access-log-buffering") /\ ps["access-log-buffering"] = <<"true">>
          <=> "access-log-buffering" \in DOMAIN ps /\ ps["access-log-buffering"] = <<"true">>
    BY <<"true">> # <<>>
  <1>2. MeantPairs(ps) = kept \cup alive \cup logs
    BY <1>1 DEF MeantPairs, LogsOf, Setting
  <1>3. pair \in kept <=> \E name \in KeptAs :
                              /\ name.from \in DOMAIN ps /\ ps[name.from] # <<>>
                              /\ pair = <<name.to, ps[name.from]>>
    OBVIOUS
  <1>4. pair \in alive <=> \E t \in DOMAIN Lasting :
                              /\ "keep-alive" \in DOMAIN ps /\ ps["keep-alive"] # <<>>
                              /\ ps["keep-alive"] = <<t>>
                              /\ pair = <<"keep-alive", Itoa(Lasting[t])>>
    OBVIOUS
  <1>5. pair \in logs <=> LogsOf(ps) # <<>> /\ pair = <<"access-log-params", LogsOf(ps)>>
    OBVIOUS
  <1> HIDE DEF kept, alive, logs
  <1> QED BY <1>2, <1>3, <1>4, <1>5

(* What is meant is a result.                                               *)
LEMMA MeantIsResult ==
    ASSUME SecondsAgree, NEW ps, NEW pair \in MeantPairs(ps)
    PROVE  \E p \in DOMAIN ps :
              Changes(Result(ps, p)) /\ pair = <<Result(ps, p).key, Result(ps, p).value>>
  <1>1. CASE \E name \in KeptAs : /\ name.from \in DOMAIN ps /\ ps[name.from] # <<>>
                                  /\ pair = <<name.to, ps[name.from]>>
    <2>1. PICK name \in KeptAs : /\ name.from \in DOMAIN ps /\ ps[name.from] # <<>>
                                 /\ pair = <<name.to, ps[name.from]>>
      BY <1>1
    <2>2. Result(ps, name.from) = As(name.to, ps[name.from]) /\ Changes(Result(ps, name.from))
      BY <2>1, KeptResult
    <2>3. Result(ps, name.from).key = name.to /\ Result(ps, name.from).value = ps[name.from]
      BY <2>2 DEF As
    <2> QED BY <2>1, <2>2, <2>3
  <1>2. CASE \E t \in DOMAIN Lasting :
                /\ "keep-alive" \in DOMAIN ps /\ ps["keep-alive"] # <<>>
                /\ ps["keep-alive"] = <<t>>
                /\ pair = <<"keep-alive", Itoa(Lasting[t])>>
    <2>1. PICK t \in DOMAIN Lasting :
                /\ "keep-alive" \in DOMAIN ps
                /\ ps["keep-alive"] = <<t>>
                /\ pair = <<"keep-alive", Itoa(Lasting[t])>>
      BY <1>2
    <2>2. Result(ps, "keep-alive") = As("keep-alive", Itoa(Lasting[t]))
      BY <2>1, KeepAliveResult
    <2>3. Itoa(Lasting[t]) # <<>>
      BY DEF Itoa
    <2>4. /\ Result(ps, "keep-alive").key = "keep-alive"
          /\ Result(ps, "keep-alive").value = Itoa(Lasting[t])
      BY <2>2 DEF As
    <2>5. Changes(Result(ps, "keep-alive"))
      BY <2>3, <2>4 DEF Changes
    <2> QED BY <2>1, <2>4, <2>5
  <1>3. CASE LogsOf(ps) # <<>> /\ pair = <<"access-log-params", LogsOf(ps)>>
    <2>1. "access-log-buffering" \in DOMAIN ps
      BY <1>3 DEF LogsOf
    <2>2. /\ Changes(Result(ps, "access-log-buffering"))
          /\ Result(ps, "access-log-buffering") = As("access-log-params", LogsOf(ps))
      BY <1>3, <2>1, LogsResult
    <2>3. /\ Result(ps, "access-log-buffering").key = "access-log-params"
          /\ Result(ps, "access-log-buffering").value = LogsOf(ps)
      BY <2>2 DEF As
    <2> QED BY <1>3, <2>1, <2>2, <2>3
  <1> QED BY <1>1, <1>2, <1>3, MeantParts

(* And the result of a parameter is meant, but for an empty keep-alive.     *)
LEMMA ResultIsMeant ==
    ASSUME SecondsAgree, NEW ps, IsTexts(ps), NEW p \in DOMAIN ps, Changes(Result(ps, p)),
           p = "keep-alive" => ps[p] # <<>>
    PROVE  <<Result(ps, p).key, Result(ps, p).value>> \in MeantPairs(ps)
  <1>1. CASE p \in Copied
    <2> DEFINE name == [from |-> p, to |-> KeyOf(p)]
    <2>1. name \in KeptAs
      BY <1>1, KeptName
    <2>2. name.from = p
      OBVIOUS
    <2> HIDE DEF name
    <2>3. Result(ps, p) = As(name.to, ps[p]) /\ ps[p] # <<>>
      BY <2>1, <2>2, KeptResult
    <2>4. Result(ps, p).key = name.to /\ Result(ps, p).value = ps[name.from]
      BY <2>2, <2>3 DEF As
    <2> QED BY <2>1, <2>2, <2>3, <2>4, MeantParts
  <1>2. CASE p = "keep-alive"
    <2>1. PICK t : ps["keep-alive"] = <<t>>
      BY <1>2, KeepAliveWord
    <2>2. /\ t \in DOMAIN Lasting
          /\ Result(ps, "keep-alive") = As("keep-alive", Itoa(Lasting[t]))
      BY <1>2, <2>1, KeepAliveResult
    <2>3. /\ Result(ps, "keep-alive").key = "keep-alive"
          /\ Result(ps, "keep-alive").value = Itoa(Lasting[t])
      BY <2>2 DEF As
    <2>4. "keep-alive" \in DOMAIN ps /\ ps["keep-alive"] # <<>>
      BY <1>2
    <2> QED BY <1>2, <2>1, <2>2, <2>3, <2>4, MeantParts
  <1>3. CASE p = "access-log-buffering"
    <2>1. /\ LogsOf(ps) # <<>>
          /\ Result(ps, "access-log-buffering") = As("access-log-params", LogsOf(ps))
      BY <1>3, LogsResult
    <2>2. /\ Result(ps, "access-log-buffering").key = "access-log-params"
          /\ Result(ps, "access-log-buffering").value = LogsOf(ps)
      BY <2>1 DEF As
    <2> QED BY <1>3, <2>1, <2>2, MeantParts
  <1> QED BY <1>1, <1>2, <1>3, ResultKey DEF Converted

(* What a converted parameter means is under a key of its own: without the  *)
(* parameter it is not meant.                                               *)
LEMMA OwnPair ==
    ASSUME SecondsAgree, NEW ps, NEW p, p \notin DOMAIN ps, p \in Converted,
           NEW value, <<KeyOf(p), value>> \in MeantPairs(ps)
    PROVE  FALSE
  <1>1. PICK q \in DOMAIN ps : /\ Changes(Result(ps, q))
                               /\ <<KeyOf(p), value>> = <<Result(ps, q).key, Result(ps, q).value>>
    BY MeantIsResult
  <1>2. KeyOf(p) = Result(ps, q).key
    BY <1>1
  <1> QED BY <1>1, <1>2, ResultKey, KeyOnce

-----------------------------------------------------------------------------
(* Data that agree outside some keys agree outside more keys.               *)
LEMMA SameOutsideMore ==
    ASSUME NEW keys, NEW more, keys \subseteq more, NEW d, NEW e, SameOutside(keys, d, e)
    PROVE  SameOutside(more, d, e)
  BY DEF SameOutside

(* After a change under one key, the others are what they were.             *)
LEMMA PutKeeps ==
    ASSUME NEW data, NEW key, NEW value
    PROVE  /\ key \in DOMAIN Put(data, key, value) /\ Put(data, key, value)[key] = value
           /\ \A k \in DOMAIN data \ {key} :
                 k \in DOMAIN Put(data, key, value) /\ Put(data, key, value)[k] = data[k]
  BY DEF Put

(* The reads give a copy that nothing is converted in.                      *)
LEMMA ReadLoop ==
    ASSUME CInv, GetK8sConfigMap \/ GetIksConfigMap
    PROVE  LoopInv'
  <1>1. CASE GetK8sConfigMap
    BY <1>1 DEF CInv, LoopInv, GetK8sConfigMap, Panic, cluster, local, Locations
  <1>2. CASE GetIksConfigMap
    <2>1. CASE pc' = "convert"
      <3>1. /\ iks # Absent /\ params' = iks /\ todo' = DOMAIN iks /\ pc = "readIks"
            /\ UNCHANGED <<cm, k8s, iks, mode>>
        BY <1>2, <2>1 DEF GetIksConfigMap, NoIksConfigMap, Panic, cluster, Locations
      <3>2. DOMAIN params' \ todo' = {}
        BY <3>1
      <3>3. SameOutside(Written(params', DOMAIN params' \ todo'), k8s.data, k8s.data)
        BY DEF SameOutside
      <3>4. k8s.version = cm.version => cm.data = k8s.data
        BY <3>1 DEF CInv, LoopInv
      <3> QED BY <2>1, <3>1, <3>2, <3>3, <3>4 DEF CInv, LoopInv
    <2>2. CASE pc' # "convert"
      BY <1>2, <2>2 DEF CInv, LoopInv, GetIksConfigMap, NoIksConfigMap, Panic, cluster, local,
                        Locations
    <2> QED BY <2>1, <2>2
  <1> QED BY <1>1, <1>2

(* One turn of the loop, for the parameters that were visited before it:    *)
(* none of them has the key that it changes.                                *)
LEMMA TurnKeeps ==
    ASSUME NEW ps, NEW d, NEW key, NEW p, p # key,
           Changes(Result(ps, key)), Changes(Result(ps, p)),
           Result(ps, p).key \in DOMAIN d, d[Result(ps, p).key] = Result(ps, p).value
    PROVE  LET e == Put(d, Result(ps, key).key, Result(ps, key).value)
           IN  /\ Result(ps, p).key \in DOMAIN e
               /\ e[Result(ps, p).key] = Result(ps, p).value
  <1>1. Result(ps, p).key # Result(ps, key).key
    BY ResultKey, KeyOnce
  <1> QED BY <1>1, PutKeeps

(* What the turn adds to the keys that are changed.                         *)
LEMMA WrittenMore ==
    ASSUME NEW ps, NEW done, NEW key
    PROVE  /\ Written(ps, done) \subseteq Written(ps, done \cup {key})
           /\ Changes(Result(ps, key)) =>
                Result(ps, key).key \in Written(ps, done \cup {key})
  BY DEF Written

(* The loop.                                                                *)
LEMMA ConvertLoop ==
    ASSUME CInv, NEW key \in todo, Convert(key)
    PROVE  LoopInv'
  <1> DEFINE c == Result(params, key)
             done == DOMAIN params \ todo
             new == Put(cm.data, c.key, c.value)
  <1>1. /\ pc = "convert" /\ IsVersioned(cm) /\ key \in DOMAIN params
        /\ todo \subseteq DOMAIN params /\ params \in IksCms
    BY DEF Convert, CInv, TypeOK, LoopInv, Locations
  <1>2. /\ todo' = todo \ {key} /\ warnings' = warnings \cup Warned(key, c)
        /\ UNCHANGED <<k8s, iks, mode, params>>
        /\ pc' \in {"convert", "panicked"}
        /\ pc' = "convert" =>
              \/ ~Changes(c) /\ cm' = cm
              \/ Changes(c) /\ cm' = [cm EXCEPT !.data = new]
    BY <1>1 DEF Convert, cluster, Result
  <1>3. DOMAIN params \ todo' = done \cup {key}
    BY <1>1, <1>2
  <1>4. /\ \A p \in done :
              /\ Warned(p, Result(params, p)) \subseteq warnings
              /\ Changes(Result(params, p)) =>
                    /\ Result(params, p).key \in DOMAIN cm.data
                    /\ cm.data[Result(params, p).key] = Result(params, p).value
        /\ k8s.version = cm.version => SameOutside(Written(params, done), k8s.data, cm.data)
        /\ iks = Absent \/ iks \in IksCms
    BY <1>1 DEF CInv, LoopInv, Locations
  <1>5. key \notin done
    OBVIOUS
  <1> HIDE DEF c, done, new
  <1>6. CASE pc' = "convert"
    <2>1. /\ cm'.version = cm.version
          /\ \/ ~Changes(c) /\ cm'.data = cm.data
             \/ Changes(c) /\ cm'.data = new
      BY <1>1, <1>2, <1>6 DEF IsVersioned
    <2>2. ASSUME NEW p \in done \cup {key}
          PROVE  /\ Warned(p, Result(params, p)) \subseteq warnings'
                 /\ Changes(Result(params, p)) =>
                      /\ Result(params, p).key \in DOMAIN cm'.data
                      /\ cm'.data[Result(params, p).key] = Result(params, p).value
      <3>1. CASE p = key
        <4>1. Warned(key, c) \subseteq warnings'
          BY <1>2
        <4>2. Changes(c) => c.key \in DOMAIN cm'.data /\ cm'.data[c.key] = c.value
          BY <2>1, PutKeeps DEF new
        <4>3. Result(params, p) = c
          BY <3>1 DEF c
        <4> QED BY <3>1, <4>1, <4>2, <4>3
      <3>2. CASE p # key
        <4>1. p \in done
          BY <2>2, <3>2
        <4>2. Warned(p, Result(params, p)) \subseteq warnings'
          BY <1>2, <1>4, <4>1
        <4>3. CASE cm'.data = cm.data
          BY <1>4, <4>1, <4>2, <4>3
        <4>4. CASE Changes(c) /\ cm'.data = new
          <5>1. ASSUME Changes(Result(params, p))
                PROVE  /\ Result(params, p).key \in DOMAIN new
                       /\ new[Result(params, p).key] = Result(params, p).value
            <6>1. /\ Result(params, p).key \in DOMAIN cm.data
                  /\ cm.data[Result(params, p).key] = Result(params, p).value
              BY <1>4, <4>1, <5>1
            <6> QED BY <3>2, <4>4, <5>1, <6>1, TurnKeeps DEF c, new
          <5> QED BY <4>2, <4>4, <5>1
        <4> QED BY <2>1, <4>3, <4>4
      <3> QED BY <3>1, <3>2
    <2>3. ASSUME k8s.version = cm.version
          PROVE  SameOutside(Written(params, done \cup {key}), k8s.data, cm'.data)
      <3>1. SameOutside(Written(params, done \cup {key}), k8s.data, cm.data)
        BY <1>4, <2>3, WrittenMore, SameOutsideMore
      <3>2. CASE cm'.data = cm.data
        BY <3>1, <3>2
      <3>3. CASE Changes(c) /\ cm'.data = new
        <4>1. c.key \in Written(params, done \cup {key})
          BY <3>3, WrittenMore DEF c
        <4>2. SameOutside(Written(params, done \cup {key}), cm.data, new)
          BY <4>1, PutOutside DEF new
        <4> QED BY <3>1, <3>3, <4>2, SameOutsideTransitive
      <3> QED BY <2>1, <3>2, <3>3
    <2> QED BY <1>1, <1>2, <1>3, <1>4, <1>6, <2>1, <2>2, <2>3 DEF LoopInv, Locations
  <1>7. CASE pc' = "panicked"
    BY <1>2, <1>4, <1>7 DEF LoopInv, Locations
  <1> QED BY <1>2, <1>6, <1>7

(* The writes follow the loop, and one of k8s gives it another version.     *)
LEMMA WriteLoop ==
    ASSUME CInv,
           EndConvert \/ UpdateK8sConfigMap \/ CreateTestConfigMap \/ UpdateTestConfigMap
             \/ ReportStatus
    PROVE  LoopInv'
  <1> USE DEF CInv, LoopInv, cluster, local, Locations, Request, Refused, Panic
  <1>1. CASE EndConvert
    BY <1>1 DEF EndConvert, TestModes, Modes, TypeOK
  <1>2. CASE UpdateK8sConfigMap
    <2>1. cm.version \in Nat /\ cm.version # k8s.version + 1
      BY <1>2 DEF UpdateK8sConfigMap, TypeOK, IsVersioned
    <2> QED BY <1>2, <2>1 DEF UpdateK8sConfigMap
  <1>3. CASE CreateTestConfigMap
    BY <1>3 DEF CreateTestConfigMap, AlreadyExists
  <1>4. CASE UpdateTestConfigMap
    BY <1>4 DEF UpdateTestConfigMap
  <1>5. CASE ReportStatus
    BY <1>5 DEF ReportStatus
  <1> QED BY <1>1, <1>2, <1>3, <1>4, <1>5

(* An edit changes no copy.                                                 *)
LEMMA OutsideLoop ==
    ASSUME CInv, Retry \/ RunAgain \/ AdminEdit
    PROVE  LoopInv'
  <1> USE DEF CInv, LoopInv, cluster, local, Locations
  <1>1. CASE Retry \/ RunAgain
    BY <1>1 DEF Retry, RunAgain, Start
  <1>2. CASE AdminEdit
    <2>1. CASE UNCHANGED k8s
      BY <1>2, <2>1 DEF AdminEdit
    <2>2. CASE k8s'.version = k8s.version + 1
      <3>1. iks' = iks /\ UNCHANGED <<mode, pc, cm, params, todo, warnings>>
        BY <1>2, <2>2 DEF AdminEdit, TypeOK, IsVersioned
      <3>2. pc \in Locations \ {"readK8s"} => k8s'.version # cm.version
        BY <2>2 DEF TypeOK, IsVersioned
      <3> QED BY <3>1, <3>2
    <2> QED BY <1>2, <2>1, <2>2 DEF AdminEdit
  <1> QED BY <1>1, <1>2

(* The invariant is inductive.                                              *)
LEMMA LoopStep == CInv /\ [Next]_vars => CInv'
  <1> SUFFICES ASSUME CInv, [Next]_vars PROVE LoopInv'
    BY TypeStep DEF CInv
  <1>1. CASE UNCHANGED vars
    BY <1>1 DEF CInv, LoopInv, vars, cluster, local
  <1>2. CASE Stopped
    BY <1>1, <1>2 DEF Stopped
  <1> QED BY <1>1, <1>2, ReadLoop, ConvertLoop, WriteLoop, OutsideLoop DEF Next, Step

(* And it holds all the time.                                               *)
LEMMA LoopAlways == Spec => []CInv
  <1>1. Init => CInv
    BY InitType DEF Init, CInv, LoopInv, Locations
  <1> QED BY <1>1, LoopStep, PTL DEF Spec

-----------------------------------------------------------------------------
(* The data of ConfigMaps are texts.                                        *)
LEMMA ParamsAreTexts ==
    ASSUME NEW ps \in IksCms
    PROVE  IsTexts(ps)
  BY DataAssumption, TextAssumption DEF IsTexts

(* For all ConfigMaps, orders of the loop and edits: when HandleConfigMap   *)
(* reports, each parameter with an effect is in what was written or in a    *)
(* warning, provided that durations are read as they are meant.             *)
THEOREM NoSilentLoss == SecondsAgree => (Spec => []LossIsWarned)
  <1> SUFFICES ASSUME SecondsAgree PROVE Spec => []LossIsWarned
    OBVIOUS
  <1>1. ASSUME CInv
        PROVE  LossIsWarned
    <2> SUFFICES ASSUME pc = "status", NEW p \in DOMAIN params \ Ignored,
                        params[p] # <<>>, ~ \E w \in warnings : w[1] = p
                 PROVE  /\ Contribution(p) # {} \/ p \in LogParts
                        /\ Contribution(p) \subseteq {<<k, cm.data[k]>> : k \in DOMAIN cm.data}
      BY DEF LossIsWarned
    <2> DEFINE rest == [q \in DOMAIN params \ {p} |-> params[q]]
               c == Result(params, p)
    <2>1. /\ params \in IksCms
          /\ \A q \in DOMAIN params :
                /\ Warned(q, Result(params, q)) \subseteq warnings
                /\ Changes(Result(params, q)) =>
                      /\ Result(params, q).key \in DOMAIN cm.data
                      /\ cm.data[Result(params, q).key] = Result(params, q).value
      BY <1>1 DEF CInv, LoopInv, Locations
    <2>2. c.warning = NoWarning
      <3>1. SUFFICES ASSUME c.warning # NoWarning PROVE FALSE
        OBVIOUS
      <3>2. <<p, c.warning>> \in warnings
        BY <2>1, <3>1 DEF Warned, c
      <3> QED BY <3>2
    <2>3. MeantPairs(params) \subseteq {<<k, cm.data[k]>> : k \in DOMAIN cm.data}
      <3> SUFFICES ASSUME NEW pair \in MeantPairs(params)
                   PROVE  \E k \in DOMAIN cm.data : pair = <<k, cm.data[k]>>
        OBVIOUS
      <3>1. PICK q \in DOMAIN params :
                /\ Changes(Result(params, q))
                /\ pair = <<Result(params, q).key, Result(params, q).value>>
        BY MeantIsResult
      <3> QED BY <2>1, <3>1
    <2>4. Contribution(p) \subseteq MeantPairs(params)
      BY DEF Contribution
    <2>5. ASSUME p \notin LogParts
          PROVE  Contribution(p) # {}
      <3>1. Changes(c)
        BY <2>2, <2>5, NothingElse DEF c
      <3>2. p \in Converted /\ c.key = KeyOf(p)
        BY <3>1, ResultKey DEF c
      <3>3. <<KeyOf(p), c.value>> \in MeantPairs(params)
        BY <2>1, <3>1, <3>2, ParamsAreTexts, ResultIsMeant DEF c
      <3>4. p \notin DOMAIN rest
        OBVIOUS
      <3>5. <<KeyOf(p), c.value>> \notin MeantPairs(rest)
        BY <3>2, <3>4, OwnPair
      <3> QED BY <3>3, <3>5 DEF Contribution
    <2> QED BY <2>3, <2>4, <2>5
  <1>2. CInv => LossIsWarned
    BY <1>1
  <1> QED BY <1>2, LoopAlways, PTL

(* Data with the results put into them are what the parameters mean.        *)
LEMMA WrittenIsMeant ==
    ASSUME SecondsAgree, NoEmptyKeepAlive, NEW ps \in IksCms,
           NEW d, NEW e, IsData(e), SameOutside(Written(ps, DOMAIN ps), d, e),
           \A p \in DOMAIN ps : Changes(Result(ps, p)) =>
              Result(ps, p).key \in DOMAIN e /\ e[Result(ps, p).key] = Result(ps, p).value
    PROVE  e = Meant(d, ps)
  <1> DEFINE pairs == MeantPairs(ps)
             keys == {pair[1] : pair \in pairs}
  <1>1. ASSUME NEW pair \in pairs
        PROVE  \E p \in DOMAIN ps : /\ Changes(Result(ps, p))
                                    /\ pair = <<Result(ps, p).key, Result(ps, p).value>>
    BY <1>1, MeantIsResult
  <1>2. ASSUME NEW p \in DOMAIN ps, Changes(Result(ps, p))
        PROVE  <<Result(ps, p).key, Result(ps, p).value>> \in pairs
    BY <1>2, ParamsAreTexts, ResultIsMeant DEF NoEmptyKeepAlive
  <1> HIDE DEF pairs
  <1>3. keys = Written(ps, DOMAIN ps)
    <2>1. ASSUME NEW k \in keys
          PROVE  k \in Written(ps, DOMAIN ps)
      <3>1. PICK pair \in pairs : k = pair[1]
        OBVIOUS
      <3>2. PICK p \in DOMAIN ps : /\ Changes(Result(ps, p))
                                   /\ pair = <<Result(ps, p).key, Result(ps, p).value>>
        BY <1>1
      <3>3. k = Result(ps, p).key
        BY <3>1, <3>2
      <3> QED BY <3>2, <3>3 DEF Written
    <2>2. ASSUME NEW k \in Written(ps, DOMAIN ps)
          PROVE  k \in keys
      <3>1. PICK p \in DOMAIN ps : Changes(Result(ps, p)) /\ k = Result(ps, p).key
        BY DEF Written
      <3>2. <<Result(ps, p).key, Result(ps, p).value>> \in pairs
        BY <1>2, <3>1
      <3>3. k = <<Result(ps, p).key, Result(ps, p).value>>[1]
        BY <3>1
      <3> QED BY <3>2, <3>3
    <2> QED BY <2>1, <2>2
  <1>4. ASSUME NEW pair \in pairs
        PROVE  pair[1] \in DOMAIN e /\ e[pair[1]] = pair[2]
    <2>1. PICK p \in DOMAIN ps : /\ Changes(Result(ps, p))
                                 /\ pair = <<Result(ps, p).key, Result(ps, p).value>>
      BY <1>1
    <2>2. pair[1] = Result(ps, p).key /\ pair[2] = Result(ps, p).value
      BY <2>1
    <2> QED BY <2>1, <2>2
  <1>5. SameOutside(keys, d, e)
    BY <1>3
  <1>6. Meant(d, ps) = [k \in DOMAIN d \cup keys |->
                           IF k \in keys THEN (CHOOSE pair \in pairs : pair[1] = k)[2] ELSE d[k]]
    BY DEF Meant, pairs
  <1>7. keys \subseteq DOMAIN e
    BY <1>4
  <1>8. ASSUME NEW k \in keys
        PROVE  e[k] = (CHOOSE pair \in pairs : pair[1] = k)[2]
    <2>1. \E pair \in pairs : pair[1] = k
      OBVIOUS
    <2>2. PICK pair \in pairs : pair[1] = k /\ pair = CHOOSE q \in pairs : q[1] = k
      BY <2>1
    <2> QED BY <1>4, <2>2
  <1> HIDE DEF keys
  <1>9. DOMAIN e = DOMAIN d \cup keys
    BY <1>5, <1>7 DEF SameOutside
  <1>10. \A k \in DOMAIN d \cup keys :
            e[k] = IF k \in keys THEN (CHOOSE pair \in pairs : pair[1] = k)[2] ELSE d[k]
    BY <1>5, <1>8 DEF SameOutside
  <1>11. e = [k \in DOMAIN d \cup keys |-> e[k]]
    BY <1>9 DEF IsData
  <1> QED BY <1>6, <1>10, <1>11

(* For all ConfigMaps and orders of the loop: a ConfigMap that nobody else  *)
(* has changed is written as it was with what the parameters mean, provided *)
(* that durations are read as they are meant and no keep-alive is empty.    *)
THEOREM ParametersArrive ==
    SecondsAgree /\ NoEmptyKeepAlive => (Spec => ConversionIsMeant)
  <1> SUFFICES ASSUME SecondsAgree, NoEmptyKeepAlive PROVE Spec => ConversionIsMeant
    OBVIOUS
  <1>1. ASSUME CInv, [Next]_vars, Wrote, k8s.version = cm.version
        PROVE  Target' = Meant(k8s.data, params)
    <2>1. pc \in {"update", "create", "replace"} /\ edits' = edits
          /\ (pc' = "status" \/ cluster' # cluster)
      BY <1>1 DEF Wrote
    <2>2. \/ pc = "update" /\ UpdateK8sConfigMap
          \/ pc = "create" /\ CreateTestConfigMap
          \/ pc = "replace" /\ UpdateTestConfigMap
      <3>1. ~UNCHANGED vars
        BY <2>1 DEF vars
      <3>2. Next /\ ~Stopped
        BY <1>1, <3>1 DEF Stopped
      <3>3. ~AdminEdit
        BY <1>1, <2>1 DEF AdminEdit, CInv, TypeOK
      <3> QED BY <2>1, <3>2, <3>3
              DEF Next, Step, GetK8sConfigMap, GetIksConfigMap, Convert, EndConvert,
                  UpdateK8sConfigMap, CreateTestConfigMap, UpdateTestConfigMap, ReportStatus,
                  Retry, RunAgain, Ended
    <2>3. Target' = cm.data
      <3>1. CASE pc = "update" /\ UpdateK8sConfigMap
        BY <1>1, <2>1, <3>1
           DEF UpdateK8sConfigMap, Request, Refused, Panic, Target, CInv, LoopInv
      <3>2. CASE pc = "create" /\ CreateTestConfigMap
        BY <1>1, <2>1, <3>2
           DEF CreateTestConfigMap, Request, Refused, Panic, Target, CInv, LoopInv, AlreadyExists
      <3>3. CASE pc = "replace" /\ UpdateTestConfigMap
        BY <1>1, <2>1, <3>3
           DEF UpdateTestConfigMap, Request, Refused, Panic, Target, CInv, LoopInv
      <3> QED BY <2>2, <3>1, <3>2, <3>3
    <2>4. todo = {} /\ params \in IksCms
      BY <1>1, <2>1 DEF CInv, LoopInv, Locations
    <2>5. DOMAIN params \ todo = DOMAIN params
      BY <2>4
    <2>6. /\ SameOutside(Written(params, DOMAIN params), k8s.data, cm.data)
          /\ \A p \in DOMAIN params : Changes(Result(params, p)) =>
                /\ Result(params, p).key \in DOMAIN cm.data
                /\ cm.data[Result(params, p).key] = Result(params, p).value
      BY <1>1, <2>1, <2>5 DEF CInv, LoopInv, Locations
    <2>7. IsData(cm.data)
      BY <1>1, <2>1 DEF CInv, TypeOK, IsVersioned, Locations
    <2> QED BY <1>1, <2>3, <2>4, <2>6, <2>7, WrittenIsMeant
  <1>2. CInv /\ [Next]_vars =>
            (Wrote /\ k8s.version = cm.version => Target' = Meant(k8s.data, params))
    BY <1>1
  <1> QED BY <1>2, LoopAlways, PTL DEF Spec, ConversionIsMeant

=============================================================================
