------------------------ MODULE ProxySecrets_proofs -------------------------
(***************************************************************************)
(* ProxySecrets for every instance: the search finds the secret that is    *)
(* meant, an update loses nothing, and what does not work is warned of.    *)
(***************************************************************************)
EXTENDS ProxySecrets, TLAPS

(* A secret with its keys copied is a secret, with all it had.               *)
LEMMA CopiedFacts ==
    ASSUME NEW s \in Secret
    PROVE  /\ Copied(s) \in Secret /\ Updated(s) \in Secret
           /\ Copied(s).source = s.source /\ Updated(s).source = s.source
           /\ Copied(s).reference = s.reference /\ Updated(s).reference = s.reference
           /\ Updated(s).target = Copied(s).target /\ Updated(s).version = s.version + 1
           /\ \A p \in Pairs : Copied(s).target[p] =
                 IF s.target[p] = Absent /\ s.source[p] # Absent
                 THEN s.source[p] ELSE s.target[p]
  <1> DEFINE target == [p \in Pairs |-> IF s.target[p] = Absent /\ s.source[p] # Absent
                                        THEN s.source[p] ELSE s.target[p]]
  <1>1. target \in Keys
    BY DEF Secret, Keys
  <1>2. Copied(s) = [s EXCEPT !.target = target]
    BY DEF Copied, Secret
  <1>3. /\ Copied(s) \in Secret /\ Copied(s).target = target
        /\ Copied(s).source = s.source /\ Copied(s).reference = s.reference
        /\ Copied(s).version = s.version
    <2> HIDE DEF target
    <2> QED BY <1>1, <1>2 DEF Secret
  <1>4. Updated(s) = [Copied(s) EXCEPT !.version = Copied(s).version + 1]
    BY <1>3 DEF Updated, Secret
  <1>5. /\ Updated(s) \in Secret /\ Updated(s).source = Copied(s).source
        /\ Updated(s).reference = Copied(s).reference /\ Updated(s).target = Copied(s).target
        /\ Updated(s).version = Copied(s).version + 1
    BY <1>3, <1>4 DEF Secret
  <1> QED BY <1>3, <1>5

(* A renewed secret is a secret of the next version.                         *)
LEMMA RenewedFacts ==
    ASSUME NEW s \in Secret, NEW p \in Pairs, NEW c \in Contents
    PROVE  /\ [s EXCEPT !.source[p] = c, !.version = @ + 1] \in Secret
           /\ [s EXCEPT !.source[p] = c, !.version = @ + 1].reference = s.reference
           /\ [s EXCEPT !.source[p] = c, !.version = @ + 1].version = s.version + 1
  <1> PICK new : new = [s.source EXCEPT ![p] = c]
    OBVIOUS
  <1> PICK t : t = [s EXCEPT !.source[p] = c, !.version = @ + 1]
    OBVIOUS
  <1>1. new \in Keys /\ s.version + 1 \in Nat /\ s.target \in Keys /\ s.reference \in BOOLEAN
    BY DEF Secret, Keys
  <1>2. DOMAIN t = {"source", "target", "reference", "version"} /\ t = [k \in DOMAIN t |-> t[k]]
    BY DEF Secret
  <1>3. /\ t.source = new /\ t.target = s.target /\ t.reference = s.reference
        /\ t.version = s.version + 1
    BY DEF Secret
  <1>4. t = [source |-> new, target |-> s.target, reference |-> s.reference,
             version |-> s.version + 1]
    BY <1>2, <1>3
  <1>5. t \in Secret
    BY <1>1, <1>4 DEF Secret
  <1> QED BY <1>3, <1>5

(* A read gives the secret there is, or none.                                *)
LEMMA GetFacts ==
    ASSUME TypeOK, use \in Uses, NEW ns \in Namespaces, NEW ok \in BOOLEAN, GetSecret(ns, ok)
    PROVE  /\ <<ns, use.name>> \in Places
           /\ secret' \in Secret \cup {Absent} /\ namespace' = ns
           /\ secret' \in {cluster[<<ns, use.name>>], Absent}
           /\ faults' \in Nat
           /\ faults' = 0 => faults = 0 /\ secret' = cluster[<<ns, use.name>>]
  <1>1. <<ns, use.name>> \in Places
    BY SecretsAssumption DEF Places
  <1> QED BY <1>1 DEF GetSecret, TypeOK

-----------------------------------------------------------------------------
(* TypeOK *)

(* The initial states have their types.                                      *)
LEMMA TypeInit == Init => TypeOK
  <1> SUFFICES ASSUME Init PROVE TypeOK
    OBVIOUS
  <1>1. cluster \in [Places -> Secret \cup {Absent}]
    BY SecretsAssumption DEF Init
  <1>2. DOMAIN found = {} /\ DOMAIN warned = {}
    BY DEF Init
  <1> QED BY <1>1, <1>2 DEF Init, TypeOK, Steps

(* What one read of LookupSecret does to the types.                          *)
LEMMA LookupType ==
    ASSUME TypeOK, Lookup
    PROVE  /\ use \in Uses /\ secret' \in Secret \cup {Absent} /\ namespace' \in Namespaces
           /\ faults' \in Nat
           /\ secret' # Absent => secret' = cluster[<<namespace', use.name>>]
           /\ \/ /\ secret' \in Secret
                 /\ \/ use.updates /\ step' = "update" /\ UNCHANGED <<use, found>>
                    \/ ~use.updates /\ End(use, namespace')
              \/ /\ step' \in Steps \ {"idle", "update"} /\ UNCHANGED <<use, found>>
              \/ End(use, Absent)
           /\ UNCHANGED <<cluster, recorded, todo, warned, renewals, readOnly>>
  <1>use. use \in Uses
    BY DEF Lookup, LookInOwnNamespace, LookInDefault, FollowReference, LookInSecured, TypeOK
  <1>ns. use.namespace \in Namespaces /\ {Default, Secured} \subseteq Namespaces
    BY <1>use, SecretsAssumption
  <1>1. \E ns \in Namespaces, ok \in BOOLEAN : GetSecret(ns, ok)
    BY <1>ns DEF Lookup, LookInOwnNamespace, LookInDefault, FollowReference, LookInSecured
  <1>2. /\ secret' \in Secret \cup {Absent} /\ namespace' \in Namespaces /\ faults' \in Nat
        /\ secret' # Absent => secret' = cluster[<<namespace', use.name>>]
    BY <1>use, <1>1, GetFacts
  <1>3. \/ secret' # Absent /\ Found
        \/ step' \in Steps \ {"idle", "update"} /\ UNCHANGED <<use, found>>
        \/ End(use, Absent)
    BY DEF Lookup, LookInOwnNamespace, LookInDefault, FollowReference, LookInSecured, Continue,
           NotFound, Steps
  <1>4. UNCHANGED <<cluster, recorded, todo, warned, renewals, readOnly>>
    BY DEF Lookup, LookInOwnNamespace, LookInDefault, FollowReference, LookInSecured
  <1> QED BY <1>use, <1>2, <1>3, <1>4 DEF Found, Continue

(* A use that ends is noted.                                                 *)
LEMMA EndType ==
    ASSUME TypeOK, NEW u \in Uses, NEW ns \in Namespaces \cup {Absent}, End(u, ns)
    PROVE  /\ use' = Absent /\ step' = "idle"
           /\ DOMAIN found' = DOMAIN found \cup {u} /\ DOMAIN found' \subseteq Uses
           /\ \A v \in DOMAIN found' : found'[v] = IF v = u THEN ns ELSE found[v]
           /\ \A v \in DOMAIN found' : found'[v] \in Namespaces \cup {Absent}
  <1>1. found' = Note(found, u, ns) BY DEF End
  <1>2. /\ DOMAIN found' = DOMAIN found \cup {u}
        /\ \A v \in DOMAIN found \cup {u} : found'[v] = IF v = u THEN ns ELSE found[v]
    BY <1>1 DEF Note
  <1> QED BY <1>2 DEF End, TypeOK

(* Every step keeps the types.                                               *)
LEMMA TypeStep == TypeOK /\ [Next]_vars => TypeOK'
  <1> SUFFICES ASSUME TypeOK, [Next]_vars PROVE TypeOK'
    OBVIOUS
  <1>1. CASE Start
    <2>1. use' \in Uses /\ todo' \subseteq Uses /\ step' = "own"
      BY <1>1 DEF Start, TypeOK
    <2>2. UNCHANGED <<cluster, recorded, secret, namespace, found, warned, faults, renewals, readOnly>>
      BY <1>1 DEF Start
    <2> QED BY <2>1, <2>2 DEF TypeOK, Steps
  <1>2. CASE Lookup
    <2>1. CASE /\ UNCHANGED <<use, found>>
               /\ (secret' \in Secret /\ step' = "update") \/ step' \in Steps \ {"idle", "update"}
      BY <1>2, <2>1, LookupType DEF TypeOK, Steps
    <2>2. ASSUME NEW ns \in Namespaces \cup {Absent}, End(use, ns) PROVE TypeOK'
      <3>1. use' = Absent /\ step' = "idle" /\ DOMAIN found' \subseteq Uses
            /\ \A v \in DOMAIN found' : found'[v] \in Namespaces \cup {Absent}
        BY <1>2, <2>2, LookupType, EndType
      <3> QED BY <1>2, <3>1, LookupType DEF TypeOK, Steps
    <2> QED BY <1>2, <2>1, <2>2, LookupType
  <1>3. CASE UpdateSecret
    <2>1. /\ use \in Uses /\ secret \in Secret /\ namespace \in Namespaces
          /\ <<namespace, use.name>> \in Places
      BY <1>3, SecretsAssumption DEF UpdateSecret, TypeOK, Places
    <2>2. cluster' \in [Places -> Secret \cup {Absent}]
          /\ recorded' \in [Places -> Secret \cup {Absent}] /\ faults' \in Nat
      BY <1>3, <2>1, CopiedFacts DEF UpdateSecret, TypeOK
    <2>3. PICK ns \in Namespaces \cup {Absent} : End(use, ns)
      BY <1>3, <2>1 DEF UpdateSecret
    <2>4. /\ use' = Absent /\ step' = "idle" /\ DOMAIN found' \subseteq Uses
          /\ \A v \in DOMAIN found' : found'[v] \in Namespaces \cup {Absent}
      BY <2>1, <2>3, EndType
    <2>5. /\ DOMAIN warned' \subseteq Uses
          /\ \A u \in DOMAIN warned' : warned'[u] \subseteq Pairs
      <3>1. warned' = Note(warned, use, Mismatches(secret)) BY <1>3 DEF UpdateSecret
      <3>2. Mismatches(secret) \subseteq Pairs BY DEF Mismatches
      <3>3. /\ DOMAIN warned' = DOMAIN warned \cup {use}
            /\ \A v \in DOMAIN warned \cup {use} :
                  warned'[v] = IF v = use THEN Mismatches(secret) ELSE warned[v]
        BY <3>1 DEF Note
      <3> QED BY <2>1, <3>2, <3>3 DEF TypeOK
    <2>6. UNCHANGED <<todo, secret, namespace, renewals, readOnly>>
      BY <1>3 DEF UpdateSecret
    <2> QED BY <2>2, <2>4, <2>5, <2>6 DEF TypeOK, Steps
  <1>4. CASE Renew
    <2> PICK place \in Places, p \in Pairs, c \in Contents :
          /\ cluster[place] # Absent
          /\ cluster' = [cluster EXCEPT ![place].source[p] = c, ![place].version = @ + 1]
      BY <1>4 DEF Renew
    <2>1. cluster[place] \in Secret BY DEF TypeOK
    <2>2. [cluster[place] EXCEPT !.source[p] = c, !.version = @ + 1] \in Secret
      BY <2>1, RenewedFacts
    <2>3. cluster' \in [Places -> Secret \cup {Absent}]
      BY <2>2 DEF TypeOK
    <2> QED BY <1>4, <2>3 DEF Renew, TypeOK
  <1>5. CASE UNCHANGED vars
    BY <1>5 DEF vars, TypeOK
  <1> QED BY <1>1, <1>2, <1>3, <1>4, <1>5 DEF Next, Stopped

(* TypeOK: every variable keeps its type, for any secrets, uses, faults and   *)
(* renewals; the update runs with a secret at hand.                          *)
THEOREM TypeCorrect == Spec => []TypeOK
  BY TypeInit, TypeStep, PTL DEF Spec

-----------------------------------------------------------------------------
(* VersionInv, OnlyTargetsAdded and MismatchIsWarned *)

(* A secret stays as it is, or becomes a newer version of itself.            *)
LEMMA StoreStep ==
    ASSUME VersionInv, [Next]_vars, NEW place \in Places
    PROVE  \/ cluster'[place] = cluster[place]
           \/ /\ cluster[place] \in Secret /\ cluster'[place] \in Secret
              /\ cluster'[place].reference = cluster[place].reference
              /\ cluster'[place].version = cluster[place].version + 1
  <1>ty. TypeOK BY DEF VersionInv
  <1>1. CASE UpdateSecret
    <2>1. secret \in Secret BY <1>1, <1>ty DEF UpdateSecret, TypeOK
    <2>2. CASE cluster' = cluster
      BY <2>2
    <2>3. CASE cluster' # cluster
      <3> PICK here : here = <<namespace, use.name>> OBVIOUS
      <3>1. SameVersion(here, secret) /\ cluster' = [cluster EXCEPT ![here] = Updated(secret)]
        BY <1>1, <2>3 DEF UpdateSecret
      <3>2. cluster[here] = secret
        BY <1>1, <3>1 DEF UpdateSecret, SameVersion, VersionInv
      <3>3. CASE place = here
        BY <1>ty, <2>1, <3>1, <3>2, <3>3, CopiedFacts DEF TypeOK
      <3>4. CASE place # here
        BY <1>ty, <3>1, <3>4 DEF TypeOK
      <3> QED BY <3>3, <3>4
    <2> QED BY <2>2, <2>3
  <1>2. CASE Renew
    <2> PICK other \in Places, p \in Pairs, c \in Contents :
          /\ cluster[other] # Absent
          /\ cluster' = [cluster EXCEPT ![other].source[p] = c, ![other].version = @ + 1]
      BY <1>2 DEF Renew
    <2>1. cluster[other] \in Secret BY <1>ty DEF TypeOK
    <2>2. CASE place = other
      <3>1. cluster'[place] = [cluster[place] EXCEPT !.source[p] = c, !.version = @ + 1]
        BY <1>ty, <2>2 DEF TypeOK
      <3>2. /\ [cluster[place] EXCEPT !.source[p] = c, !.version = @ + 1] \in Secret
            /\ [cluster[place] EXCEPT !.source[p] = c, !.version = @ + 1].reference
                  = cluster[place].reference
            /\ [cluster[place] EXCEPT !.source[p] = c, !.version = @ + 1].version
                  = cluster[place].version + 1
        BY <2>1, <2>2, RenewedFacts
      <3> QED BY <2>1, <2>2, <3>1, <3>2
    <2>3. CASE place # other
      BY <1>ty, <2>3 DEF TypeOK
    <2> QED BY <2>2, <2>3
  <1>3. CASE ~(UpdateSecret \/ Renew)
    BY <1>3 DEF Next, Start, Lookup, LookInOwnNamespace, LookInDefault, FollowReference,
                LookInSecured, Stopped, vars
  <1> QED BY <1>1, <1>2, <1>3

(* At first nothing is read.                                                 *)
LEMMA VersionInit == Init => VersionInv
  BY TypeInit DEF Init, VersionInv

(* Every step keeps VersionInv.                                              *)
LEMMA VersionStep == VersionInv /\ [Next]_vars => VersionInv'
  <1> SUFFICES ASSUME VersionInv, [Next]_vars, step' = "update"
               PROVE  /\ cluster'[<<namespace', use'.name>>] # Absent
                      /\ secret'.version <= cluster'[<<namespace', use'.name>>].version
                      /\ cluster'[<<namespace', use'.name>>].version = secret'.version
                            => cluster'[<<namespace', use'.name>>] = secret'
    BY TypeStep DEF VersionInv
  <1>ty. TypeOK /\ TypeOK' BY TypeStep DEF VersionInv
  <1>1. CASE Lookup
    <2>1. ASSUME NEW ns \in Namespaces \cup {Absent}, End(use, ns) PROVE FALSE
      BY <2>1 DEF End
    <2>2. /\ secret' \in Secret /\ secret' = cluster[<<namespace', use.name>>]
          /\ use' = use /\ cluster' = cluster
      BY <1>1, <1>ty, <2>1, LookupType, SecretsAssumption
    <2> QED BY <2>2, SecretsAssumption DEF Secret
  <1>2. CASE Renew \/ UNCHANGED vars
    <2>1. step = "update" /\ UNCHANGED <<use, secret, namespace>>
      BY <1>2 DEF Renew, vars
    <2> PICK place : place = <<namespace, use.name>> OBVIOUS
    <2>2. place \in Places /\ secret \in Secret
      BY <1>ty, <2>1, SecretsAssumption DEF TypeOK, Places
    <2>3. /\ cluster[place] # Absent /\ secret.version <= cluster[place].version
          /\ cluster[place].version = secret.version => cluster[place] = secret
      BY <2>1 DEF VersionInv
    <2>4. CASE cluster'[place] = cluster[place]
      BY <2>1, <2>3, <2>4
    <2>5. CASE /\ cluster[place] \in Secret /\ cluster'[place] \in Secret
               /\ cluster'[place].version = cluster[place].version + 1
      <3>1. cluster'[place] # Absent /\ secret.version < cluster'[place].version
        BY <2>2, <2>3, <2>5, SecretsAssumption DEF Secret
      <3>2. secret.version \in Nat /\ cluster'[place].version \in Nat
        BY <2>2, <2>5 DEF Secret
      <3> QED BY <2>1, <3>1, <3>2
    <2> QED BY <2>2, <2>4, <2>5, StoreStep
  <1>3. CASE Start \/ UpdateSecret
    BY <1>3 DEF Start, UpdateSecret, End
  <1> QED BY <1>1, <1>2, <1>3 DEF Next, Stopped

(* OnlyTargetsAdded: the tool overwrites no key, and nothing of a secret that *)
(* was renewed after it was read.                                            *)
THEOREM NothingIsLost == Spec => OnlyTargetsAdded
  <1>1. ASSUME VersionInv, [Next]_vars, renewals' = renewals, NEW place \in Places,
               cluster'[place] # cluster[place]
        PROVE  /\ cluster'[place].source = cluster[place].source
               /\ \A p \in Pairs : cluster[place].target[p] # Absent =>
                     cluster'[place].target[p] = cluster[place].target[p]
    <2>ty. TypeOK BY <1>1 DEF VersionInv
    <2>1. UpdateSecret
      <3>1. ~Renew BY <1>1, <2>ty DEF Renew, TypeOK
      <3> QED
        BY <1>1, <3>1 DEF Next, Start, Lookup, LookInOwnNamespace, LookInDefault,
                          FollowReference, LookInSecured, Stopped, vars
    <2>2. secret \in Secret BY <2>ty, <2>1 DEF UpdateSecret, TypeOK
    <2> PICK here : here = <<namespace, use.name>> OBVIOUS
    <2>3. SameVersion(here, secret) /\ cluster' = [cluster EXCEPT ![here] = Updated(secret)]
      BY <1>1, <2>1 DEF UpdateSecret
    <2>4. cluster[here] = secret
      BY <1>1, <2>1, <2>3 DEF UpdateSecret, SameVersion, VersionInv
    <2>5. place = here /\ cluster'[place] = Updated(secret)
      BY <1>1, <2>3, <2>ty DEF TypeOK
    <2> QED BY <2>2, <2>4, <2>5, CopiedFacts
  <1>2. VersionInv /\ [Next]_vars
          => [renewals' = renewals => \A place \in Places :
                cluster'[place] # cluster[place] =>
                   /\ cluster'[place].source = cluster[place].source
                   /\ \A p \in Pairs : cluster[place].target[p] # Absent =>
                         cluster'[place].target[p] = cluster[place].target[p]]_vars
    BY <1>1
  <1> QED BY VersionInit, VersionStep, <1>2, PTL DEF Spec, OnlyTargetsAdded

(* MismatchIsWarned: an update that succeeds leaves no target key that        *)
(* differs from its source key, but those it warns of.                       *)
THEOREM DifferencesAreWarned == Spec => MismatchIsWarned
  <1> DEFINE Result(u) == IF readOnly THEN recorded'[<<found'[u], u.name>>]
                          ELSE cluster'[<<found'[u], u.name>>]
  <1>1. ASSUME TypeOK, [Next]_vars, NEW u \in DOMAIN found' \ DOMAIN found, u.updates,
               found'[u] # Absent, NEW p \in Pairs \ warned'[u]
        PROVE  Result(u).source[p] \in {Absent, Result(u).target[p]}
    <2>1. UpdateSecret
      <3>1. CASE Lookup
        <4>1. use \in Uses BY <1>1, <3>1, LookupType
        <4>2. ASSUME NEW ns \in Namespaces \cup {Absent}, End(use, ns)
              PROVE  u = use /\ found'[u] = ns
          <5>1. /\ DOMAIN found' = DOMAIN found \cup {use}
                /\ \A v \in DOMAIN found' : found'[v] = IF v = use THEN ns ELSE found[v]
            BY <1>1, <4>1, <4>2, EndType
          <5> QED BY <1>1, <5>1
        <4> QED BY <1>1, <3>1, <4>2, LookupType
      <3>2. CASE ~Lookup /\ ~UpdateSecret
        BY <1>1, <3>2 DEF Next, Start, Renew, Stopped, vars
      <3> QED BY <3>1, <3>2
    <2>2. use \in Uses /\ secret \in Secret /\ namespace \in Namespaces
      BY <1>1, <2>1 DEF UpdateSecret, TypeOK
    <2>3. ASSUME NEW ns \in Namespaces \cup {Absent}, End(use, ns)
          PROVE  u = use /\ found'[u] = ns
      <3>1. /\ DOMAIN found' = DOMAIN found \cup {use}
            /\ \A v \in DOMAIN found' : found'[v] = IF v = use THEN ns ELSE found[v]
        BY <1>1, <2>2, <2>3, EndType
      <3> QED BY <1>1, <3>1
    <2>4. /\ End(use, namespace)
          /\ recorded' = [recorded EXCEPT ![<<namespace, use.name>>] = Copied(secret)]
          /\ ~readOnly => cluster' = [cluster EXCEPT ![<<namespace, use.name>>] = Updated(secret)]
      BY <1>1, <2>1, <2>2, <2>3 DEF UpdateSecret
    <2>5. u = use /\ found'[u] = namespace /\ <<namespace, use.name>> \in Places
      BY <2>2, <2>3, <2>4, SecretsAssumption DEF Places
    <2>6. Result(u) = IF readOnly THEN Copied(secret) ELSE Updated(secret)
      BY <1>1, <2>4, <2>5 DEF TypeOK
    <2>7. warned'[u] = Mismatches(secret)
      BY <2>1, <2>5 DEF UpdateSecret, Note
    <2>8. /\ Result(u).source = secret.source
          /\ Result(u).target = Copied(secret).target
      BY <2>2, <2>6, CopiedFacts
    <2>9. Copied(secret).target[p] = IF secret.target[p] = Absent /\ secret.source[p] # Absent
                                     THEN secret.source[p] ELSE secret.target[p]
      BY <2>2, CopiedFacts
    <2>10. secret.source[p] = Absent \/ secret.target[p] \in {Absent, secret.source[p]}
      BY <2>7 DEF Mismatches
    <2> HIDE DEF Result
    <2> QED BY <2>8, <2>9, <2>10
  <1>2. TypeOK /\ [Next]_vars
          => [\A u \in DOMAIN found' \ DOMAIN found : u.updates /\ found'[u] # Absent =>
                LET s == IF readOnly THEN recorded'[<<found'[u], u.name>>]
                         ELSE cluster'[<<found'[u], u.name>>]
                IN  \A p \in Pairs \ warned'[u] : s.source[p] \in {Absent, s.target[p]}]_vars
    BY <1>1
  <1> QED BY TypeCorrect, <1>2, PTL DEF Spec, MismatchIsWarned

-----------------------------------------------------------------------------
(* LookupFindsMeant *)

(* Updates and renewals do not change which secrets the search accepts.      *)
LEMMA UsableKept ==
    ASSUME VersionInv, [Next]_vars, NEW ns \in Namespaces, NEW name \in Names
    PROVE  Usable(ns, name)' <=> Usable(ns, name)
  <1> PICK place : place = <<ns, name>> OBVIOUS
  <1>1. place \in Places BY DEF Places
  <1>2. \/ cluster'[place] = cluster[place]
        \/ /\ cluster[place] \in Secret /\ cluster'[place] \in Secret
           /\ cluster'[place].reference = cluster[place].reference
    BY <1>1, StoreStep
  <1> QED BY <1>2, SecretsAssumption DEF Usable

(* Hence not which one a use means either.                                   *)
LEMMA MeantKept ==
    ASSUME VersionInv, [Next]_vars, NEW u \in Uses
    PROVE  Meant(u)' = Meant(u)
  <1>1. /\ u.namespace \in Namespaces /\ u.name \in Names
        /\ Default \in Namespaces /\ Secured \in Namespaces
    BY SecretsAssumption
  <1> QED BY <1>1, UsableKept DEF Meant

(* A step of the search that ends it, does so at the right namespace.        *)
LEMMA SearchEnds ==
    ASSUME SearchInv, Lookup, faults' = 0
    PROVE  /\ faults = 0
           /\ secret' # Absent /\ step' \in {"update", "idle"} => namespace' = Meant(use)
           /\ secret' = Absent /\ step' = "idle" => Meant(use) = Absent
           /\ step' = "ownReference" => use.namespace = Default
           /\ step' \in {"ownReference", "default"} => ~Usable(use.namespace, use.name)
           /\ step' \in {"defaultReference", "secured"} =>
                 ~Usable(use.namespace, use.name) /\ ~Usable(Default, use.name)
  <1>ty. TypeOK BY DEF SearchInv
  <1>use. use \in Uses
    BY <1>ty DEF Lookup, LookInOwnNamespace, LookInDefault, FollowReference, LookInSecured, TypeOK
  <1>ns. /\ use.namespace \in Namespaces /\ use.name \in Names
         /\ Default \in Namespaces /\ Secured \in Namespaces /\ Default # Secured
    BY <1>use, SecretsAssumption DEF Default, Secured
  <1>get. ASSUME NEW ns \in Namespaces, \E ok \in BOOLEAN : GetSecret(ns, ok)
          PROVE  faults = 0 /\ secret' = cluster[<<ns, use.name>>] /\ namespace' = ns
    BY <1>ty, <1>use, <1>get, GetFacts
  <1>end. End(use, namespace') \/ End(use, Absent) => step' = "idle"
    BY DEF End
  <1>1. CASE LookInOwnNamespace
    <2>1. /\ faults = 0 /\ secret' = cluster[<<use.namespace, use.name>>]
          /\ namespace' = use.namespace
      BY <1>1, <1>ns, <1>get DEF LookInOwnNamespace
    <2>2. CASE secret' = Absent
      BY <1>1, <2>1, <2>2 DEF LookInOwnNamespace, Continue, Usable
    <2>3. CASE secret' # Absent /\ FollowsReference(use.namespace)
      BY <1>1, <2>1, <2>3 DEF LookInOwnNamespace, FollowsReference, Continue, Usable
    <2>4. CASE secret' # Absent /\ ~FollowsReference(use.namespace)
      <3>1. Usable(use.namespace, use.name)
        BY <2>1, <2>4 DEF FollowsReference, Usable
      <3>2. step' \in {"update", "idle"}
        BY <1>1, <1>end, <2>4 DEF LookInOwnNamespace, Found, Continue
      <3> QED BY <2>1, <2>4, <3>1, <3>2 DEF Meant
    <2> QED BY <2>2, <2>3, <2>4
  <1>2. CASE LookInDefault
    <2>1. /\ faults = 0 /\ secret' = cluster[<<Default, use.name>>] /\ namespace' = Default
      BY <1>2, <1>ns, <1>get DEF LookInDefault
    <2>2. ~Usable(use.namespace, use.name)
      BY <1>2, <2>1 DEF LookInDefault, SearchInv
    <2>3. CASE secret' = Absent \/ secret'.reference
      <3>1. ~Usable(Default, use.name) BY <2>1, <2>3 DEF Usable
      <3>2. step' \in {"secured", "defaultReference"}
        BY <1>2, <2>3 DEF LookInDefault, Continue
      <3> QED BY <2>1, <2>2, <3>1, <3>2
    <2>4. CASE secret' # Absent /\ ~secret'.reference
      <3>1. Usable(Default, use.name) BY <2>1, <2>4 DEF Usable
      <3>2. step' \in {"update", "idle"}
        BY <1>2, <1>end, <2>4 DEF LookInDefault, Found, Continue
      <3> QED BY <2>1, <2>2, <2>4, <3>1, <3>2 DEF Meant
    <2> QED BY <2>3, <2>4
  <1>3. CASE FollowReference \/ LookInSecured
    <2>1. /\ faults = 0 /\ secret' = cluster[<<Secured, use.name>>] /\ namespace' = Secured
      BY <1>3, <1>ns, <1>get DEF FollowReference, LookInSecured
    <2>2. ~Usable(use.namespace, use.name)
      BY <1>3, <2>1 DEF FollowReference, LookInSecured, SearchInv
    <2>3. ~Usable(Default, use.name)
      BY <1>3, <2>1 DEF FollowReference, LookInSecured, SearchInv
    <2>4. Usable(Secured, use.name) <=> secret' # Absent
      BY <1>ns, <2>1 DEF Usable
    <2>5. CASE secret' = Absent
      <3>1. Meant(use) = Absent BY <2>2, <2>3, <2>4, <2>5 DEF Meant
      <3>2. step' \in {"default", "secured", "idle"}
        BY <1>3, <1>end, <2>5 DEF FollowReference, LookInSecured, Continue, NotFound
      <3> QED BY <2>1, <2>2, <2>3, <2>5, <3>1, <3>2
    <2>6. CASE secret' # Absent
      <3>1. Meant(use) = Secured BY <2>2, <2>3, <2>4, <2>6 DEF Meant
      <3>2. step' \in {"update", "idle"}
        BY <1>3, <1>end, <2>6 DEF FollowReference, LookInSecured, Found, Continue
      <3> QED BY <2>1, <2>6, <3>1, <3>2
    <2> QED BY <2>5, <2>6
  <1> QED BY <1>1, <1>2, <1>3 DEF Lookup

(* At first nothing is looked for.                                           *)
LEMMA SearchInit == Init => SearchInv
  BY TypeInit DEF Init, SearchInv, LookupFindsMeant

(* A use that ends is right, the others stay right.                          *)
LEMMA FoundStep ==
    ASSUME SearchInv, VersionInv, [Next]_vars, faults = 0, use \in Uses,
           NEW ns \in Namespaces \cup {Absent}, End(use, ns),
           ns = Meant(use) \/ (use.updates /\ ns = Absent)
    PROVE  \A u \in DOMAIN found' : found'[u] = Meant(u)' \/ (u.updates /\ found'[u] = Absent)
  <1>ty. TypeOK BY DEF SearchInv
  <1>1. /\ DOMAIN found' = DOMAIN found \cup {use} /\ DOMAIN found' \subseteq Uses
        /\ \A v \in DOMAIN found' : found'[v] = IF v = use THEN ns ELSE found[v]
    BY <1>ty, EndType
  <1> TAKE u \in DOMAIN found'
  <1>2. Meant(u)' = Meant(u) BY <1>1, MeantKept
  <1> QED BY <1>1, <1>2 DEF SearchInv, LookupFindsMeant

(* Every step keeps SearchInv.                                               *)
LEMMA SearchStep ==
    ASSUME SearchInv, VersionInv, [Next]_vars
    PROVE  SearchInv'
  <1>ty. TypeOK /\ TypeOK' BY TypeStep DEF SearchInv
  <1>up. step' = "update" => use'.updates
    <2>1. CASE Lookup
      <3>1. ~(step' = "update" /\ (End(use, Absent) \/ End(use, namespace'))) BY DEF End
      <3> QED BY <1>ty, <2>1, <3>1, LookupType
    <2>2. CASE ~Lookup
      BY <2>2 DEF Next, Start, UpdateSecret, End, Renew, Stopped, vars, SearchInv
    <2> QED BY <2>1, <2>2
  <1> SUFFICES ASSUME faults' = 0
               PROVE  /\ step' = "ownReference" => use'.namespace = Default
                      /\ step' \in {"ownReference", "default"} =>
                            ~Usable(use.namespace, use.name)'
                      /\ step' \in {"defaultReference", "secured"} =>
                            ~Usable(use.namespace, use.name)' /\ ~Usable(Default, use.name)'
                      /\ step' = "update" => namespace' = Meant(use)'
                      /\ \A u \in DOMAIN found' :
                            found'[u] = Meant(u)' \/ (u.updates /\ found'[u] = Absent)
    BY <1>ty, <1>up DEF SearchInv, LookupFindsMeant
  <1>1. CASE Lookup
    <2>1. faults = 0 /\ use \in Uses /\ cluster' = cluster
      BY <1>1, <1>ty, SearchEnds, LookupType
    <2>2. ASSUME UNCHANGED <<use, found>>
          PROVE  /\ Usable(use.namespace, use.name)' = Usable(use.namespace, use.name)
                 /\ Usable(Default, use.name)' = Usable(Default, use.name)
                 /\ Meant(use)' = Meant(use)
      BY <2>1, <2>2 DEF Usable, Meant
    <2>3. CASE /\ UNCHANGED <<use, found>>
               /\ (secret' \in Secret /\ step' = "update") \/ step' \in Steps \ {"idle", "update"}
      <3>1. \A u \in DOMAIN found' : found'[u] = Meant(u)' \/ (u.updates /\ found'[u] = Absent)
        <4> TAKE u \in DOMAIN found'
        <4>1. u \in Uses /\ u \in DOMAIN found BY <1>ty, <2>3 DEF TypeOK
        <4>2. Meant(u)' = Meant(u) BY <4>1, MeantKept
        <4> QED BY <2>1, <2>3, <4>1, <4>2 DEF SearchInv, LookupFindsMeant
      <3> QED BY <1>1, <2>2, <2>3, <3>1, SearchEnds, SecretsAssumption
    <2>4. ASSUME NEW ns \in Namespaces \cup {Absent}, End(use, ns),
                 ns = Meant(use)
          PROVE  /\ step' = "idle"
                 /\ \A u \in DOMAIN found' :
                       found'[u] = Meant(u)' \/ (u.updates /\ found'[u] = Absent)
      BY <2>1, <2>4, FoundStep DEF End
    <2>5. CASE secret' \in Secret /\ End(use, namespace')
      <3>1. namespace' \in Namespaces /\ namespace' = Meant(use)
        BY <1>1, <1>ty, <2>5, LookupType, SearchEnds, SecretsAssumption DEF End
      <3> QED BY <2>4, <2>5, <3>1
    <2>6. CASE End(use, Absent)
      <3>1. secret' = Absent => Meant(use) = Absent
        BY <1>1, <2>6, SearchEnds DEF End
      <3>2. ASSUME secret' # Absent PROVE secret' \in Secret /\ End(use, namespace')
        <4>1. Found
          BY <1>1, <2>6, <3>2
          DEF Lookup, LookInOwnNamespace, LookInDefault, FollowReference, LookInSecured,
              Continue, End
        <4> QED BY <1>1, <1>ty, <2>6, <3>2, <4>1, LookupType DEF Found, Continue, End
      <3> QED BY <2>4, <2>5, <2>6, <3>1, <3>2
    <2> QED BY <1>1, <1>ty, <2>3, <2>5, <2>6, LookupType
  <1>2. CASE UpdateSecret
    <2>1. faults = 0 /\ use \in Uses /\ namespace = Meant(use) /\ namespace \in Namespaces
      BY <1>2, <1>ty DEF UpdateSecret, SearchInv, LookupFindsMeant, TypeOK
    <2>2. use.updates /\ (End(use, namespace) \/ End(use, Absent))
      BY <1>2 DEF UpdateSecret, SearchInv
    <2>3. step' = "idle" BY <2>2 DEF End
    <2> QED BY <2>1, <2>2, <2>3, FoundStep
  <1>3. CASE Start \/ Renew \/ UNCHANGED vars
    <2>1. faults = 0 /\ found' = found
      BY <1>3 DEF Start, Renew, vars
    <2>2. \A u \in DOMAIN found' : found'[u] = Meant(u)' \/ (u.updates /\ found'[u] = Absent)
      <3> TAKE u \in DOMAIN found'
      <3>1. u \in Uses /\ u \in DOMAIN found BY <1>ty, <2>1 DEF TypeOK
      <3>2. Meant(u)' = Meant(u) BY <3>1, MeantKept
      <3> QED BY <2>1, <3>1, <3>2 DEF SearchInv, LookupFindsMeant
    <2>3. CASE Start
      BY <2>2, <2>3 DEF Start
    <2>4. CASE Renew \/ UNCHANGED vars
      <3>1. UNCHANGED <<use, step, namespace>> BY <2>4 DEF Renew, vars
      <3>2. ASSUME step # "idle"
            PROVE  /\ Usable(use.namespace, use.name)' = Usable(use.namespace, use.name)
                   /\ Usable(Default, use.name)' = Usable(Default, use.name)
                   /\ Meant(use)' = Meant(use)
        <4> PICK u : u = use OBVIOUS
        <4>1. u \in Uses BY <1>ty, <3>2 DEF TypeOK
        <4>2. /\ u.namespace \in Namespaces /\ u.name \in Names /\ Default \in Namespaces
          BY <4>1, SecretsAssumption
        <4>3. /\ Usable(u.namespace, u.name)' <=> Usable(u.namespace, u.name)
              /\ Usable(Default, u.name)' <=> Usable(Default, u.name)
              /\ Meant(u)' = Meant(u)
          BY <4>1, <4>2, UsableKept, MeantKept
        <4> QED BY <3>1, <4>3 DEF Usable, Meant
      <3> QED BY <2>1, <2>2, <3>1, <3>2 DEF SearchInv, LookupFindsMeant
    <2> QED BY <1>3, <2>3, <2>4
  <1> QED BY <1>1, <1>2, <1>3 DEF Next, Stopped

(* LookupFindsMeant: whatever secrets there are, references or not, the       *)
(* search ends at the one that is meant, as long as no read fails.           *)
THEOREM SearchIsRight == Spec => []LookupFindsMeant
  <1>1. SearchInv => LookupFindsMeant
    BY DEF SearchInv
  <1> QED BY SearchInit, SearchStep, VersionInit, VersionStep, <1>1, PTL DEF Spec

=============================================================================
