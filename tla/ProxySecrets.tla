---------------------------- MODULE ProxySecrets ----------------------------
(***************************************************************************)
(* The secrets of the ssl-services and mutual-auth annotations: LookupSecret *)
(* searches up to three namespaces, and UpdateProxySecret adds the keys to *)
(* the secret that the Kubernetes Ingress controller reads.                *)
(*                                                                         *)
(* Every step is one request.  Between two of them somebody else, say the  *)
(* certificate manager, may renew a secret; a request may fail.            *)
(***************************************************************************)
EXTENDS Naturals

CONSTANTS
    Names,          \* of secrets
    Namespaces,     \* "default" and securedNamespace among them
    Pairs,          \* source and target key, e.g. "trusted.crt" and "ca.crt"
    Contents,       \* of keys
    Absent,         \* no such key, secret or namespace
    Uses,           \* [namespace, name, updates] of the annotations
    Stores,         \* the secrets there may be at first
    MaxFaults, MaxRenewals

Default == "default"
Secured == "ibm-cert-store"

Keys == [Pairs -> Contents \cup {Absent}]

(* A reference secret has a key "referenceSecret".  The version is the       *)
(* resourceVersion: an update of a secret that has another one by now fails. *)
Secret == [source : Keys, target : Keys, reference : BOOLEAN, version : Nat]

Places == Namespaces \X Names

ASSUME SecretsAssumption ==
    /\ {Default, Secured} \subseteq Namespaces
    /\ Absent \notin Contents /\ Absent \notin Secret /\ Absent \notin Namespaces
    /\ Uses \subseteq [namespace : Namespaces, name : Names, updates : BOOLEAN]
    /\ Stores \subseteq [Places -> Secret \cup {Absent}]
    /\ MaxFaults \in Nat /\ MaxRenewals \in Nat

VARIABLES
    cluster,    \* the secrets of the API server
    recorded,   \* secretContainer
    todo,       \* the uses that are still to be looked at, in any order
    use,        \* the one that is, or Absent
    step,       \* which of the reads of LookupSecret is next, or the update
    secret,     \* what LookupSecret found, and in which namespace
    namespace,
    found,      \* the namespace each use was found in, Absent if in none
    warned,     \* the pairs each use was warned of
    faults, renewals,
    readOnly    \* config.go: ReadOnly

vars == <<cluster, recorded, todo, use, step, secret, namespace, found, warned, faults, renewals, readOnly>>

Steps == {"idle", "own", "ownReference", "default", "defaultReference", "secured", "update"}

-----------------------------------------------------------------------------
Init ==
    /\ cluster \in Stores /\ recorded = [p \in Places |-> Absent]
    /\ todo = Uses /\ use = Absent /\ step = "idle" /\ secret = Absent /\ namespace = Absent
    /\ found = [u \in {} |-> Absent] /\ warned = [u \in {} |-> {}]
    /\ faults = 0 /\ renewals = 0 /\ readOnly \in BOOLEAN

Note(f, u, x) == [v \in DOMAIN f \cup {u} |-> IF v = u THEN x ELSE f[v]]

(* UpdateProxySecret or, for mutual-auth, LookupSecret is called.            *)
Start ==
    /\ step = "idle"
    /\ \E u \in todo : use' = u /\ todo' = todo \ {u}
    /\ step' = "own"
    /\ UNCHANGED <<cluster, recorded, secret, namespace, found, warned, faults, renewals, readOnly>>

(* kc.GetSecret: LookupSecret takes every error for a missing secret.        *)
GetSecret(ns, ok) ==
    /\ ok \/ faults < MaxFaults
    /\ faults' = IF ok THEN faults ELSE faults + 1
    /\ secret' = IF ok THEN cluster[<<ns, use.name>>] ELSE Absent
    /\ namespace' = ns

End(u, ns) ==
    /\ found' = Note(found, u, ns)
    /\ use' = Absent /\ step' = "idle"

Continue(label) == step' = label /\ UNCHANGED <<use, found>>

(* A secret is found: it is updated, or that was all.                        *)
Found == IF use.updates THEN Continue("update") ELSE End(use, namespace')

(* Mutant: the error of LookupSecret is not looked at.                       *)
NotFoundIgnored == Found

NotFound == End(use, Absent)

(* Mutant: a reference is taken for the secret.                              *)
NeverReference(ns) == FALSE

FollowsReference(ns) == ns = Default /\ secret'.reference

LookInOwnNamespace ==
    /\ step = "own"
    /\ \E ok \in BOOLEAN : GetSecret(use.namespace, ok)
    /\ IF secret' = Absent THEN Continue("default")
       ELSE IF FollowsReference(use.namespace) THEN Continue("ownReference") ELSE Found
    /\ UNCHANGED <<cluster, recorded, todo, warned, renewals, readOnly>>

LookInDefault ==
    /\ step = "default"
    /\ \E ok \in BOOLEAN : GetSecret(Default, ok)
    /\ IF secret' = Absent THEN Continue("secured")
       ELSE IF secret'.reference THEN Continue("defaultReference") ELSE Found
    /\ UNCHANGED <<cluster, recorded, todo, warned, renewals, readOnly>>

(* A reference leads to the secured namespace; if it leads nowhere the       *)
(* search goes on.                                                           *)
FollowReference ==
    /\ step \in {"ownReference", "defaultReference"}
    /\ \E ok \in BOOLEAN : GetSecret(Secured, ok)
    /\ IF secret' = Absent
       THEN Continue(IF step = "ownReference" THEN "default" ELSE "secured")
       ELSE Found
    /\ UNCHANGED <<cluster, recorded, todo, warned, renewals, readOnly>>

LookInSecured ==
    /\ step = "secured"
    /\ \E ok \in BOOLEAN : GetSecret(Secured, ok)
    /\ IF secret' = Absent THEN NotFound ELSE Found
    /\ UNCHANGED <<cluster, recorded, todo, warned, renewals, readOnly>>

-----------------------------------------------------------------------------
(* Mutant: the source key is copied also when there is a target key.         *)
CopiedOver(s) ==
    [s EXCEPT !.target = [p \in Pairs |-> IF s.source[p] # Absent THEN s.source[p] ELSE @[p]]]

(* copySecretKeyOrWarningIfNotEqual, for all keys.                           *)
Copied(s) ==
    [s EXCEPT !.target =
        [p \in Pairs |-> IF @[p] = Absent /\ s.source[p] # Absent THEN s.source[p] ELSE @[p]]]

(* Mutant: no comparison with what is there.                                 *)
NoMismatch(s) == {}

Mismatches(s) ==
    {p \in Pairs : s.source[p] # Absent /\ s.target[p] \notin {Absent, s.source[p]}}

(* Mutant: an update that does not look at the version.                      *)
AnyVersion(place, s) == TRUE

(* What the API server makes of the version in an update.                    *)
SameVersion(place, s) == cluster[place] # Absent /\ cluster[place].version = s.version

Updated(s) == [Copied(s) EXCEPT !.version = @ + 1]

(* UpdateSecret records the secret and then sends it.                        *)
UpdateSecret ==
    /\ step = "update"
    /\ LET place == <<namespace, use.name>>
       IN  /\ recorded' = [recorded EXCEPT ![place] = Copied(secret)]
           /\ \/ /\ readOnly \/ SameVersion(place, secret)
                 /\ cluster' = IF readOnly THEN cluster
                               ELSE [cluster EXCEPT ![place] = Updated(secret)]
                 /\ End(use, namespace)
                 /\ UNCHANGED faults
              \/ /\ ~readOnly /\ ~SameVersion(place, secret)
                 /\ End(use, Absent)
                 /\ UNCHANGED <<cluster, faults>>
              \/ /\ ~readOnly /\ faults < MaxFaults
                 /\ faults' = faults + 1
                 /\ End(use, Absent)
                 /\ UNCHANGED cluster
    /\ warned' = Note(warned, use, Mismatches(secret))
    /\ UNCHANGED <<todo, secret, namespace, renewals, readOnly>>

(* Somebody else gives a secret a new content.                               *)
Renew ==
    /\ renewals < MaxRenewals
    /\ renewals' = renewals + 1
    /\ \E place \in Places, p \in Pairs, c \in Contents :
          /\ cluster[place] # Absent /\ cluster[place].source[p] \notin {Absent, c}
          /\ cluster' = [cluster EXCEPT ![place].source[p] = c, ![place].version = @ + 1]
    /\ UNCHANGED <<recorded, todo, use, step, secret, namespace, found, warned, faults, readOnly>>

Stopped == step = "idle" /\ todo = {} /\ UNCHANGED vars

Lookup == LookInOwnNamespace \/ LookInDefault \/ FollowReference \/ LookInSecured

Next == Start \/ Lookup \/ UpdateSecret \/ Renew \/ Stopped

Spec == Init /\ [][Next]_vars

-----------------------------------------------------------------------------
(* What each variable may hold; the update runs only with a secret at hand   *)
(* (UpdateProxySecret returns the error of LookupSecret).                    *)
TypeOK ==
    /\ cluster \in [Places -> Secret \cup {Absent}]
    /\ recorded \in [Places -> Secret \cup {Absent}]
    /\ todo \subseteq Uses /\ use \in Uses \cup {Absent}
    /\ step \in Steps /\ (step # "idle" => use \in Uses)
    /\ secret \in Secret \cup {Absent} /\ namespace \in Namespaces \cup {Absent}
    /\ step = "update" => secret \in Secret /\ namespace \in Namespaces
    /\ DOMAIN found \subseteq Uses /\ DOMAIN warned \subseteq Uses
    /\ \A u \in DOMAIN found : found[u] \in Namespaces \cup {Absent}
    /\ \A u \in DOMAIN warned : warned[u] \subseteq Pairs
    /\ faults \in Nat /\ renewals \in Nat /\ readOnly \in BOOLEAN

(* The namespace whose secret a use means, as the comment in LookupSecret    *)
(* says it: its own, then default, where a reference does not count, then    *)
(* the secured one.                                                          *)
Usable(ns, name) ==
    cluster[<<ns, name>>] # Absent /\ (ns = Default => ~cluster[<<ns, name>>].reference)

Meant(u) ==
    IF Usable(u.namespace, u.name) THEN u.namespace
    ELSE IF Usable(Default, u.name) THEN Default
    ELSE IF Usable(Secured, u.name) THEN Secured ELSE Absent

(* Whatever is a reference and whatever is missing, the search ends at the   *)
(* secret that is meant, as long as no read fails: a failed read is taken for *)
(* a missing secret (LookupSecret, utils.go:286-295).                        *)
LookupFindsMeant == faults = 0 =>
    /\ step = "update" => namespace = Meant(use)
    /\ \A u \in DOMAIN found : found[u] = Meant(u) \/ (u.updates /\ found[u] = Absent)

(* It is inductive with what the search has ruled out so far.                *)
SearchInv ==
    /\ TypeOK
    /\ step = "update" => use.updates
    /\ faults = 0 =>
          /\ step = "ownReference" => use.namespace = Default
          /\ step \in {"ownReference", "default"} => ~Usable(use.namespace, use.name)
          /\ step \in {"defaultReference", "secured"} =>
                ~Usable(use.namespace, use.name) /\ ~Usable(Default, use.name)
    /\ LookupFindsMeant

(* The secret at hand is an older version of the one there is, or the same.  *)
VersionInv ==
    /\ TypeOK
    /\ step = "update" =>
          LET there == cluster[<<namespace, use.name>>]
          IN  /\ there # Absent /\ secret.version <= there.version
              /\ there.version = secret.version => there = secret

(* The tool adds target keys to secrets and changes nothing else in them,    *)
(* in particular nothing that was renewed since it read the secret           *)
(* (UpdateProxySecret).                                                      *)
OnlyTargetsAdded ==
    [][renewals' = renewals => \A place \in Places :
          cluster'[place] # cluster[place] =>
             /\ cluster'[place].source = cluster[place].source
             /\ \A p \in Pairs : cluster[place].target[p] # Absent =>
                   cluster'[place].target[p] = cluster[place].target[p]]_vars

(* A secret that the tool puts into an annotation works for the Kubernetes   *)
(* controller as it did before, or there is a warning for this use: in what  *)
(* it writes each target key has the content of its source key, whoever      *)
(* used or renewed the secret before (SSLServicesSecretWarning).             *)
MismatchIsWarned ==
    [][\A u \in DOMAIN found' \ DOMAIN found : u.updates /\ found'[u] # Absent =>
        LET s == IF readOnly THEN recorded'[<<found'[u], u.name>>]
                 ELSE cluster'[<<found'[u], u.name>>]
        IN  \A p \in Pairs \ warned'[u] : s.source[p] \in {Absent, s.target[p]}]_vars

=============================================================================
