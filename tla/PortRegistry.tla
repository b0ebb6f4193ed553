---------------------------- MODULE PortRegistry ----------------------------
(***************************************************************************)
(* What the migration of TCP ports promises, whatever requests it takes: a *)
(* port of an ALB is claimed by one backend in a run, the ConfigMap of the *)
(* ALB only ever gets claimed ports, and no port of it is dropped.         *)
(***************************************************************************)
CONSTANTS Keys,     \* an ALB, or all of them
          Ports, Backends, None

VARIABLES claims,   \* who claimed a port in this run
          table     \* the TCP ConfigMaps

Table == [Keys -> [Ports -> Backends \cup {None}]]

Unclaimed == [a \in Keys |-> [p \in Ports |-> None]]

Init == table \in Table /\ claims = Unclaimed

(* A claim is never taken over.                                             *)
Claim ==
    /\ claims' \in Table
    /\ \A a \in Keys, p \in Ports : claims[a][p] # None => claims'[a][p] = claims[a][p]
    /\ UNCHANGED table

(* What changes is what was claimed.                                        *)
Publish ==
    /\ table' \in Table
    /\ \A a \in Keys, p \in Ports :
          table'[a][p] # table[a][p] => /\ claims[a][p] # None
                                        /\ table'[a][p] = claims[a][p]
    /\ UNCHANGED claims

NewRun == claims' = Unclaimed /\ UNCHANGED table

Next == Claim \/ Publish \/ NewRun

Spec == Init /\ [][Next]_<<claims, table>>

=============================================================================
