---------------------------- MODULE MCMigration -----------------------------
(***************************************************************************)
(* Instances of MigrationProperties for TLC.                               *)
(***************************************************************************)
EXTENDS MigrationProperties, TLC

AllPorts == {"p1", "p2"}
AllBackends == {"x", "y"}
AllAlbs == {"public1", "private1"}

MCPrivateAlbs == {"private1"}
MCSkipNames == {"alb-health"}

Port1(x) == [p \in AllPorts |-> IF p = "p1" THEN x ELSE Absent]
Port2(x) == [p \in AllPorts |-> IF p = "p2" THEN x ELSE Absent]
Both(x) == [p \in AllPorts |-> x]
None == [p \in AllPorts |-> Absent]

Plain == [class |-> "none", albs |-> {NoAlb}, ports |-> None,
          parts |-> {}, unrenderable |-> {}, outcome |-> "ok", secrets |-> "none"]

(* What the tool would make of a generated Ingress, if it did not skip it.   *)
Again == [Plain EXCEPT !.parts = {"again"}]

ConfOf(map, names) == [n \in names |-> IF n \in DOMAIN map THEN map[n] ELSE Again]

OpenBoth == {[params |-> TRUE, public |-> AllPorts, private |-> {"p1"}]}
ClosedPrivate == {[params |-> FALSE, public |-> AllPorts, private |-> {}]}
OpenOrMissing == OpenBoth \cup {Absent}
OpenClosedOrMissing == OpenOrMissing \cup ClosedPrivate

NoTcpCms == {[a \in AllAlbs \cup {NoAlb} |-> Absent]}

(* A TCP ConfigMap with a port of the user, or without any.                  *)
SomeTcpCms ==
    {[a \in AllAlbs \cup {NoAlb} |-> IF a = "public1" THEN cm ELSE Absent] :
        cm \in {Absent, None, Port2("y")}}

-----------------------------------------------------------------------------
(* Everything that can happen to an Ingress in one run.                      *)
OneRunUsers == {"a", "b", "alb-health", "done"}
OneRunNames == OneRunUsers \cup {"a-svc", "a-server", "b-server", "again"}
OneRunConf == ConfOf(
    "a" :> [Plain EXCEPT !.parts = {"a-svc", "a-server"}, !.albs = {"public1", "private1"},
                         !.ports = Both("x"), !.secrets = "ssl-services"] @@
    "b" :> [Plain EXCEPT !.parts = {"b-server"}, !.albs = {"public1"}, !.ports = Port1("x")] @@
    "done" :> [Again EXCEPT !.class = "public-iks-k8s-nginx"],
    OneRunNames)

(* Ingresses that do not go well: collision, template, secrets, annotations. *)
(* "p" panics, but in the test mode, where it is skipped.                    *)
TroubleUsers == {"a", "b", "c", "m", "p", "x"}
TroubleNames ==
    TroubleUsers \cup {"a-server", "b-server", "c-svc", "c-server", "m-server", "p-server", "x-server",
                     "again"}
TroubleConf == ConfOf(
    "a" :> [Plain EXCEPT !.parts = {"a-server"}, !.albs = {"public1", NoAlb}, !.ports = Both("x")] @@
    "b" :> [Plain EXCEPT !.parts = {"b-server"}, !.albs = {"public1"},
                         !.ports = ("p1" :> "y" @@ "p2" :> "x")] @@
    "c" :> [Plain EXCEPT !.parts = {"c-svc", "c-server"}, !.unrenderable = {"c-svc"},
                         !.secrets = "ssl-services"] @@
    "m" :> [Plain EXCEPT !.parts = {"m-server"}, !.secrets = "mutual-auth"] @@
    "p" :> [Plain EXCEPT !.parts = {"p-server"}, !.albs = {"private1"}, !.outcome = "panic"] @@
    "x" :> [Plain EXCEPT !.parts = {"x-server"}, !.outcome = "error"],
    TroubleNames)

(* Two runs, in any two modes.                                               *)
RerunUsers == {"a", "b"}
RerunNames == RerunUsers \cup {"a-svc", "a-server", "b-server", "again"}
RerunConf == ConfOf(
    "a" :> [Plain EXCEPT !.parts = {"a-svc", "a-server"}, !.albs = {"public1"}, !.ports = Port1("x")] @@
    "b" :> [Plain EXCEPT !.parts = {"b-server"}, !.albs = {"public1", "private1"}, !.ports = Port2("y")],
    RerunNames)

ASSUME NamesApartAssumption == NamesApart

=============================================================================
