-------------------------------- MODULE Wfp --------------------------------
(***************************************************************************)
(* The kill switch filter by filter: win/wfp.rs under the facade of        *)
(* killswitch.rs.  The filters are added one call at a time, any call may  *)
(* fail, and the process may die between two of them; there is no          *)
(* transaction.  App.sync is the facade as the rest of the program uses it.*)
(*                                                                         *)
(* The filtering platform is external: of the filters of a layer that      *)
(* match, the heaviest decides, and closing a dynamic session removes its  *)
(* filters.                                                                *)
(***************************************************************************)
EXTENDS Naturals, Sequences

CONSTANTS V4, V6,        \* the addresses of the outside world
          EndpointLists  \* what endpoint_ips may return

ASSUME WfpAssumption ==
  /\ V4 \cap V6 = {}
  /\ {"any", "loopback"} \cap (V4 \cup V6) = {}
  /\ EndpointLists \subseteq Seq(V4 \cup V6)

Layers == {"v4", "v6"}     \* FWPM_LAYER_ALE_AUTH_CONNECT_V4 and _V6

Filter == [layer : Layers, cond : {"any", "loopback"} \cup V4,
           action : {"block", "permit"}, weight : 0 .. 15]

-----------------------------------------------------------------------------
(* What install adds, call by call. *)

\* A mistake: the weights of the first filters are swapped.
block_all_Heaviest(layer) ==
  [layer |-> layer, cond |-> "any", action |-> "block", weight |-> 15]

block_all(layer) == [layer |-> layer, cond |-> "any", action |-> "block", weight |-> 0]

permit_loopback(layer) ==
  [layer |-> layer, cond |-> "loopback", action |-> "permit", weight |-> 15]

permit_endpoint(ip) ==
  [layer |-> "v4", cond |-> ip, action |-> "permit", weight |-> 10]

\* What the i-th step of install adds, for the endpoints ips: only an IPv4
\* address gets a filter.
Step(ips, i) ==
  CASE i = 1 -> {block_all("v4")}
    [] i = 2 -> {block_all("v6")}
    [] i = 3 -> {permit_loopback("v4")}
    [] i = 4 -> {permit_loopback("v6")}
    [] OTHER -> IF ips[i - 4] \in V4 THEN {permit_endpoint(ips[i - 4])} ELSE {}

Steps(ips) == 4 + Len(ips)

-----------------------------------------------------------------------------
VARIABLES up,         \* the wrapper runs
          active,     \* KillSwitch::active
          installing, \* engage is at its calls
          session,    \* the engine handle: "closed", "dynamic" or "static"
          sublayer,   \* the sublayer was added
          added,      \* calls of install that were made
          given,      \* endpoint_ips of the last engage
          filters     \* the filters in force

wfpVars == <<up, active, installing, session, sublayer, added, given, filters>>

NoSwitch == ~active /\ ~installing

WfpInit ==
  /\ up = FALSE /\ active = FALSE /\ installing = FALSE
  /\ session = "closed" /\ sublayer = FALSE
  /\ added = 0 /\ given = <<>> /\ filters = {}

\* FwpmEngineClose0, or the process is gone.
Close ==
  /\ session' = "closed" /\ sublayer' = FALSE /\ added' = 0 /\ given' = <<>>
  /\ filters' = IF session = "dynamic" THEN {} ELSE filters

\* A mistake: the session is not dynamic.
Engage_Static ==
  /\ up /\ NoSwitch
  /\ session' = "static" /\ installing' = TRUE
  /\ given' \in EndpointLists
  /\ UNCHANGED <<up, active, sublayer, added, filters>>

\* sync from off to on, up to FwpmEngineOpen0; one that fails changes nothing.
Engage ==
  /\ up /\ NoSwitch
  /\ session' = "dynamic" /\ installing' = TRUE
  /\ given' \in EndpointLists
  /\ UNCHANGED <<up, active, sublayer, added, filters>>

AddSublayer ==
  /\ installing /\ ~sublayer
  /\ sublayer' = TRUE
  /\ UNCHANGED <<up, active, installing, session, added, given, filters>>

\* A mistake: the switch counts as on before the endpoints are permitted.
AddFilter_OnTooEarly ==
  /\ installing /\ sublayer
  /\ added' = added + 1
  /\ filters' = filters \cup Step(given, added')
  /\ active' = (added' = 4) /\ installing' = ~active'
  /\ UNCHANGED <<up, session, sublayer, given>>

\* The switch is on when the last call has returned.
AddFilter ==
  /\ installing /\ sublayer
  /\ added' = added + 1
  /\ filters' = filters \cup Step(given, added')
  /\ active' = (added' = Steps(given)) /\ installing' = ~active'
  /\ UNCHANGED <<up, session, sublayer, given>>

\* A mistake: the error is returned with the session open.
InstallFails_KeepsSession ==
  /\ installing /\ installing' = FALSE
  /\ UNCHANGED <<up, active, session, sublayer, added, given, filters>>

\* FwpmSubLayerAdd0 or FwpmFilterAdd0 fails.
InstallFails ==
  /\ installing /\ installing' = FALSE
  /\ Close
  /\ UNCHANGED <<up, active>>

\* sync from on to off.
Disengage ==
  /\ up /\ active
  /\ active' = FALSE
  /\ Close
  /\ UNCHANGED <<up, installing>>

Launch ==
  /\ ~up /\ up' = TRUE
  /\ UNCHANGED <<active, installing, session, sublayer, added, given, filters>>

\* The wrapper exits, which closes no handle itself, or dies.
Dies ==
  /\ up /\ up' = FALSE /\ active' = FALSE /\ installing' = FALSE
  /\ Close

WfpNext ==
  \/ Engage \/ AddSublayer \/ AddFilter \/ InstallFails \/ Disengage
  \/ Launch \/ Dies

WfpSpec == WfpInit /\ [][WfpNext]_wfpVars

-----------------------------------------------------------------------------
(* Properties. *)

\* A connection attempt goes through a layer to an address, or to the machine
\* itself.
Attempt == [layer : {"v4"}, to : V4 \cup {"loopback"}] \cup [layer : {"v6"}, to : V6 \cup {"loopback"}]

Matching(a) == {f \in filters : f.layer = a.layer /\ f.cond \in {"any", a.to}}

\* The heaviest filter that matches decides.
Blocked(a) ==
  \E f \in Matching(a) :
    /\ f.action = "block"
    /\ \A g \in Matching(a) : g.weight <= f.weight

Endpoints == {given[i] : i \in DOMAIN given}

\* Only a session that is open has filters, and at most those of install.
WfpTypeOK ==
  /\ up \in BOOLEAN /\ active \in BOOLEAN /\ sublayer \in BOOLEAN /\ installing \in BOOLEAN
  /\ session \in {"closed", "dynamic"}
  /\ given \in EndpointLists \cup {<<>>}
  /\ added \in 0 .. Steps(given)
  /\ filters \subseteq Filter
  /\ sublayer => session # "closed"
  /\ session # "closed" <=> (active \/ installing)
  /\ ~(active /\ installing)
  /\ session # "closed" => up
  /\ active <=> (sublayer /\ added = Steps(given))

\* Engaged, the switch blocks every attempt on both layers but to the machine
\* itself and to the endpoint's IPv4 addresses, and does not block those: the
\* engine can reconnect and nothing else gets out (wfp.rs: "block all outbound
\* v4+v6 EXCEPT loopback and the endpoint IPs").
FailClosed ==
  active => \A a \in Attempt :
    Blocked(a) <=> a.to \notin {"loopback"} \cup (Endpoints \cap V4)

\* Whenever the switch is off and no install is under way, nothing is blocked:
\* neither a call that failed half way nor a death at any call can lock the
\* machine off the network (wfp.rs: "a bug or crash can never permanently lock").
NeverLockedOut == ~active /\ ~installing => \A a \in Attempt : ~Blocked(a)
=============================================================================
