----------------------------- MODULE WfpProofs -----------------------------
(***************************************************************************)
(* Theorems about Wfp, for any addresses and any list of endpoints.        *)
(***************************************************************************)
EXTENDS Wfp, TLAPS

\* What is in force is what install has added so far, and nothing else.
Installed ==
  /\ filters = UNION {Step(given, i) : i \in 1 .. added}
  /\ session = "closed" => given = <<>>
  /\ ~sublayer => added = 0

WfpInv == WfpTypeOK /\ Installed

-----------------------------------------------------------------------------
LEMMA StepsType ==
  ASSUME NEW ips \in EndpointLists \cup {<<>>}
  PROVE  /\ ips \in Seq(V4 \cup V6)
         /\ Len(ips) \in Nat /\ Steps(ips) \in Nat /\ Steps(ips) >= 4
<1>1. CASE ips \in EndpointLists
  BY <1>1, WfpAssumption DEF Steps
<1>2. CASE ips = <<>>
  <2>1. ips \in Seq(V4 \cup V6) /\ Len(ips) = 0
    BY <1>2
  <2> QED
    BY <2>1 DEF Steps
<1> QED
  BY <1>1, <1>2

LEMMA StepType ==
  ASSUME NEW ips \in EndpointLists \cup {<<>>}, NEW i \in 1 .. Steps(ips)
  PROVE  Step(ips, i) \subseteq Filter
<1>1. CASE i \in 1 .. 4
  BY <1>1 DEF Step, Filter, Layers, block_all, permit_loopback
<1>2. CASE i > 4
  <2>1. i - 4 \in 1 .. Len(ips) /\ ips[i - 4] \in V4 \cup V6
    BY <1>2, StepsType DEF Steps
  <2>2. Step(ips, i) = IF ips[i - 4] \in V4 THEN {permit_endpoint(ips[i - 4])} ELSE {}
    BY <1>2 DEF Step
  <2> QED
    BY <2>1, <2>2 DEF permit_endpoint, Filter, Layers
<1> QED
  BY <1>1, <1>2, StepsType

\* Closing the session leaves no filter.
LEMMA CloseKeeps ==
  ASSUME WfpInv, Close, active' = FALSE, installing' = FALSE, up' \in BOOLEAN
  PROVE  WfpInv'
<1>1. filters' = {}
  <2>1. CASE session = "dynamic"
    BY <2>1 DEF Close
  <2>2. CASE session = "closed"
    <3>1. added = 0
      BY <2>2 DEF WfpInv, WfpTypeOK, Installed
    <3> QED
      BY <2>2, <3>1 DEF Close, WfpInv, Installed
  <2> QED
    BY <2>1, <2>2 DEF WfpInv, WfpTypeOK
<1>2. session' = "closed" /\ sublayer' = FALSE /\ added' = 0 /\ given' = <<>>
  BY DEF Close
<1>3. Steps(given)' \in Nat /\ Steps(given)' >= 4
  <2>1. Steps(given') \in Nat /\ Steps(given') >= 4
    BY <1>2, StepsType
  <2> QED
    BY <2>1 DEF Steps
<1>4. WfpTypeOK'
  <2>1. 0 \in 0 .. Steps(given)' /\ 0 # Steps(given)'
    BY <1>3
  <2>2. added' \in 0 .. Steps(given)' /\ added' # Steps(given)'
    BY <1>2, <2>1
  <2> QED
    BY <1>1, <1>2, <2>2, Zenon DEF WfpTypeOK
<1> QED
  BY <1>1, <1>2, <1>4 DEF WfpInv, Installed

LEMMA AddFilterKeeps ==
  ASSUME WfpInv, AddFilter
  PROVE  WfpInv'
<1>1. /\ UNCHANGED <<up, session, sublayer, given>> /\ sublayer /\ session # "closed"
      /\ installing /\ added' = added + 1 /\ active' = (added' = Steps(given))
      /\ installing' = ~active'
      /\ filters' = filters \cup Step(given, added')
  BY DEF AddFilter, WfpInv, WfpTypeOK
<1>2. Steps(given) \in Nat /\ added \in 0 .. Steps(given) /\ given \in EndpointLists \cup {<<>>}
  BY StepsType DEF WfpInv, WfpTypeOK
<1>3. added' \in 1 .. Steps(given)
  BY <1>1, <1>2 DEF WfpInv, WfpTypeOK
<1>4. Step(given, added') \subseteq Filter
  BY <1>2, <1>3, StepType
<1>5. WfpTypeOK'
  <2>1. up' /\ session' = "dynamic"
    BY <1>1 DEF WfpInv, WfpTypeOK
  <2>2. Steps(given)' = Steps(given) /\ added' \in 0 .. Steps(given)
    BY <1>1, <1>2, <1>3 DEF Steps
  <2>3. active' \in BOOLEAN /\ installing' \in BOOLEAN /\ (active' <=> added' = Steps(given))
    BY <1>1
  <2>4. filters' \subseteq Filter
    BY <1>1, <1>4 DEF WfpInv, WfpTypeOK
  <2> QED
    BY <1>1, <2>1, <2>2, <2>3, <2>4 DEF WfpInv, WfpTypeOK
<1>6. filters' = UNION {Step(given, i) : i \in 1 .. added'}
  <2>1. filters = UNION {Step(given, i) : i \in 1 .. added}
    BY DEF WfpInv, Installed
  <2>2. 1 .. added' = (1 .. added) \cup {added'}
    BY <1>1, <1>2, <1>3
  <2> QED
    BY <1>1, <2>1, <2>2
<1>7. Installed'
  BY <1>1, <1>6 DEF Installed
<1> QED
  BY <1>5, <1>7 DEF WfpInv

LEMMA EngageKeeps ==
  ASSUME WfpInv, Engage
  PROVE  WfpInv'
<1>1. /\ UNCHANGED <<up, active, sublayer, added, filters>> /\ up /\ session = "closed" /\ ~active
      /\ session' = "dynamic" /\ installing' = TRUE /\ given' \in EndpointLists
  BY DEF Engage, NoSwitch, WfpInv, WfpTypeOK
<1>2. added = 0 /\ filters = {} /\ ~sublayer
  BY <1>1 DEF WfpInv, WfpTypeOK, Installed
<1>3. Steps(given') \in Nat /\ Steps(given') >= 4
  BY <1>1, StepsType
<1>4. Steps(given)' = Steps(given')
  BY DEF Steps
<1>5. WfpTypeOK'
  BY <1>1, <1>2, <1>3, <1>4 DEF WfpInv, WfpTypeOK
<1>6. Installed'
  BY <1>1, <1>2 DEF Installed
<1> QED
  BY <1>5, <1>6 DEF WfpInv

\* WfpInv is an invariant of Wfp.
THEOREM WfpInvariant == WfpSpec => []WfpInv
<1>1. WfpInit => WfpInv
  <2> SUFFICES ASSUME WfpInit PROVE WfpInv
    OBVIOUS
  <2>1. given \in EndpointLists \cup {<<>>} /\ added = 0 /\ filters = {}
    BY DEF WfpInit
  <2>2. Steps(given) \in Nat /\ Steps(given) >= 4
    BY <2>1, StepsType
  <2>3. WfpTypeOK
    <3>1. 0 \in 0 .. Steps(given) /\ 0 # Steps(given)
      BY <2>2
    <3> QED
      BY <2>1, <3>1, Zenon DEF WfpInit, WfpTypeOK
  <2>4. Installed
    BY <2>1 DEF WfpInit, Installed
  <2> QED
    BY <2>3, <2>4 DEF WfpInv
<1>2. WfpInv /\ [WfpNext]_wfpVars => WfpInv'
  <2> SUFFICES ASSUME WfpInv, [WfpNext]_wfpVars
               PROVE  WfpInv'
    OBVIOUS
  <2>1. CASE Engage
    BY <2>1, EngageKeeps
  <2>2. CASE AddSublayer
    <3>1. /\ UNCHANGED <<up, active, installing, session, added, given, filters>>
          /\ sublayer' = TRUE /\ session # "closed" /\ ~active /\ added = 0
      BY <2>2 DEF AddSublayer, WfpInv, WfpTypeOK, Installed
    <3>2. Steps(given)' = Steps(given) /\ Steps(given) \in Nat /\ Steps(given) >= 4
      BY <3>1, StepsType DEF Steps, WfpInv, WfpTypeOK
    <3>3. up
      BY <3>1, <2>2 DEF WfpInv, Installed, WfpTypeOK
    <3> QED
      BY <3>1, <3>2, <3>3 DEF WfpInv, WfpTypeOK, Installed
  <2>3. CASE AddFilter
    BY <2>3, AddFilterKeeps
  <2>4. CASE InstallFails
    BY <2>4, CloseKeeps DEF InstallFails, WfpInv, WfpTypeOK
  <2>5. CASE Disengage
    BY <2>5, CloseKeeps DEF Disengage, WfpInv, WfpTypeOK
  <2>6. CASE Launch
    BY <2>6 DEF Launch, WfpInv, WfpTypeOK, Installed, Steps
  <2>7. CASE Dies
    BY <2>7, CloseKeeps DEF Dies, WfpInv, WfpTypeOK
  <2>8. CASE UNCHANGED wfpVars
    BY <2>8 DEF wfpVars, WfpInv, WfpTypeOK, Installed, Steps
  <2> QED
    BY <2>1, <2>2, <2>3, <2>4, <2>5, <2>6, <2>7, <2>8 DEF WfpNext
<1> QED
  BY <1>1, <1>2, PTL DEF WfpSpec

\* The facade is on exactly when every filter of install is in force, and only a
\* session of a live process has any (killswitch.rs, wfp.rs).
THEOREM SwitchTypeCorrect == WfpSpec => []WfpTypeOK
  BY WfpInvariant, PTL DEF WfpInv

\* With the switch off and no install under way nothing is blocked (wfp.rs: "a bug or crash can never
\* permanently lock the machine off the network").
THEOREM NobodyIsLockedOut == WfpSpec => []NeverLockedOut
<1>1. WfpInv => NeverLockedOut
  <2> SUFFICES ASSUME WfpInv, ~active, ~installing PROVE \A a \in Attempt : ~Blocked(a)
    BY DEF NeverLockedOut
  <2>1. filters = {}
    BY DEF WfpInv, WfpTypeOK, Installed
  <2> QED
    BY <2>1 DEF Blocked, Matching
<1> QED
  BY <1>1, WfpInvariant, PTL

\* Engaged, the filters block everything but loopback and the endpoint's IPv4
\* addresses, on both layers (wfp.rs, install).
THEOREM EngagedFailsClosed == WfpSpec => []FailClosed
<1>1. WfpInv => FailClosed
  <2> SUFFICES ASSUME WfpInv, active, NEW a \in Attempt
               PROVE  Blocked(a) <=> a.to \notin {"loopback"} \cup (Endpoints \cap V4)
    BY DEF FailClosed
  <2>1. given \in Seq(V4 \cup V6) /\ added = 4 + Len(given) /\ Len(given) \in Nat
    BY StepsType DEF WfpInv, WfpTypeOK, Steps
  <2> DEFINE Permits == {permit_endpoint(ip) : ip \in Endpoints \cap V4}
  <2>2. filters = {block_all("v4"), block_all("v6"), permit_loopback("v4"), permit_loopback("v6")}
                  \cup Permits
    <3>1. filters = UNION {Step(given, i) : i \in 1 .. 4 + Len(given)}
      BY <2>1 DEF WfpInv, Installed
    <3>2. Step(given, 1) = {block_all("v4")} /\ Step(given, 2) = {block_all("v6")}
            /\ Step(given, 3) = {permit_loopback("v4")} /\ Step(given, 4) = {permit_loopback("v6")}
      BY DEF Step
    <3>3. \A i \in 5 .. 4 + Len(given) :
            Step(given, i) = IF given[i - 4] \in V4 THEN {permit_endpoint(given[i - 4])} ELSE {}
      BY <2>1 DEF Step
    <3>4. 1 .. 4 + Len(given) = {1, 2, 3, 4} \cup (5 .. 4 + Len(given))
      BY <2>1
    <3>5. UNION {Step(given, i) : i \in 5 .. 4 + Len(given)} = Permits
      <4>1. ASSUME NEW i \in 5 .. 4 + Len(given)
            PROVE  Step(given, i) \subseteq Permits
        <5>1. i - 4 \in DOMAIN given
          BY <2>1
        <5> QED
          BY <3>3, <5>1 DEF Endpoints
      <4>2. ASSUME NEW ip \in Endpoints \cap V4
            PROVE  \E i \in 5 .. 4 + Len(given) : permit_endpoint(ip) \in Step(given, i)
        <5>1. PICK j \in DOMAIN given : given[j] = ip
          BY DEF Endpoints
        <5>2. j + 4 \in 5 .. 4 + Len(given) /\ (j + 4) - 4 = j
          BY <2>1, <5>1
        <5> QED
          BY <3>3, <5>1, <5>2
      <4> QED
        BY <4>1, <4>2
    <3> QED
      BY <3>1, <3>2, <3>4, <3>5
  <2>3. a.layer \in {"v4", "v6"} /\ (a.to = "loopback" \/ a.to \in V4 \cup V6) /\ a.to # "any"
          /\ (a.to \in V4 => a.layer = "v4")
    BY WfpAssumption DEF Attempt
  <2>4. block_all(a.layer) \in Matching(a) /\ block_all(a.layer).action = "block"
    BY <2>2, <2>3 DEF Matching, block_all
  <2>5. CASE a.to = "loopback"
    <3>1. permit_loopback(a.layer) \in Matching(a)
      BY <2>2, <2>3, <2>5 DEF Matching, permit_loopback
    <3>2. \A f \in Matching(a) : f.action = "block" => f.weight = 0
      BY <2>2 DEF Matching, block_all, permit_loopback, permit_endpoint
    <3> QED
      BY <2>5, <3>1, <3>2 DEF Blocked, permit_loopback
  <2>6. CASE a.to \in Endpoints \cap V4
    <3>1. permit_endpoint(a.to) \in Matching(a)
      BY <2>2, <2>3, <2>6 DEF Matching, permit_endpoint
    <3>2. \A f \in Matching(a) : f.action = "block" => f.weight = 0
      BY <2>2 DEF Matching, block_all, permit_loopback, permit_endpoint
    <3> QED
      BY <2>6, <3>1, <3>2 DEF Blocked, permit_endpoint
  <2>7. CASE a.to \notin {"loopback"} \cup (Endpoints \cap V4)
    <3>1. ASSUME NEW f \in Matching(a)
          PROVE  f = block_all(a.layer)
      <4>1. f \in filters /\ f.layer = a.layer /\ f.cond \in {"any", a.to}
        BY DEF Matching
      <4>2. f \notin {permit_loopback("v4"), permit_loopback("v6")}
        BY <2>7, <4>1 DEF permit_loopback
      <4>3. ASSUME NEW ip \in Endpoints \cap V4, f = permit_endpoint(ip)
            PROVE  FALSE
        <5>1. f.cond = ip /\ ip # "any"
          BY <4>3, WfpAssumption DEF permit_endpoint
        <5> QED
          BY <2>7, <4>1, <5>1
      <4>4. f \in {block_all("v4"), block_all("v6")}
        BY <2>2, <4>1, <4>2, <4>3
      <4> QED
        BY <4>1, <4>4 DEF block_all
    <3> QED
      BY <2>4, <2>7, <3>1 DEF Blocked, block_all
  <2> QED
    BY <2>5, <2>6, <2>7
<1> QED
  BY <1>1, WfpInvariant, PTL
=============================================================================
