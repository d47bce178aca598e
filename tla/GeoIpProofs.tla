---------------------------- MODULE GeoIpProofs ----------------------------
(***************************************************************************)
(* Theorems about GeoIp, for every registry, every number of countries and *)
(* any width of an address.  The steps of the refresh look into no list;   *)
(* what a list covers rests on the arithmetic of count_to_prefix.          *)
(***************************************************************************)
EXTENDS GeoIp, FiniteSetTheorems, WellFoundedInduction, TLAPS

-----------------------------------------------------------------------------
(* Induction, as a least element of a set: the theorems of the library that *)
(* take a predicate cannot be instantiated.                                *)

Below == {pair \in Nat \X Nat : pair[1] < pair[2]}

\* Every set of naturals that has an element has a least one.
LEMMA LeastNatural ==
  ASSUME NEW T \in SUBSET Nat, T # {}
  PROVE  \E m \in T : \A n \in T : m <= n
<1>1. IsWellFoundedOn(Below, Nat)
  BY NatLessThanWellFounded DEF OpToRel, Below
<1>2. \E m \in T : \A n \in T : ~(<<n, m>> \in Below)
  BY <1>1, WFMin
<1>3. \A n, m \in Nat : n < m => <<n, m>> \in Below
  BY DEF Below
<1>4. \A n, m \in Nat : n < m \/ m <= n
  OBVIOUS
<1> QED
  BY <1>2, <1>3, <1>4

LEMMA DoublePower ==
  ASSUME NEW k \in Nat
  PROVE  2^(k + 1) = 2 * 2^k
<1> DEFINE S == 1 .. k
           T == 1 .. k + 1
           With == {x \cup {k + 1} : x \in SUBSET S}
<1>1. IsFiniteSet(S) /\ Cardinality(S) = k /\ IsFiniteSet(T) /\ Cardinality(T) = k + 1
  BY FS_Interval
<1>2. /\ IsFiniteSet(SUBSET S) /\ Cardinality(SUBSET S) = 2^k
      /\ IsFiniteSet(SUBSET T) /\ Cardinality(SUBSET T) = 2^(k+1)
  BY <1>1, FS_SUBSET
<1>3. SUBSET T = (SUBSET S) \cup With
  <2>1. ASSUME NEW x \in SUBSET T, k + 1 \in x PROVE x \in With
    <3>1. x = (x \ {k + 1}) \cup {k + 1} /\ x \ {k + 1} \in SUBSET S
      BY <2>1
    <3> QED
      BY <3>1
  <2>2. ASSUME NEW x \in SUBSET T, k + 1 \notin x PROVE x \in SUBSET S
    BY <2>2
  <2>3. With \subseteq SUBSET T /\ SUBSET S \subseteq SUBSET T
    <3>1. S \subseteq T /\ k + 1 \in T
      OBVIOUS
    <3> HIDE DEF S, T
    <3> QED
      BY <3>1
  <2> QED
    BY <2>1, <2>2, <2>3
<1>4. (SUBSET S) \cap With = {}
  OBVIOUS
<1>5. IsFiniteSet(With) /\ Cardinality(With) = 2^k
  <2> DEFINE f == [x \in SUBSET S |-> x \cup {k + 1}]
  <2>1. f \in Bijection(SUBSET S, With)
    <3>1. f \in Surjection(SUBSET S, With)
      BY DEF Surjection
    <3>2. \A x, y \in SUBSET S : f[x] = f[y] => x = y
      OBVIOUS
    <3> QED
      BY <3>1, <3>2 DEF Bijection, Injection, IsInjective, Surjection
  <2> HIDE DEF f, With
  <2>2. ExistsBijection(SUBSET S, With)
    BY <2>1 DEF ExistsBijection
  <2> QED
    BY <1>2, <2>1, FS_Bijection DEF ExistsBijection
<1> HIDE DEF With
<1>6. Cardinality((SUBSET S) \cup With) = 2^k + 2^k - Cardinality((SUBSET S) \cap With)
  BY <1>2, <1>5, FS_Union
<1>7. 2^k \in Nat
  BY <1>2, FS_CardinalityType
<1>8. 2^(k + 1) = 2^k + 2^k - Cardinality({})
  BY <1>2, <1>3, <1>4, <1>6
<1> QED
  BY <1>7, <1>8, FS_EmptySet


\* Powers of two.

LEMMA PowerIsNat ==
  ASSUME NEW k \in Nat
  PROVE  2^k \in Nat
<1>1. IsFiniteSet(1 .. k) /\ Cardinality(1 .. k) = k
  BY FS_Interval
<1>2. IsFiniteSet(SUBSET (1 .. k)) /\ Cardinality(SUBSET (1 .. k)) = 2^k
  BY <1>1, FS_SUBSET
<1> QED
  BY <1>2, FS_CardinalityType

LEMMA PowerOfZero == 2^0 = 1
<1>1. Cardinality(SUBSET {}) = 2^0
  BY FS_EmptySet, FS_SUBSET
<1>2. SUBSET {} = {{}}
  OBVIOUS
<1>3. Cardinality({{}}) = 1
  BY FS_Singleton
<1> QED
  BY <1>1, <1>2, <1>3

LEMMA PowersAscend ==
  ASSUME NEW j \in Nat, NEW k \in Nat, j <= k
  PROVE  2^j <= 2^k
<1> DEFINE T == {m \in Nat : ~(2^j <= 2^(j + m))}
<1>1. SUFFICES ASSUME T # {} PROVE FALSE
  <2>1. k - j \in Nat /\ j + (k - j) = k
    OBVIOUS
  <2> QED
    BY <1>1, <2>1
<1>2. PICK m \in T : \A n \in T : m <= n
  BY <1>1, LeastNatural
<1>3. CASE m = 0
  BY <1>2, <1>3, PowerIsNat
<1>4. CASE m # 0
  <2>1. m - 1 \in Nat /\ j + m = (j + (m - 1)) + 1 /\ j + (m - 1) \in Nat
    BY <1>2, <1>4
  <2>2. m - 1 \notin T
    BY <1>2, <2>1
  <2>3. 2^(j + m) = 2 * 2^(j + (m - 1))
    BY <2>1, DoublePower
  <2>4. 2^j \in Nat /\ 2^(j + (m - 1)) \in Nat
    BY <2>1, PowerIsNat
  <2>5. 2^j <= 2^(j + (m - 1))
    BY <2>1, <2>2
  <2>6. 2^j <= 2^(j + m)
    BY <2>3, <2>4, <2>5
  <2> QED
    BY <1>2, <2>6
<1> QED
  BY <1>3, <1>4

LEMMA PowerExceeds ==
  ASSUME NEW k \in Nat
  PROVE  k < 2^k
<1> DEFINE T == {m \in Nat : ~(m < 2^m)}
<1>1. SUFFICES ASSUME T # {} PROVE FALSE
  BY <1>1
<1>2. PICK m \in T : \A n \in T : m <= n
  BY <1>1, LeastNatural
<1>3. CASE m = 0
  BY <1>2, <1>3, PowerOfZero
<1>4. CASE m # 0
  <2>1. m - 1 \in Nat /\ m = (m - 1) + 1
    BY <1>2, <1>4
  <2>2. m - 1 < 2^(m - 1)
    BY <1>2, <2>1
  <2>3. 2^m = 2 * 2^(m - 1) /\ 2^(m - 1) \in Nat
    BY <2>1, DoublePower, PowerIsNat
  <2> QED
    BY <1>2, <2>1, <2>2, <2>3
<1> QED
  BY <1>3, <1>4

\* k is the binary logarithm of n, rounded down.
IsLog(n, k) == k \in Nat /\ 2^k <= n /\ n < 2^(k + 1)

LEMMA LogExists ==
  ASSUME NEW n \in Nat \ {0}
  PROVE  \E k \in Nat : IsLog(n, k)
<1> DEFINE T == {k \in Nat : n < 2^(k + 1)}
<1>1. T # {}
  <2>1. n < 2^n /\ 2^n <= 2^(n + 1) /\ 2^n \in Nat /\ 2^(n + 1) \in Nat
    BY PowerExceeds, PowersAscend, PowerIsNat
  <2>2. n \in T
    BY <2>1
  <2> QED
    BY <2>2
<1>2. PICK m \in T : \A k \in T : m <= k
  BY <1>1, LeastNatural
<1>3. 2^m <= n
  <2>1. CASE m = 0
    BY <2>1, PowerOfZero
  <2>2. CASE m # 0
    <3>1. m - 1 \in Nat /\ (m - 1) + 1 = m
      BY <1>2, <2>2
    <3>2. m - 1 \notin T
      BY <1>2, <3>1
    <3> QED
      BY <3>1, <3>2, PowerIsNat
  <2> QED
    BY <2>1, <2>2
<1> QED
  BY <1>2, <1>3 DEF IsLog

LEMMA LogUnique ==
  ASSUME NEW n \in Nat, NEW j, IsLog(n, j), NEW k, IsLog(n, k)
  PROVE  j = k
<1>1. ASSUME NEW a, NEW b, IsLog(n, a), IsLog(n, b), a < b PROVE FALSE
  <2>1. a \in Nat /\ b \in Nat /\ n < 2^(a + 1) /\ 2^b <= n
    BY <1>1 DEF IsLog
  <2>2. 2^(a + 1) <= 2^b /\ 2^(a + 1) \in Nat /\ 2^b \in Nat
    BY <1>1, <2>1, PowersAscend, PowerIsNat
  <2> QED
    BY <2>1, <2>2
<1>2. j \in Nat /\ k \in Nat
  BY DEF IsLog
<1> QED
  BY <1>1, <1>2

\* Halving a number takes one from its logarithm.
LEMMA LogOfHalf ==
  ASSUME NEW n \in Nat, n > 1, NEW k, IsLog(n \div 2, k)
  PROVE  IsLog(n, k + 1)
<1>1. k \in Nat /\ 2^k <= n \div 2 /\ n \div 2 < 2^(k + 1)
  BY DEF IsLog
<1>2. /\ 2^(k + 1) = 2 * 2^k /\ 2^((k + 1) + 1) = 2 * 2^(k + 1)
      /\ 2^k \in Nat /\ 2^(k + 1) \in Nat
  BY <1>1, DoublePower, PowerIsNat
<1>3. n \div 2 \in Nat /\ 2 * (n \div 2) <= n /\ n < 2 * (n \div 2) + 2
  OBVIOUS
<1>4. 2^(k + 1) <= n /\ n < 2^((k + 1) + 1)
  BY <1>1, <1>2, <1>3
<1> QED
  BY <1>1, <1>4 DEF IsLog

Halves(g) == g = [n \in Nat |-> IF n <= 1 THEN 0 ELSE 1 + g[n \div 2]]

\* The recursion of halvings defines a function: the logarithm is one.
LEMMA HalvingsExist == Halves(halvings)
<1> DEFINE log == [n \in Nat |-> IF n <= 1 THEN 0 ELSE CHOOSE k \in Nat : IsLog(n, k)]
<1>1. ASSUME NEW n \in Nat \ {0} PROVE log[n] \in Nat /\ IsLog(n, log[n])
  <2>1. CASE n = 1
    <3>1. IsLog(1, 0)
      BY DoublePower, PowerOfZero DEF IsLog
    <3> QED
      BY <2>1, <3>1
  <2>2. CASE n # 1
    <3>1. \E k \in Nat : IsLog(n, k)
      BY LogExists
    <3>2. log[n] = CHOOSE k \in Nat : IsLog(n, k)
      BY <2>2
    <3> QED
      BY <3>1, <3>2
  <2> QED
    BY <2>1, <2>2
<1>2. ASSUME NEW n \in Nat, n > 1 PROVE log[n] = 1 + log[n \div 2]
  <2>1. n \div 2 \in Nat \ {0}
    BY <1>2
  <2>2. log[n \div 2] \in Nat /\ IsLog(n \div 2, log[n \div 2]) /\ log[n] \in Nat /\ IsLog(n, log[n])
    BY <1>1, <1>2, <2>1
  <2> HIDE DEF log
  <2>3. IsLog(n, log[n \div 2] + 1)
    BY <1>2, <2>2, LogOfHalf
  <2>4. log[n] = log[n \div 2] + 1
    BY <2>2, <2>3, LogUnique
  <2> QED
    BY <2>2, <2>4
<1>3. \A n \in Nat : n <= 1 => log[n] = 0
  OBVIOUS
<1>4. DOMAIN log = Nat /\ log = [n \in Nat |-> log[n]]
  OBVIOUS
<1> HIDE DEF log
<1>5. [n \in Nat |-> log[n]] = [n \in Nat |-> IF n <= 1 THEN 0 ELSE 1 + log[n \div 2]]
  BY <1>2, <1>3
<1>6. \E g : Halves(g)
  BY <1>4, <1>5 DEF Halves
<1>7. halvings = CHOOSE g : Halves(g)
  BY DEF halvings, Halves
<1> QED
  BY <1>6, <1>7, Zenon

\* halvings is the binary logarithm, rounded down.
LEMMA HalvingsAreLog ==
  ASSUME NEW n \in Nat \ {0}
  PROVE  IsLog(n, halvings[n])
<1> DEFINE T == {m \in Nat \ {0} : ~IsLog(m, halvings[m])}
<1>1. SUFFICES ASSUME T # {} PROVE FALSE
  BY <1>1
<1>2. PICK m \in T : \A k \in T : m <= k
  BY <1>1, LeastNatural
<1>3. CASE m = 1
  <2>1. halvings[1] = 0
    BY HalvingsExist DEF Halves
  <2>2. IsLog(1, 0)
    BY DoublePower, PowerOfZero DEF IsLog
  <2> QED
    BY <1>2, <1>3, <2>1, <2>2
<1>4. CASE m # 1
  <2>1. m \in Nat /\ m > 1 /\ m \div 2 \in Nat \ {0} /\ ~(m <= m \div 2)
    BY <1>2, <1>4
  <2>2. IsLog(m \div 2, halvings[m \div 2])
    BY <1>2, <2>1
  <2>3. halvings[m] = 1 + halvings[m \div 2]
    BY <2>1, HalvingsExist DEF Halves
  <2>4. halvings[m \div 2] \in Nat
    BY <2>2 DEF IsLog
  <2>5. IsLog(m, halvings[m])
    BY <2>1, <2>2, <2>3, <2>4, LogOfHalf
  <2> QED
    BY <1>2, <2>5
<1> QED
  BY <1>3, <1>4

-----------------------------------------------------------------------------
(* The refresh. *)

\* What the worker carries at each of its steps.
WorkerInv ==
  /\ job.step \in {"download", "rename", "send"} => geoip_rx = "none"
  /\ job.step = "rename" => job.list \in Lists
  /\ job.step = "done" => job = NoJob
  /\ ~refreshing => geoip_rx = "none"

\* A list was put in place that the engine does not have; the message that
\* makes the UI thread restart the engine is on its way.
RestartComing ==
  \/ job.step = "send"
  \/ job.step = "post" /\ geoip_rx = "ok"
  \/ posted /\ geoip_rx = "ok"

Current == engine # NoEngine /\ ~engine.stale

EngineInv ==
  up => /\ engine # NoEngine => desired
        /\ Current /\ ~geoip.enabled => engine.exclusions = {}
        /\ Current => engine.exclusions = exclusions_for(geoip) \/ RestartComing

GeoInv == GeoTypeOK /\ WorkerInv /\ EngineInv

-----------------------------------------------------------------------------
LEMMA NoJobIsDone == NoJob.step = "done" /\ NoJob \in [step : Steps, country : Countries, list : Lists \cup {NoList}]
  BY GeoAssumption DEF NoJob, Steps

\* The exclusions are a list that was parsed, or nothing.
LEMMA ExclusionsType ==
  ASSUME GeoTypeOK, NEW g \in [enabled : BOOLEAN, country : Countries]
  PROVE  /\ exclusions_for(g) \in Lists \cup {{}}
         /\ ~g.enabled => exclusions_for(g) = {}
  BY DEF GeoTypeOK, exclusions_for, load_cached

LEMMA InitGeo == GeoInit => GeoInv
  BY NoJobIsDone, GeoAssumption
  DEF GeoInit, GeoInv, GeoTypeOK, WorkerInv, EngineInv, Current, Steps


-----------------------------------------------------------------------------
\* Steps of the UI thread.  Each that starts an engine gives it the exclusions
\* of that moment.

LEMMA StartEngineKeeps ==
  ASSUME GeoTypeOK, NEW g \in [enabled : BOOLEAN, country : Countries],
         StartEngine(g), UNCHANGED cache, geoip' = g
  PROVE  /\ engine' \in [exclusions : Lists \cup {{}}, stale : BOOLEAN] \cup {NoEngine}
         /\ Current' => engine'.exclusions = exclusions_for(geoip)'
         /\ Current' /\ ~geoip'.enabled => engine'.exclusions = {}
<1>1. exclusions_for(geoip)' = exclusions_for(g)
  BY DEF exclusions_for, load_cached
<1>2. exclusions_for(g) \in Lists \cup {{}} /\ (~g.enabled => exclusions_for(g) = {})
  BY ExclusionsType
<1>3. CASE engine' = [exclusions |-> exclusions_for(g), stale |-> FALSE]
  BY <1>1, <1>2, <1>3
<1>4. CASE LeftBehind
  BY <1>4 DEF LeftBehind, GeoTypeOK, Current
<1>5. CASE engine' = NoEngine
  BY <1>5 DEF Current
<1> QED
  BY <1>3, <1>4, <1>5 DEF StartEngine

LEMMA ApplyKeeps ==
  ASSUME GeoInv, Apply
  PROVE  GeoInv'
<1> USE DEF GeoInv
<1>1. PICK g \in [enabled : BOOLEAN, country : Countries] :
        /\ geoip' = g
        /\ \/ IF desired THEN StartEngine(g) ELSE UNCHANGED engine
           \/ "save_err" \in GeoEvents /\ LeftBehind
  BY DEF Apply
<1>2. UNCHANGED <<up, desired, cache, refreshing, job, geoip_rx, posted>>
  BY DEF Apply, workerVars
<1>3. CASE desired /\ StartEngine(g)
  BY <1>1, <1>2, <1>3, StartEngineKeeps
  DEF GeoTypeOK, WorkerInv, EngineInv
<1>4. CASE ~desired /\ UNCHANGED engine
  BY <1>1, <1>2, <1>4
  DEF GeoTypeOK, WorkerInv, EngineInv, Current, Apply
<1>5. CASE LeftBehind
  <2>1. engine' \in [exclusions : Lists \cup {{}}, stale : BOOLEAN] \cup {NoEngine}
    BY <1>5 DEF LeftBehind, GeoTypeOK
  <2>2. ~Current'
    BY <1>5 DEF LeftBehind, Current, GeoTypeOK
  <2>3. engine' # NoEngine => engine # NoEngine
    BY <1>5 DEF LeftBehind
  <2>4. GeoTypeOK'
    BY <1>1, <1>2, <2>1 DEF GeoTypeOK
  <2>5. WorkerInv'
    BY <1>2 DEF WorkerInv
  <2>6. EngineInv'
    BY <1>2, <2>2, <2>3 DEF EngineInv
  <2> QED
    BY <2>4, <2>5, <2>6
<1> QED
  BY <1>1, <1>3, <1>4, <1>5

LEMMA ConnectKeeps ==
  ASSUME GeoInv, Connect
  PROVE  GeoInv'
<1> USE DEF GeoInv
<1>1. UNCHANGED <<up, geoip, cache, refreshing, job, geoip_rx, posted>> /\ desired'
  BY DEF Connect, workerVars
<1>2. StartEngine(geoip) /\ geoip \in [enabled : BOOLEAN, country : Countries]
  BY DEF Connect, GeoTypeOK
<1>3. engine' \in [exclusions : Lists \cup {{}}, stale : BOOLEAN] \cup {NoEngine}
  BY <1>1, <1>2, StartEngineKeeps
<1>4. EngineInv'
  BY <1>1, <1>2, StartEngineKeeps DEF EngineInv
<1>5. GeoTypeOK'
  BY <1>1, <1>3 DEF GeoTypeOK, Connect
<1> QED
  BY <1>1, <1>4, <1>5 DEF WorkerInv

\* The completion restarts the engine unless that would change nothing.
LEMMA FinishRefreshKeeps ==
  ASSUME GeoInv, FinishRefresh
  PROVE  GeoInv'
<1> USE DEF GeoInv
<1>1. UNCHANGED <<up, geoip, desired, cache, job>> /\ geoip_rx' = "none"
        /\ posted' = FALSE /\ refreshing' = FALSE /\ posted
  BY DEF FinishRefresh
<1>2. geoip \in [enabled : BOOLEAN, country : Countries] /\ job = NoJob
  BY <1>1 DEF GeoTypeOK
<1>3. WorkerInv'
  BY <1>1, <1>2, NoJobIsDone DEF WorkerInv
<1>4. CASE geoip_rx = "ok" /\ geoip.enabled /\ desired
  <2>1. StartEngine(geoip)
    BY <1>4 DEF FinishRefresh
  <2>2. /\ engine' \in [exclusions : Lists \cup {{}}, stale : BOOLEAN] \cup {NoEngine}
        /\ Current' => engine'.exclusions = exclusions_for(geoip)'
        /\ Current' /\ ~geoip'.enabled => engine'.exclusions = {}
    BY <1>1, <1>2, <2>1, StartEngineKeeps
  <2>3. GeoTypeOK'
    BY <1>1, <1>2, <2>2 DEF GeoTypeOK
  <2>4. EngineInv'
    BY <1>1, <1>4, <2>2 DEF EngineInv
  <2> QED
    BY <1>3, <2>3, <2>4
<1>5. CASE ~(geoip_rx = "ok" /\ geoip.enabled /\ desired)
  <2>1. UNCHANGED engine
    BY <1>5 DEF FinishRefresh
  <2>2. GeoTypeOK'
    BY <1>1, <1>2, <2>1 DEF GeoTypeOK
  <2>3. exclusions_for(geoip)' = exclusions_for(geoip)
    BY <1>1 DEF exclusions_for, load_cached
  <2>4. ~geoip.enabled => exclusions_for(geoip) = {}
    BY DEF exclusions_for
  <2>5. up /\ Current => engine.exclusions = exclusions_for(geoip)
    BY <1>2, <1>5, <2>4, NoJobIsDone DEF EngineInv, RestartComing, Current
  <2>6. EngineInv'
    BY <1>1, <2>1, <2>3, <2>5 DEF EngineInv, Current
  <2> QED
    BY <1>3, <2>2, <2>6
<1> QED
  BY <1>4, <1>5

LEMMA OtherUiStepsKeep ==
  ASSUME GeoInv, Disconnect \/ EngineExit \/ ClickRefresh
  PROVE  GeoInv'
<1> USE DEF GeoInv
<1>1. CASE Disconnect
  BY <1>1 DEF Disconnect, workerVars, GeoTypeOK, WorkerInv, EngineInv, Current
<1>2. CASE EngineExit
  BY <1>2 DEF EngineExit, workerVars, GeoTypeOK, WorkerInv, EngineInv, Current
<1>3. CASE ClickRefresh
  <2>1. UNCHANGED <<up, geoip, desired, engine, cache, posted>> /\ ~refreshing
          /\ refreshing' = TRUE /\ geoip_rx' = "none"
          /\ job' = [step |-> "download", country |-> geoip.country, list |-> NoList]
    BY <1>3 DEF ClickRefresh, uiVars
  <2>2. GeoTypeOK'
    BY <2>1 DEF GeoTypeOK, Steps
  <2>3. WorkerInv'
    BY <2>1 DEF WorkerInv
  <2>4. exclusions_for(geoip)' = exclusions_for(geoip)
    BY <2>1 DEF exclusions_for, load_cached
  <2>5. ~RestartComing
    BY <2>1, NoJobIsDone DEF RestartComing, WorkerInv, GeoTypeOK
  <2>6. EngineInv'
    BY <2>1, <2>4, <2>5 DEF EngineInv, Current
  <2> QED
    BY <2>2, <2>3, <2>6
<1> QED
  BY <1>1, <1>2, <1>3

-----------------------------------------------------------------------------
\* Steps of the worker, and of the life of the wrapper.

LEMMA WorkerStepKeeps ==
  ASSUME GeoInv, WorkerStep
  PROVE  GeoInv'
<1> USE DEF GeoInv
<1>1. /\ UNCHANGED <<up, geoip, desired, engine, refreshing>>
      /\ job \in [step : Steps, country : Countries, list : Lists \cup {NoList}]
  BY DEF WorkerStep, Download, DownloadFails, RenameOver, WriteFails, Send, Post, uiVars,
         GeoTypeOK
<1>2. job # NoJob /\ refreshing = TRUE /\ posted = FALSE
  BY NoJobIsDone DEF WorkerStep, Download, DownloadFails, RenameOver, WriteFails, Send, Post,
         GeoTypeOK
<1>3. ASSUME UNCHANGED <<cache, posted>>, job.step \in {"download", "rename"},
             SetsResult("err")
      PROVE  GeoInv'
  <2>1. job' = [job EXCEPT !.step = "post"] /\ geoip_rx' = "err"
    BY <1>3 DEF SetsResult, Goes
  <2>2. job' \in [step : Steps, country : Countries, list : Lists \cup {NoList}]
          /\ job'.step = "post"
    BY <1>1, <2>1 DEF Steps
  <2>3. exclusions_for(geoip)' = exclusions_for(geoip)
    BY <1>1, <1>3 DEF exclusions_for, load_cached
  <2>4. ~RestartComing
    BY <1>2, <1>3 DEF RestartComing
  <2> QED
    BY <1>1, <1>2, <1>3, <2>1, <2>2, <2>3, <2>4
    DEF GeoTypeOK, WorkerInv, EngineInv, Current
<1>4. CASE DownloadFails
  BY <1>3, <1>4 DEF DownloadFails
<1>5. CASE WriteFails
  BY <1>3, <1>5 DEF WriteFails
<1>6. CASE Download
  <2>1. PICK body \in Bodies :
          LET cidrs == parse_country_cidrs(body, job.country) IN
          IF cidrs = {}
          THEN SetsResult("err")
          ELSE /\ job' = [job EXCEPT !.step = "rename", !.list = cidrs]
               /\ UNCHANGED geoip_rx
    BY <1>6 DEF Download
  <2>2. CASE SetsResult("err")
    BY <1>3, <1>6, <2>2 DEF Download
  <2>3. CASE ~SetsResult("err")
    <3> DEFINE cidrs == parse_country_cidrs(body, job.country)
    <3>1. cidrs \in Lists
      BY <1>1, <2>1, <2>3 DEF Lists
    <3>2. job' = [job EXCEPT !.step = "rename", !.list = cidrs] /\ UNCHANGED geoip_rx
      BY <2>1, <2>3
    <3> HIDE DEF cidrs
    <3>3. job' \in [step : Steps, country : Countries, list : Lists \cup {NoList}]
            /\ job'.step = "rename" /\ job'.list \in Lists
      BY <1>1, <3>1, <3>2 DEF Steps
    <3>4. exclusions_for(geoip)' = exclusions_for(geoip)
      BY <1>1, <1>6 DEF exclusions_for, load_cached, Download
    <3> QED
      BY <1>1, <1>2, <1>6, <3>2, <3>3, <3>4
      DEF Download, GeoTypeOK, WorkerInv, EngineInv, Current, RestartComing
  <2> QED
    BY <2>2, <2>3
<1>7. CASE RenameOver
  <2>1. job' = [job EXCEPT !.step = "send"] /\ job.list \in Lists /\ job.step = "rename"
          /\ UNCHANGED <<geoip_rx, posted>> /\ geoip_rx = "none"
          /\ cache' = [cache EXCEPT ![job.country] = job.list]
    BY <1>7 DEF RenameOver, Goes, WorkerInv
  <2>2. job' \in [step : Steps, country : Countries, list : Lists \cup {NoList}]
          /\ job'.step = "send"
    BY <1>1, <2>1 DEF Steps
  <2>3. cache' \in [Countries -> Lists \cup {NoList}]
    BY <1>1, <2>1 DEF GeoTypeOK
  <2> QED
    BY <1>1, <1>2, <2>1, <2>2, <2>3
    DEF GeoTypeOK, WorkerInv, EngineInv, Current, RestartComing
<1>8. CASE Send
  <2>1. job' = [job EXCEPT !.step = "post"] /\ UNCHANGED <<cache, posted>>
          /\ geoip_rx' = "ok" /\ job.step = "send"
    BY <1>8 DEF Send, Goes, SetsResult
  <2>2. job' \in [step : Steps, country : Countries, list : Lists \cup {NoList}]
          /\ job'.step = "post"
    BY <1>1, <2>1 DEF Steps
  <2> QED
    BY <1>1, <1>2, <2>1, <2>2
    DEF GeoTypeOK, WorkerInv, EngineInv, Current, RestartComing
<1>9. CASE Post
  <2>1. job' = NoJob /\ posted' = TRUE /\ UNCHANGED <<cache, geoip_rx>> /\ job.step = "post"
    BY <1>9 DEF Post
  <2>2. exclusions_for(geoip)' = exclusions_for(geoip)
    BY <1>1, <2>1 DEF exclusions_for, load_cached
  <2>3. RestartComing => RestartComing'
    BY <1>2, <2>1 DEF RestartComing
  <2>4. GeoTypeOK'
    BY <1>1, <1>2, <2>1, NoJobIsDone DEF GeoTypeOK
  <2>5. WorkerInv'
    BY <1>1, <1>2, <2>1, NoJobIsDone DEF WorkerInv
  <2>6. EngineInv'
    BY <1>1, <2>2, <2>3 DEF EngineInv, Current
  <2> QED
    BY <2>4, <2>5, <2>6
<1> QED
  BY <1>4, <1>5, <1>6, <1>7, <1>8, <1>9 DEF WorkerStep

LEMMA LifeKeeps ==
  ASSUME GeoInv, Launch \/ Exit \/ Crash
  PROVE  GeoInv'
<1> USE DEF GeoInv
<1>1. CASE Exit \/ Crash
  <2>1. up' = FALSE /\ desired' = FALSE /\ refreshing' = FALSE /\ job' = NoJob
          /\ geoip_rx' = "none" /\ posted' = FALSE /\ UNCHANGED <<geoip, cache>>
          /\ (engine' = NoEngine \/ engine' = engine)
    BY <1>1 DEF Exit, Crash, Gone
  <2> QED
    BY <2>1, NoJobIsDone DEF GeoTypeOK, WorkerInv, EngineInv
<1>2. CASE Launch
  <2>1. up' = TRUE /\ UNCHANGED <<geoip, cache, refreshing, job, geoip_rx, posted>>
    BY <1>2 DEF Launch, workerVars
  <2>2. WorkerInv'
    BY <2>1 DEF WorkerInv
  <2>3. CASE engine # NoEngine
    <3>1. engine' = [engine EXCEPT !.stale = TRUE] /\ desired' = TRUE
      BY <1>2, <2>3 DEF Launch
    <3>2. engine' \in [exclusions : Lists \cup {{}}, stale : BOOLEAN] /\ engine'.stale
      BY <2>3, <3>1 DEF GeoTypeOK
    <3> QED
      BY <2>1, <2>2, <3>1, <3>2 DEF GeoTypeOK, EngineInv, Current
  <2>4. CASE engine = NoEngine
    BY <1>2, <2>1, <2>2, <2>4 DEF Launch, GeoTypeOK, EngineInv, Current
  <2> QED
    BY <2>3, <2>4
<1> QED
  BY <1>1, <1>2

\* GeoInv is an invariant of GeoIp.
THEOREM GeoIpInvariant == GeoSpec => []GeoInv
<1>1. GeoInv /\ [GeoNext]_geoVars => GeoInv'
  <2> SUFFICES ASSUME GeoInv, [GeoNext]_geoVars
               PROVE  GeoInv'
    OBVIOUS
  <2>1. CASE UNCHANGED geoVars
    BY <2>1 DEF geoVars, uiVars, workerVars, GeoInv, GeoTypeOK, WorkerInv, EngineInv, Current,
                RestartComing, exclusions_for, load_cached
  <2> QED
    BY <2>1, LifeKeeps, ApplyKeeps, ConnectKeeps, OtherUiStepsKeep, FinishRefreshKeeps,
       WorkerStepKeeps
    DEF GeoNext
<1> QED
  BY <1>1, InitGeo, PTL DEF GeoSpec

\* The refresh of the list and its worker stay in step: one worker, its result
\* and its message at a time, and caches that hold parsed lists (geoip/mod.rs,
\* begin_geoip_refresh).
THEOREM RefreshTypeCorrect == GeoSpec => []GeoTypeOK
  BY GeoIpInvariant, PTL DEF GeoInv

\* With no refresh in flight, the engine bypasses what the settings and the
\* newest list say (app.rs: start_engine, finish_geoip_refresh).
THEOREM ExclusionsAreCurrent == GeoSpec => []EngineExclusionsCurrent
<1>1. GeoInv => EngineExclusionsCurrent
  <2>1. GeoInv /\ ~refreshing => ~RestartComing
    BY NoJobIsDone DEF GeoInv, GeoTypeOK, WorkerInv, RestartComing
  <2> QED
    BY <2>1 DEF GeoInv, EngineInv, Current, EngineExclusionsCurrent
<1> QED
  BY <1>1, GeoIpInvariant, PTL

\* A cache is only ever replaced by a parsed list of a refresh that succeeded
\* (geoip/mod.rs: "keep the old list if a refresh fails").
THEOREM TheOldListIsKept == GeoSpec => OldListKept
<1>1. GeoInv /\ [GeoNext]_geoVars =>
        [\A c \in Countries : cache[c] # NoList =>
           /\ cache'[c] \notin {NoList, {}}
           /\ cache'[c] # cache[c] => refreshing /\ geoip_rx' # "err"]_geoVars
  <2> SUFFICES ASSUME GeoInv, GeoNext, NEW c \in Countries, cache[c] # NoList
               PROVE  /\ cache'[c] \notin {NoList, {}}
                      /\ cache'[c] # cache[c] => refreshing /\ geoip_rx' # "err"
    OBVIOUS
  <2>1. cache[c] \in Lists /\ cache \in [Countries -> Lists \cup {NoList}]
    BY DEF GeoInv, GeoTypeOK
  <2>2. {} \notin Lists /\ NoList \notin Lists
    BY NoListAssumption DEF Lists
  <2>3. CASE UNCHANGED cache
    BY <2>1, <2>2, <2>3
  <2>4. CASE RenameOver
    BY <2>1, <2>2, <2>4, NoJobIsDone
    DEF RenameOver, GeoInv, GeoTypeOK, WorkerInv, Goes
  <2> QED
    BY <2>3, <2>4
    DEF GeoNext, Launch, Exit, Crash, Gone, Apply, Connect, Disconnect, EngineExit,
        ClickRefresh, FinishRefresh, WorkerStep, Download, DownloadFails, WriteFails, Send, Post
<1> QED
  BY <1>1, GeoIpInvariant, PTL DEF GeoSpec, OldListKept

-----------------------------------------------------------------------------
(* What a list covers. *)

\* The block of a row: it never reaches past the row, and as long as the row
\* is not larger than the address space it is more than half of the row, all of
\* it if the count is a power of two.
LEMMA BlockOfCount ==
  ASSUME NEW n \in Nat \ {0}, NEW size, size = 2^(AddrBits - count_to_prefix(n))
  PROVE  /\ size \in Nat /\ size <= n
         /\ n <= 2^AddrBits => n < 2 * size
         /\ \A k \in 0 .. AddrBits : n = 2^k => size = n
         /\ size # 0 /\ \E k \in 0 .. AddrBits : size = 2^k
<1> DEFINE h == halvings[n]
<1>1. h \in Nat /\ 2^h <= n /\ n < 2^(h + 1) /\ AddrBits \in Nat
  BY HalvingsAreLog, GeoAssumption DEF IsLog
<1>2. 2^h \in Nat /\ 2^AddrBits \in Nat /\ 2^(h + 1) = 2 * 2^h
  BY <1>1, PowerIsNat, DoublePower
<1>3. ASSUME NEW k \in 0 .. AddrBits, n = 2^k PROVE h = k
  <2>1. k \in Nat /\ 2^k \in Nat /\ 2^(k + 1) = 2 * 2^k
    BY PowerIsNat, DoublePower
  <2>2. IsLog(n, k)
    BY <1>3, <2>1 DEF IsLog
  <2> QED
    BY <2>2, HalvingsAreLog, LogUnique
<1> HIDE DEF h
<1>4. CASE h >= AddrBits
  <2>1. size = 2^AddrBits
    BY <1>1, <1>4 DEF count_to_prefix, h
  <2>2. size <= 2^h
    BY <1>1, <1>4, <2>1, PowersAscend
  <2>3. size > 0
    BY <1>1, <1>2, <2>1, PowerExceeds
  <2>4. ASSUME NEW k \in 0 .. AddrBits, n = 2^k PROVE size = n
    <3>1. k = AddrBits
      BY <1>1, <1>3, <1>4, <2>4
    <3> QED
      BY <2>1, <2>4, <3>1
  <2>5. AddrBits \in 0 .. AddrBits
    BY <1>1
  <2> QED
    BY <1>1, <1>2, <2>1, <2>2, <2>3, <2>4, <2>5
<1>5. CASE ~(h >= AddrBits)
  <2>1. AddrBits - (AddrBits - h) = h
    BY <1>1
  <2>2. size = 2^h
    BY <1>5, <2>1 DEF count_to_prefix, h
  <2>3. h \in 0 .. AddrBits /\ h < 2^h
    BY <1>1, <1>5, PowerExceeds
  <2> QED
    BY <1>1, <1>2, <1>3, <2>2, <2>3
<1> QED
  BY <1>4, <1>5

LEMMA IntervalOfCount ==
  ASSUME NEW a \in Nat, NEW n \in Nat
  PROVE  IsFiniteSet(a .. a + n - 1) /\ Cardinality(a .. a + n - 1) = n
<1>1. a \in Int /\ a + n - 1 \in Int
  OBVIOUS
<1>2. /\ IsFiniteSet(a .. a + n - 1)
      /\ Cardinality(a .. a + n - 1) =
           IF a > a + n - 1 THEN 0 ELSE (a + n - 1) - a + 1
  BY <1>1, FS_Interval
<1>3. (IF a > a + n - 1 THEN 0 ELSE (a + n - 1) - a + 1) = n
  OBVIOUS
<1> QED
  BY <1>2, <1>3

\* The block that stands for a row.
BlockOf(r) == [start |-> r.start, prefix |-> count_to_prefix(r.count)]

LEMMA ParsedBlocks ==
  ASSUME NEW body, NEW c
  PROVE  parse_country_cidrs(body, c) = {BlockOf(r) : r \in Delegations(body, c)}
BY DEF parse_country_cidrs, Delegations, BlockOf

\* Masking a start: the result is not above it, by less than the size, and is
\* the start itself if that is a multiple.
LEMMA Masked ==
  ASSUME NEW a \in Nat, NEW size \in Nat \ {0}
  PROVE  /\ a % size \in Nat /\ a % size < size /\ a % size <= a
         /\ a - (a % size) \in Nat
<1>1. a % size \in 0 .. size - 1
  OBVIOUS
<1>2. a = (size * (a \div size)) + (a % size) /\ a \div size \in Nat
  OBVIOUS
<1>3. size * (a \div size) \in Nat
  BY <1>2
<1> QED
  BY <1>1, <1>2, <1>3

\* The addresses of a block: those of its row from the start on, and for a row
\* that is not aligned some before it.
LEMMA BlockOfRow ==
  ASSUME NEW body \in Bodies, NEW c, NEW r \in Delegations(body, c)
  PROVE  /\ r.start \in Nat /\ r.count \in Nat \ {0}
         /\ r.start \in Addrs(BlockOf(r))
         /\ \A a \in Addrs(BlockOf(r)) :
              \/ a \in AddrRange(r.start, r.count)
              \/ ~Aligned(r) /\ a < r.start /\ r.start < a + r.count
<1>1. r.start \in Nat /\ r.count \in Nat \ {0}
  BY GeoAssumption DEF Delegations, Row
<1> DEFINE size == 2^(AddrBits - count_to_prefix(r.count))
           m    == r.start % size
<1>2. /\ size \in Nat \ {0} /\ size <= r.count
      /\ \E k \in 0 .. AddrBits : size = 2^k
  BY <1>1, BlockOfCount
<1>3. Addrs(BlockOf(r)) = r.start - m .. r.start - m + size - 1
  BY DEF Addrs, AddrRange, BlockOf
<1>4. Aligned(r) => m = 0
  BY <1>2 DEF Aligned
<1> HIDE DEF size
<1>5. m \in Nat /\ m < size /\ m <= r.start
  BY <1>1, <1>2, Masked
<1> HIDE DEF m
<1>6. r.start \in Addrs(BlockOf(r))
  BY <1>1, <1>2, <1>3, <1>5
<1>7. ASSUME NEW a \in Addrs(BlockOf(r))
      PROVE  \/ a \in r.start .. r.start + r.count - 1
             \/ ~Aligned(r) /\ a < r.start /\ r.start < a + r.count
  <2>1. a \in Nat /\ r.start - m <= a /\ a <= r.start - m + size - 1
    BY <1>1, <1>2, <1>3, <1>5, <1>7
  <2>2. CASE r.start <= a
    <3>1. a <= r.start + r.count - 1
      BY <1>1, <1>2, <1>5, <2>1
    <3> QED
      BY <1>1, <2>1, <2>2, <3>1
  <2>3. CASE a < r.start
    <3>1. m # 0 /\ r.start < a + r.count
      BY <1>1, <1>2, <1>5, <2>1, <2>3
    <3> QED
      BY <1>4, <2>3, <3>1
  <2> QED
    BY <1>1, <2>1, <2>2, <2>3
<1> QED
  BY <1>1, <1>6, <1>7 DEF AddrRange

\* The block of an aligned row begins where the row does.
LEMMA BlockOfAlignedRow ==
  ASSUME NEW body \in Bodies, NEW c, NEW r \in Delegations(body, c), Aligned(r)
  PROVE  /\ Addrs(BlockOf(r)) \subseteq AddrRange(r.start, r.count)
         /\ IsFiniteSet(Addrs(BlockOf(r)))
         /\ r.count <= 2^AddrBits => r.count < 2 * Cardinality(Addrs(BlockOf(r)))
         /\ \A k \in 0 .. AddrBits :
              r.count = 2^k => Addrs(BlockOf(r)) = AddrRange(r.start, r.count)
<1>1. r.start \in Nat /\ r.count \in Nat \ {0}
  BY GeoAssumption DEF Delegations, Row
<1> DEFINE size == 2^(AddrBits - count_to_prefix(r.count))
<1>2. /\ size \in Nat \ {0} /\ size <= r.count
      /\ r.count <= 2^AddrBits => r.count < 2 * size
      /\ \A k \in 0 .. AddrBits : r.count = 2^k => size = r.count
      /\ \E k \in 0 .. AddrBits : size = 2^k
  BY <1>1, BlockOfCount
<1>3. r.start % size = 0
  BY <1>2 DEF Aligned
<1>4. Addrs(BlockOf(r)) = r.start - (r.start % size) .. r.start - (r.start % size) + size - 1
  BY DEF Addrs, AddrRange, BlockOf
<1> HIDE DEF size
<1>5. Addrs(BlockOf(r)) = r.start .. r.start + size - 1
  BY <1>1, <1>2, <1>3, <1>4
<1>6. /\ IsFiniteSet(r.start .. r.start + size - 1)
      /\ Cardinality(r.start .. r.start + size - 1) = size
  BY <1>1, <1>2, IntervalOfCount
<1> QED
  BY <1>1, <1>2, <1>5, <1>6 DEF AddrRange

\* A list is one edition of the registry, parsed for the country of its file.
ListsInv ==
  /\ \A c \in Countries : cache[c] # NoList =>
       \E body \in Bodies : cache[c] = parse_country_cidrs(body, c)
  /\ job.step = "rename" =>
       \E body \in Bodies : job.list = parse_country_cidrs(body, job.country)

LEMMA ListsInvariant == GeoSpec => []ListsInv
<1>1. GeoInit => ListsInv
  BY NoJobIsDone DEF GeoInit, ListsInv
<1>2. GeoInv /\ ListsInv /\ [GeoNext]_geoVars => ListsInv'
  <2> SUFFICES ASSUME GeoInv, ListsInv, [GeoNext]_geoVars PROVE ListsInv'
    OBVIOUS
  <2>1. /\ job \in [step : Steps, country : Countries, list : Lists \cup {NoList}]
        /\ cache \in [Countries -> Lists \cup {NoList}]
    BY DEF GeoInv, GeoTypeOK
  <2>2. CASE UNCHANGED cache /\ (job' = job \/ job'.step # "rename")
    BY <2>2 DEF ListsInv
  <2>3. CASE RenameOver
    <3>1. cache' = [cache EXCEPT ![job.country] = job.list] /\ job.step = "rename"
      BY <2>3 DEF RenameOver
    <3>2. job' = [job EXCEPT !.step = "send"]
      BY <2>3 DEF RenameOver, Goes
    <3>3. job'.step = "send"
      BY <2>1, <3>2
    <3> QED
      BY <2>1, <3>1, <3>3 DEF ListsInv
  <2>4. CASE Download
    <3>1. UNCHANGED cache
      BY <2>4 DEF Download
    <3>2. PICK body \in Bodies :
            LET cidrs == parse_country_cidrs(body, job.country) IN
            IF cidrs = {}
            THEN SetsResult("err")
            ELSE /\ job' = [job EXCEPT !.step = "rename", !.list = cidrs]
                 /\ UNCHANGED geoip_rx
      BY <2>4 DEF Download
    <3> DEFINE cidrs == parse_country_cidrs(body, job.country)
    <3>3. CASE cidrs = {}
      <4>1. job' = [job EXCEPT !.step = "post"]
        BY <3>2, <3>3 DEF SetsResult, Goes
      <4>2. job'.step = "post"
        BY <2>1, <4>1
      <4> QED
        BY <2>2, <3>1, <4>2
    <3>4. CASE cidrs # {}
      <4>1. job' = [job EXCEPT !.step = "rename", !.list = cidrs]
        BY <3>2, <3>4
      <4> HIDE DEF cidrs
      <4>2. job'.list = cidrs /\ job'.country = job.country
        BY <2>1, <4>1
      <4>3. cidrs = parse_country_cidrs(body, job'.country)
        BY <4>2 DEF cidrs
      <4> QED
        BY <3>1, <4>2, <4>3 DEF ListsInv
    <3> QED
      BY <3>3, <3>4
  <2>5. CASE DownloadFails \/ WriteFails \/ Send
    <3>1. UNCHANGED cache /\ \E step \in {"post", "send"} : job' = [job EXCEPT !.step = step]
      BY <2>5 DEF DownloadFails, WriteFails, Send, SetsResult, Goes
    <3>2. job'.step # "rename"
      BY <2>1, <3>1
    <3> QED
      BY <2>2, <3>1, <3>2
  <2>6. CASE ~(RenameOver \/ Download \/ DownloadFails \/ WriteFails \/ Send)
    <3>1. UNCHANGED cache /\ (job' = job \/ job' = NoJob \/ ClickRefresh)
      BY <2>6
      DEF GeoNext, geoVars, uiVars, workerVars, Launch, Exit, Crash, Gone, Apply, Connect,
          Disconnect, EngineExit, ClickRefresh, FinishRefresh, WorkerStep, Post
    <3>2. ClickRefresh => job'.step = "download"
      BY DEF ClickRefresh
    <3> QED
      BY <2>2, <3>1, <3>2, NoJobIsDone
  <2> QED
    BY <2>3, <2>4, <2>5, <2>6
<1> QED
  BY <1>1, <1>2, GeoIpInvariant, PTL DEF GeoSpec

\* No list in a cache sends an address direct that no row of its edition
\* delegates to its country, for any registry and any counts, except from the
\* block of a row that is not aligned, and then only addresses less than the
\* row's count before it (geoip/cidr.rs, geoip/ripe.rs, geoip/mod.rs).
THEOREM NoForeignAddress == GeoSpec => []CacheIsTheCountrys
<1>1. ListsInv => CacheIsTheCountrys
  <2> SUFFICES ASSUME ListsInv, NEW c \in Countries, cache[c] # NoList
               PROVE  \E body \in Bodies : \A block \in cache[c] : \A a \in Addrs(block) :
                        \E r \in Delegations(body, c) :
                          \/ a \in AddrRange(r.start, r.count)
                          \/ ~Aligned(r) /\ a < r.start /\ r.start < a + r.count
    BY DEF CacheIsTheCountrys
  <2>1. PICK body \in Bodies : cache[c] = parse_country_cidrs(body, c)
    BY DEF ListsInv
  <2>2. ASSUME NEW block \in cache[c], NEW a \in Addrs(block)
        PROVE  \E r \in Delegations(body, c) :
                 \/ a \in AddrRange(r.start, r.count)
                 \/ ~Aligned(r) /\ a < r.start /\ r.start < a + r.count
    <3>1. PICK r \in Delegations(body, c) : block = BlockOf(r)
      BY <2>1, ParsedBlocks
    <3> QED
      BY <2>2, <3>1, BlockOfRow
  <2> QED
    BY <2>2
<1> QED
  BY <1>1, ListsInvariant, PTL

\* A list in a cache covers the start of every delegation of its country in one
\* edition of the registry, more than half of an aligned one, and the whole of
\* an aligned one whose count is a power of two, if no row claims more addresses
\* than there are (geoip/cidr.rs).
THEOREM ListIsOneEdition == GeoSpec => []ListCovers
<1>1. ListsInv => ListCovers
  <2> SUFFICES ASSUME ListsInv, NEW c \in Countries, cache[c] # NoList
               PROVE  \E body \in Bodies :
                        /\ {r.start : r \in Delegations(body, c)} = {block.start : block \in cache[c]}
                        /\ \A r \in Delegations(body, c) :
                             LET all == AddrRange(r.start, r.count)
                                 hit == all \cap UNION {Addrs(block) : block \in cache[c]}
                             IN  /\ r.start \in hit
                                 /\ Aligned(r) =>
                                      /\ 2 * Cardinality(hit) > r.count
                                      /\ (\E k \in 0 .. AddrBits : r.count = 2^k) => hit = all
    BY DEF ListCovers
  <2>1. PICK body \in Bodies : cache[c] = parse_country_cidrs(body, c)
    BY DEF ListsInv
  <2>2. cache[c] = {BlockOf(r) : r \in Delegations(body, c)}
    BY <2>1, ParsedBlocks
  <2>3. {r.start : r \in Delegations(body, c)} = {block.start : block \in cache[c]}
    <3>1. \A r : BlockOf(r).start = r.start
      BY DEF BlockOf
    <3> QED
      BY <2>2, <3>1
  <2>4. ASSUME NEW r \in Delegations(body, c)
        PROVE  LET all == AddrRange(r.start, r.count)
                   hit == all \cap UNION {Addrs(block) : block \in cache[c]}
               IN  /\ r.start \in hit
                   /\ Aligned(r) => /\ 2 * Cardinality(hit) > r.count
                                    /\ (\E k \in 0 .. AddrBits : r.count = 2^k) => hit = all
    <3> DEFINE all == AddrRange(r.start, r.count)
               hit == all \cap UNION {Addrs(block) : block \in cache[c]}
    <3>1. r.start \in Nat /\ r.count \in Nat \ {0} /\ r.start \in Addrs(BlockOf(r))
      BY BlockOfRow
    <3>2. r.start \in all /\ IsFiniteSet(all)
      <4>1. all = r.start .. r.start + r.count - 1
        BY DEF AddrRange
      <4>2. IsFiniteSet(r.start .. r.start + r.count - 1)
        BY <3>1, IntervalOfCount
      <4> QED
        BY <3>1, <4>1, <4>2
    <3>3. r.start \in hit /\ hit \subseteq all
      BY <2>2, <3>1, <3>2
    <3>4. ASSUME Aligned(r)
          PROVE  /\ 2 * Cardinality(hit) > r.count
                 /\ (\E k \in 0 .. AddrBits : r.count = 2^k) => hit = all
      <4>1. /\ Addrs(BlockOf(r)) \subseteq all
            /\ r.count <= 2^AddrBits => r.count < 2 * Cardinality(Addrs(BlockOf(r)))
            /\ (\E k \in 0 .. AddrBits : r.count = 2^k) => Addrs(BlockOf(r)) = all
        BY <3>4, BlockOfAlignedRow
      <4>2. Addrs(BlockOf(r)) \subseteq hit
        BY <2>2, <4>1
      <4> HIDE DEF all, hit
      <4>3. r.count <= 2^AddrBits
        BY RegistryAssumption DEF Delegations
      <4>4. IsFiniteSet(hit)
        BY <3>2, <3>3, FS_Subset
      <4>5. /\ Cardinality(Addrs(BlockOf(r))) <= Cardinality(hit)
            /\ Cardinality(Addrs(BlockOf(r))) \in Nat /\ Cardinality(hit) \in Nat
        BY <4>2, <4>4, FS_Subset, FS_CardinalityType
      <4>6. 2 * Cardinality(hit) > r.count
        BY <3>1, <4>1, <4>3, <4>5
      <4>7. (\E k \in 0 .. AddrBits : r.count = 2^k) => hit = all
        BY <3>3, <4>1, <4>2
      <4> QED
        BY <4>6, <4>7
    <3> QED
      BY <3>3, <3>4 DEF all, hit
  <2> QED
    BY <2>3, <2>4
<1> QED
  BY <1>1, ListsInvariant, PTL
=============================================================================
