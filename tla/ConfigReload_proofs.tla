-------------------------- MODULE ConfigReload_proofs --------------------------
(***************************************************************************)
(* The safety of reloads, for any keys, requests, section contents, build  *)
(* features and files an operator may write.                               *)
(***************************************************************************)
EXTENDS ConfigReload, TLAPS

\* A request authenticated with a key that is not there any more is one a reload has
\* taken the key from: keys go by reloads only, and all at once.
KeyGoneIsRemoved ==
    \A r \in Requests :
        (request[r].at = "authenticated" /\ config.keys[request[r].key] = "absent")
            => r \in removed

\* The inductive invariant.
IInv ==
    /\ TypeOK
    /\ MergedIsValid
    /\ OneFileInForce
    /\ MissingOnlyIfRemoved
    /\ KeyGoneIsRemoved

-----------------------------------------------------------------------------
\* A merge is a configuration: it has the part of the old one that things were built
\* with, and the rest of the new one.
LEMMA MergeShape ==
    ASSUME NEW c \in AppConfig, NEW n \in AppConfig
    PROVE  /\ merge_reloadable(c, n) \in AppConfig
           /\ SameBuild(merge_reloadable(c, n), c)
           /\ Reflects(merge_reloadable(c, n), n)
<1> DEFINE s == [c.status EXCEPT !.limits = n.status.limits]
<1>1. c.status \in StatusConfig /\ n.status \in StatusConfig
  BY DEF AppConfig
<1>2. s \in StatusConfig
  BY <1>1 DEF StatusConfig
<1>3. s.enabled = c.status.enabled /\ s.store = c.status.store
      /\ s.dbPath = c.status.dbPath /\ s.redisUrl = c.status.redisUrl
      /\ s.limits = n.status.limits
  BY <1>1 DEF StatusConfig
<1>4. merge_reloadable(c, n) = [n EXCEPT !.fixed = c.fixed, !.status = s]
  BY DEF merge_reloadable
<1> HIDE DEF s
<1> QED
  BY <1>2, <1>3, <1>4 DEF AppConfig, SameBuild, Reflects

\* Two valid configurations merge into a valid one: no rule of validate_config that
\* relates several fields relates one that is kept to one that is taken over.
LEMMA MergeValid ==
    ASSUME NEW c \in AppConfig, NEW n \in AppConfig, Valid(c), Valid(n)
    PROVE  Valid(merge_reloadable(c, n))
BY MergeShape DEF Valid, SameBuild, Reflects

-----------------------------------------------------------------------------
\* The process starts with a valid configuration, its own build and no reload.
LEMMA InitInv == Init => IInv
<1> SUFFICES ASSUME Init PROVE IInv
  OBVIOUS
<1>1. file \in AppConfig /\ Valid(file)
  BY ReloadAssumption DEF Init
<1>2. TypeOK
  BY <1>1 DEF Init, TypeOK, Waiting, AppConfig, Arriving, RequestStates
<1> QED
  BY <1>1, <1>2 DEF Init, IInv, MergedIsValid, OneFileInForce, FromOneFile, SameBuild,
     Reflects, MissingOnlyIfRemoved, KeyGoneIsRemoved, Waiting, Arriving

\* The operator and the requests leave the data of the reload task alone.
LEMMA QuietStep ==
    ASSUME IInv, TypeOK', MissingOnlyIfRemoved', KeyGoneIsRemoved',
           UNCHANGED <<task, config, storeConf, built>>
    PROVE  IInv'
BY DEF IInv, MergedIsValid, OneFileInForce, FromOneFile, Valid, SameBuild, Reflects

\* And the reload task leaves the requests alone until it swaps.
LEMMA ServingUntouched ==
    ASSUME IInv, UNCHANGED <<config, serving>>
    PROVE  MissingOnlyIfRemoved' /\ KeyGoneIsRemoved'
BY DEF IInv, MissingOnlyIfRemoved, KeyGoneIsRemoved, serving

\* The operator edits the file: nothing the process holds changes.
LEMMA EditStep == ASSUME IInv, NEW c \in Files, Edit(c) PROVE IInv'
<1>1. TypeOK'
  BY DEF IInv, TypeOK, Edit, serving
<1> QED
  BY <1>1, ServingUntouched, QuietStep DEF Edit

\* A SIGHUP arrives: it waits for the task.
LEMMA HangupStep == ASSUME IInv, Hangup PROVE IInv'
<1>1. TypeOK'
  BY DEF IInv, TypeOK, Hangup, serving
<1> QED
  BY <1>1, ServingUntouched, QuietStep DEF Hangup

\* The task takes the signal.
LEMMA ReceiveStep == ASSUME IInv, Receive PROVE IInv'
<1>1. TypeOK'
  BY DEF IInv, TypeOK, Receive, serving
<1>2. MissingOnlyIfRemoved' /\ KeyGoneIsRemoved'
  BY ServingUntouched DEF Receive
<1> QED
  BY <1>1, <1>2 DEF IInv, Receive, MergedIsValid, OneFileInForce, FromOneFile,
     Waiting, Loading, Valid, SameBuild, Reflects

\* The file is validated, the configuration in force is valid, and so is the merge.
LEMMA LoadStep == ASSUME IInv, Load PROVE IInv'
<1>1. config \in AppConfig /\ file \in AppConfig /\ Valid(config)
  BY ReloadAssumption DEF IInv, TypeOK, MergedIsValid
<1>2. MissingOnlyIfRemoved' /\ KeyGoneIsRemoved'
  BY ServingUntouched DEF Load
<1>3. CASE Valid(file)
  <2> DEFINE m == merge_reloadable(config, file)
  <2>1. task' = [at |-> "store", merged |-> m]
    BY <1>3 DEF Load, Storing
  <2>2. m \in AppConfig /\ SameBuild(m, config) /\ Reflects(m, file) /\ Valid(m)
    BY <1>1, <1>3, MergeShape, MergeValid
  <2> HIDE DEF m
  <2>3. TypeOK'
    BY <2>1, <2>2 DEF IInv, TypeOK, Load, serving
  <2>4. FromOneFile(m)
    BY <1>3, <2>2 DEF IInv, TypeOK, OneFileInForce, FromOneFile, SameBuild
  <2> QED
    BY <1>2, <2>1, <2>2, <2>3, <2>4 DEF IInv, Load, MergedIsValid, OneFileInForce,
       FromOneFile, Loading, Valid, SameBuild, Reflects
<1>4. CASE ~Valid(file)
  <2>1. task' = Waiting
    BY <1>4 DEF Load
  <2>2. TypeOK'
    BY <2>1 DEF IInv, TypeOK, Load, serving
  <2> QED
    BY <1>2, <2>1, <2>2 DEF IInv, Load, MergedIsValid, OneFileInForce, FromOneFile,
       Waiting, Loading, Valid, SameBuild, Reflects
<1> QED
  BY <1>3, <1>4

\* reload, first half: the store is given its part of the merged configuration.
LEMMA StoreStep == ASSUME IInv, Store PROVE IInv'
<1>1. task.at = "store" /\ task.merged \in AppConfig
  BY DEF IInv, Store, TypeOK, Waiting, Loading
<1>2. task' = [at |-> "swap", merged |-> task.merged]
  BY DEF Store, Swapping
<1>3. TypeOK'
  BY <1>1, <1>2 DEF IInv, TypeOK, Store, serving, AppConfig
<1>4. MissingOnlyIfRemoved' /\ KeyGoneIsRemoved'
  BY ServingUntouched DEF Store
<1> QED
  BY <1>1, <1>2, <1>3, <1>4 DEF IInv, Store, MergedIsValid, OneFileInForce, FromOneFile,
     Valid, SameBuild, Reflects

\* reload, second half: the merged configuration, valid and of the same build, replaces
\* the old one.
LEMMA SwapStep == ASSUME IInv, Swap PROVE IInv'
<1>1. task.at = "swap" /\ task.merged \in AppConfig
  BY DEF IInv, Swap, TypeOK, Waiting, Loading
<1>2. /\ removed \subseteq removed' /\ removed' \subseteq Requests
      /\ \A r \in Requests :
            (request[r].at = "authenticated" /\ config'.keys[request[r].key] = "absent")
                => r \in removed'
  BY DEF IInv, Swap, TypeOK
<1>3. TypeOK'
  BY <1>1, <1>2 DEF IInv, TypeOK, Swap
<1>4. MissingOnlyIfRemoved' /\ KeyGoneIsRemoved'
  BY <1>2 DEF IInv, Swap, MissingOnlyIfRemoved, KeyGoneIsRemoved
<1> QED
  BY <1>1, <1>3, <1>4 DEF IInv, Swap, MergedIsValid, OneFileInForce, FromOneFile,
     Waiting, Valid, SameBuild, Reflects

\* Authentication admits a request only with a key that is enabled then.
LEMMA AuthenticateStep ==
    ASSUME IInv, NEW q \in Requests, NEW k \in ApiKeys, Authenticate(q, k)
    PROVE  IInv'
<1>1. PICK s \in RequestStates :
         /\ request' = [request EXCEPT ![q] = s]
         /\ s.at # "internal_error"
         /\ s.at = "authenticated" => s.key = k /\ config.keys[k] = "enabled"
  <2>1. Authenticated(k) \in RequestStates /\ Ended("refused") \in RequestStates
    BY DEF RequestStates, Authenticated, Ended
  <2>2. CASE config.keys[k] = "enabled"
    BY <2>1, <2>2 DEF Authenticate, Authenticated
  <2>3. CASE config.keys[k] # "enabled"
    BY <2>1, <2>3 DEF Authenticate, Ended
  <2> QED
    BY <2>2, <2>3
<1>2. UNCHANGED <<file, signal, task, config, storeConf, built, removed>>
  BY DEF Authenticate
<1>3. request \in [Requests -> RequestStates]
  BY DEF IInv, TypeOK
<1>4. TypeOK'
  BY <1>1, <1>2, <1>3 DEF IInv, TypeOK
<1>5. MissingOnlyIfRemoved' /\ KeyGoneIsRemoved'
  BY <1>1, <1>2, <1>3 DEF IInv, MissingOnlyIfRemoved, KeyGoneIsRemoved
<1> QED
  BY <1>2, <1>4, <1>5, QuietStep

\* The handler misses the key only if a reload has removed it since.
LEMMA GetKeySelfStep == ASSUME IInv, NEW q \in Requests, GetKeySelf(q) PROVE IInv'
<1>1. PICK s \in RequestStates :
         /\ request' = [request EXCEPT ![q] = s]
         /\ s.at = "internal_error" => config.keys[request[q].key] = "absent"
         /\ s.at # "authenticated"
  <2>1. Ended("ok") \in RequestStates /\ Ended("internal_error") \in RequestStates
    BY DEF RequestStates, Ended
  <2>2. CASE Known(request[q].key)
    BY <2>1, <2>2 DEF GetKeySelf, Ended
  <2>3. CASE ~Known(request[q].key)
    BY <2>1, <2>3 DEF GetKeySelf, Ended, Known
  <2> QED
    BY <2>2, <2>3
<1>2. /\ UNCHANGED <<file, signal, task, config, storeConf, built, removed>>
      /\ request[q].at = "authenticated"
  BY DEF GetKeySelf
<1>3. request \in [Requests -> RequestStates]
  BY DEF IInv, TypeOK
<1>4. TypeOK'
  BY <1>1, <1>2, <1>3 DEF IInv, TypeOK
<1>5. MissingOnlyIfRemoved' /\ KeyGoneIsRemoved'
  BY <1>1, <1>2, <1>3 DEF IInv, MissingOnlyIfRemoved, KeyGoneIsRemoved
<1> QED
  BY <1>2, <1>4, <1>5, QuietStep

\* Every step keeps the invariant.
LEMMA NextInv == IInv /\ [Next]_vars => IInv'
<1> SUFFICES ASSUME IInv, [Next]_vars PROVE IInv'
  OBVIOUS
<1>1. ASSUME NEW c \in Files, Edit(c) PROVE IInv'
  BY <1>1, EditStep
<1>2. ASSUME NEW r \in Requests, NEW k \in ApiKeys, Authenticate(r, k) PROVE IInv'
  BY <1>2, AuthenticateStep
<1>3. ASSUME NEW r \in Requests, GetKeySelf(r) PROVE IInv'
  BY <1>3, GetKeySelfStep
<1>4. CASE UNCHANGED vars
  <2>1. TypeOK' /\ MissingOnlyIfRemoved' /\ KeyGoneIsRemoved'
    BY <1>4 DEF vars, IInv, TypeOK, MissingOnlyIfRemoved, KeyGoneIsRemoved
  <2> QED
    BY <1>4, <2>1, QuietStep DEF vars
<1> QED
  BY <1>1, <1>2, <1>3, <1>4, HangupStep, ReceiveStep, LoadStep, StoreStep, SwapStep
     DEF Next

\* The inductive invariant holds in every reachable state.
THEOREM Invariant == Spec => []IInv
BY InitInv, NextInv, PTL DEF Spec

\* Type correctness.
THEOREM TypeCorrect == Spec => []TypeOK
<1>1. IInv => TypeOK
  BY DEF IInv
<1> QED
  BY <1>1, Invariant, PTL

\* No sequence of files and SIGHUPs puts a configuration in force that
\* validate_config would refuse (merge_reloadable, whose result nobody validates).
THEOREM AlwaysValid == Spec => []MergedIsValid
<1>1. IInv => MergedIsValid
  BY DEF IInv
<1> QED
  BY <1>1, Invariant, PTL

\* Over any sequence of files and SIGHUPs, the configuration in force is the reloadable
\* part of one valid file and the rest of start-up's (merge_reloadable, applied again and
\* again), and the store has been given its part of it, or of the next one in the middle
\* of reload_config.
THEOREM NothingMixed == Spec => []OneFileInForce
<1>1. IInv => OneFileInForce
  BY DEF IInv
<1> QED
  BY <1>1, Invariant, PTL

\* /v1/keys/self fails to find its caller's key only if a reload has removed it since
\* the caller was authenticated.
THEOREM MissingKeyWasRemoved == Spec => []MissingOnlyIfRemoved
<1>1. IInv => MissingOnlyIfRemoved
  BY DEF IInv
<1> QED
  BY <1>1, Invariant, PTL
=============================================================================
