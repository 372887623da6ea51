--------------------------- MODULE InMemoryProofs ---------------------------
(***************************************************************************)
(* Proofs about what two processes keep in memory of the database: the     *)
(* adapters of the provider router in the server, and the view of the      *)
(* dashboard, with the connection that feeds it.  The two have nothing     *)
(* else in common, and no lemma of one is used for the other.              *)
(***************************************************************************)
EXTENDS ProvidersInvariant, LiveView, FiniteSetTheorems, TLAPS
-----------------------------------------------------------------------------
(***************************************************************************)
(* The provider router: types.                                             *)
(***************************************************************************)
LEMMA ProvidersTyped == ProvidersInit => ProvidersTypeOK /\ AboutProvider
BY ProvidersAssumption DEF ProvidersInit, ProvidersTypeOK, AboutProvider, AboutOne,
   NoRow, NotLoaded, Steps

VaultType == [Ref -> [owner : Provider \cup {NoProvider}, key : Provider \cup {NoProvider},
                     sealed : Secrets \cup {NoSecret}]]
AdapterType == [Provider -> [key : Provider \cup {NoProvider}, loaded : BOOLEAN]]

\* What the router builds and what storeCredential leaves behind.
LEMMA AdaptersTyped ==
    ASSUME ProvidersTypeOK, NEW rows PROVE BuiltAdapters(rows) \in AdapterType
<1>1. \A o \in Provider : RefOf[o] \in Ref
  BY DEF Ref
<1>2. \A o \in Provider : Resolve(o) \in Provider \cup {NoProvider}
  BY <1>1 DEF Resolve, ProvidersTypeOK
<1> QED
  BY <1>2 DEF BuiltAdapters, ProvidersTypeOK, AdapterType

LEMMA StoredTyped ==
    ASSUME ProvidersTypeOK, NEW p \in Provider PROVE Stored(p) \in VaultType
<1>1. RefOf[p] \in Ref
  BY DEF Ref
<1>2. vault[RefOf[p]].owner \in Provider \cup {NoProvider} /\ secret \in Secrets
  BY <1>1 DEF ProvidersTypeOK
<1> QED
  BY <1>1, <1>2 DEF Stored, Encrypted, ProvidersTypeOK, VaultType

LEMMA RequestTyped ==
    ASSUME ProvidersTypeOK, AboutProvider, NEW q \in Request, RequestStep(q)
    PROVE  ProvidersTypeOK' /\ AboutProvider'
<1>0. /\ pc[q] = "store" => Stored(about[q]) \in VaultType
      /\ BuiltAdapters(read[q]) \in AdapterType
  BY AdaptersTyped, StoredTyped DEF AboutProvider, AboutOne
<1> USE DEF ProvidersTypeOK, AboutProvider, AboutOne, Steps, tableVars, serverVars,
        ProcessUnchanged, Goto, Continue, Answer, Begin
<1>1. CASE RegisterKey(q)
  <2>1. PICK p \in Provider \ answers.begun :
           /\ cache' = [cache EXCEPT ![RefOf[p]] = p]
           /\ answers' = [answers EXCEPT !.begun = @ \cup {p}]
           /\ Begin(q, p, "check")
    BY <1>1 DEF RegisterKey
  <2>2. cache' \in [Ref -> Provider \cup {NoProvider}]
    BY <2>1
  <2>3. answers' \in [begun : SUBSET Provider, stored : SUBSET Provider,
                      registered : SUBSET Provider, missed : SUBSET Provider,
                      unread : SUBSET Provider]
    BY <2>1
  <2>4. UNCHANGED <<tableVars, adapters, serverVars>>
    BY <1>1 DEF RegisterKey
  <2> QED
    BY <2>1, <2>2, <2>3, <2>4
<1>2. CASE RegisterCheck(q)
  BY <1>2 DEF RegisterCheck
<1>3. CASE RegisterInsert(q)
  BY <1>3 DEF RegisterInsert, Inserted
<1>4. CASE RegisterStore(q)
  <2>1. about[q] \in Provider
    BY <1>4 DEF RegisterStore
  <2>3. vault' \in VaultType
    BY <1>0, <1>4 DEF RegisterStore, VaultType
  <2>4. cache' \in [Ref -> Provider \cup {NoProvider}]
    BY <1>4, <2>1 DEF RegisterStore
  <2>5. answers' \in [begun : SUBSET Provider, stored : SUBSET Provider,
                      registered : SUBSET Provider, missed : SUBSET Provider,
                      unread : SUBSET Provider]
    BY <1>4, <2>1 DEF RegisterStore
  <2> QED
    BY <1>4, <2>1, <2>3, <2>4, <2>5 DEF RegisterStore, VaultType
<1>5. CASE LoadRead(q, "load", "build") \/ LoadRead(q, "reload", "rebuild")
  BY <1>5 DEF LoadRead
<1>6. CASE LoadBuild(q)
  BY <1>0, <1>6 DEF LoadBuild, AdapterType
<1>7. CASE Reload(q)
  BY <1>7 DEF Reload
<1>8. CASE DeleteMappings(q)
  BY <1>8 DEF DeleteMappings
<1>9. CASE DeleteRow(q)
  <2>1. CASE about[q] \in present
    <3>1. vault' \in VaultType
      BY <1>9, <2>1 DEF DeleteRow, NoRow, VaultType
    <3> QED
      BY <1>9, <2>1, <3>1 DEF DeleteRow, MappingsWithout, VaultType
  <2>2. CASE about[q] \notin present
    BY <1>9, <2>2 DEF DeleteRow
  <2> QED
    BY <2>1, <2>2
<1>10. CASE HealthPing(q)
  BY <1>10 DEF HealthPing, Loaded
<1>11. CASE HealthWrite(q)
  <2>1. healthy' \subseteq Provider
    BY <1>11 DEF HealthWrite
  <2>2. CASE Answer(q)
    BY <1>11, <2>1, <2>2 DEF HealthWrite
  <2>3. CASE Continue(q, "ping")
    BY <1>11, <2>1, <2>3 DEF HealthWrite
  <2> QED
    BY <1>11, <2>2, <2>3 DEF HealthWrite
<1>12. CASE SelectOverride(q)
  BY <1>12 DEF SelectOverride
<1>13. CASE SelectMapped(q)
  BY <1>13 DEF SelectMapped
<1>14. CASE LoadFails(q)
  <2>1. about[q] \in Provider \cup {NoProvider}
    OBVIOUS
  <2>2. answers' \in [begun : SUBSET Provider, stored : SUBSET Provider,
                      registered : SUBSET Provider, missed : SUBSET Provider,
                      unread : SUBSET Provider]
    BY <1>14, <2>1 DEF LoadFails, Loaded
  <2> QED
    BY <1>14, <2>2 DEF LoadFails
<1> QED
  BY <1>1, <1>2, <1>3, <1>4, <1>5, <1>6, <1>7, <1>8, <1>9, <1>10, <1>11, <1>12, <1>13,
     <1>14 DEF RequestStep

LEMMA ServerTyped ==
    ASSUME ProvidersTypeOK, AboutProvider,
           CreateRow \/ MapProvider \/ ReportHealth \/ Crash \/ Start
    PROVE  ProvidersTypeOK' /\ AboutProvider'
<1>0. BuiltAdapters(present) \in AdapterType
  BY AdaptersTyped
<1> USE DEF ProvidersTypeOK, AboutProvider, AboutOne, Steps, tableVars, serverVars,
        requestVars, ProcessUnchanged
<1>1. CASE CreateRow
  BY <1>1 DEF CreateRow, Inserted
<1>2. CASE MapProvider
  BY <1>2 DEF MapProvider
<1>3. CASE ReportHealth
  BY <1>3 DEF ReportHealth
<1>4. CASE Crash
  BY <1>4, ProvidersAssumption DEF Crash, NotLoaded
<1>5. CASE StartCredentials("credentials", "adapters")
  BY <1>5 DEF StartCredentials
<1>6. CASE StartAdapters("adapters", "up")
  BY <1>0, <1>6 DEF StartAdapters, AdapterType
<1> QED
  BY <1>1, <1>2, <1>3, <1>4, <1>5, <1>6 DEF Start

LEMMA AnswerForgets ==
    ASSUME ProvidersTypeOK, NEW q \in Request, Answer(q)
    PROVE  \A o \in Request : /\ pc'[o] = "none" \/ (pc'[o] = pc[o] /\ about'[o] = about[o])
                              /\ read'[o] \subseteq read[o]
<1>1. \A o \in Request : pc'[o] = "none" \/ (pc'[o] = pc[o] /\ about'[o] = about[o])
  BY DEF Answer, Goto, ProvidersTypeOK
<1>2. \A o \in Request : read'[o] = IF o = q THEN {} ELSE read[o]
  BY DEF Answer, ProvidersTypeOK
<1> QED
  BY <1>1, <1>2

LEMMA RequestBegun ==
    ASSUME ProvidersTypeOK, AboutProvider, Begun, RegisteredOnce, NEW q \in Request, RequestStep(q)
    PROVE  Begun'
<1> USE DEF Begun, RegisteredOnce, NotAnswered, Apart, Unseen, Registering, Loaded, ProvidersTypeOK, AboutProvider, AboutOne, tableVars, serverVars,
        ProcessUnchanged, Goto, Continue, Answer, Begin, Idle
<1>1. CASE RegisterKey(q)
  BY <1>1 DEF RegisterKey
<1>2. CASE RegisterCheck(q)
  BY <1>2 DEF RegisterCheck
<1>3. CASE RegisterInsert(q)
  BY <1>3, ProvidersAssumption DEF RegisterInsert, Inserted
<1>4. CASE RegisterStore(q)
  BY <1>4, ProvidersAssumption DEF RegisterStore
<1>5. CASE LoadRead(q, "load", "build") \/ LoadRead(q, "reload", "rebuild")
  BY <1>5 DEF LoadRead
<1>6. CASE LoadBuild(q)
  BY <1>6 DEF LoadBuild, BuiltAdapters
<1>7. CASE Reload(q)
  BY <1>7 DEF Reload
<1>8. CASE DeleteMappings(q)
  BY <1>8 DEF DeleteMappings
<1>9. CASE DeleteRow(q)
  BY <1>9 DEF DeleteRow
<1>10. CASE HealthPing(q)
  BY <1>10 DEF HealthPing
<1>11. CASE HealthWrite(q)
  BY <1>11 DEF HealthWrite
<1>12. CASE SelectOverride(q)
  BY <1>12 DEF SelectOverride
<1>13. CASE SelectMapped(q)
  BY <1>13 DEF SelectMapped
<1>14. CASE LoadFails(q)
  BY <1>14, ProvidersAssumption DEF LoadFails
<1> QED
  BY <1>1, <1>2, <1>3, <1>4, <1>5, <1>6, <1>7, <1>8, <1>9, <1>10, <1>11, <1>12, <1>13,
     <1>14 DEF RequestStep

LEMMA RequestOnce ==
    ASSUME ProvidersTypeOK, AboutProvider, Begun, RegisteredOnce, NEW q \in Request, RequestStep(q)
    PROVE  RegisteredOnce'
<1> USE DEF Begun, RegisteredOnce, NotAnswered, Apart, Unseen, Registering, Loaded, ProvidersTypeOK, AboutProvider, AboutOne, tableVars, serverVars,
        ProcessUnchanged, Goto, Continue, Answer, Begin, Idle
<1>1. CASE RegisterKey(q)
  BY <1>1 DEF RegisterKey
<1>2. CASE RegisterCheck(q)
  <2>1. NotAnswered'
    BY <1>2 DEF RegisterCheck
  <2>2. Apart'
    BY <1>2 DEF RegisterCheck
  <2>3. Unseen'
    <3>1. CASE Continue(q, "insert")
      BY <1>2, <3>1 DEF RegisterCheck
    <3>2. CASE Answer(q)
      BY <1>2, <3>2 DEF RegisterCheck
    <3> QED
      BY <1>2, <3>1, <3>2 DEF RegisterCheck
  <2> QED
    BY <2>1, <2>2, <2>3
<1>3. CASE RegisterInsert(q)
  <2>1. NotAnswered'
    BY <1>3, ProvidersAssumption DEF RegisterInsert, Inserted
  <2>2. Apart'
    BY <1>3, ProvidersAssumption DEF RegisterInsert, Inserted
  <2>3. Unseen'
    BY <1>3, ProvidersAssumption DEF RegisterInsert, Inserted
  <2> QED
    BY <2>1, <2>2, <2>3
<1>4. CASE RegisterStore(q)
  <2>1. NotAnswered'
    BY <1>4, ProvidersAssumption DEF RegisterStore
  <2>2. Apart'
    BY <1>4, ProvidersAssumption DEF RegisterStore
  <2>3. Unseen'
    BY <1>4, ProvidersAssumption DEF RegisterStore
  <2> QED
    BY <2>1, <2>2, <2>3
<1>5. CASE LoadRead(q, "load", "build") \/ LoadRead(q, "reload", "rebuild")
  <2>1. NotAnswered'
    BY <1>5 DEF LoadRead
  <2>2. Apart'
    BY <1>5 DEF LoadRead
  <2>3. Unseen'
    BY <1>5 DEF LoadRead
  <2> QED
    BY <2>1, <2>2, <2>3
<1>6. CASE LoadBuild(q)
  BY <1>6 DEF LoadBuild, BuiltAdapters
<1>7. CASE Reload(q)
  BY <1>7 DEF Reload
<1>8. CASE DeleteMappings(q)
  BY <1>8 DEF DeleteMappings
<1>9. CASE DeleteRow(q)
  <2>1. CASE about[q] \in present
    BY <1>9, <2>1 DEF DeleteRow
  <2>2. CASE about[q] \notin present
    <3>1. NotAnswered' /\ Apart'
      BY <1>9, <2>2 DEF DeleteRow
    <3>2. \A o \in Request : /\ pc'[o] = "none" \/ (pc'[o] = pc[o] /\ about'[o] = about[o])
                             /\ read'[o] \subseteq read[o]
      BY <1>9, <2>2, AnswerForgets DEF DeleteRow
    <3>3. UNCHANGED <<present, answers, adapters>>
      BY <1>9, <2>2 DEF DeleteRow
    <3>4. Unseen'
      BY <3>2, <3>3
    <3> QED
      BY <3>1, <3>4
  <2> QED
    BY <2>1, <2>2
<1>10. CASE HealthPing(q)
  BY <1>10 DEF HealthPing
<1>11. CASE HealthWrite(q)
  <2>1. NotAnswered'
    BY <1>11 DEF HealthWrite
  <2>2. Apart'
    BY <1>11 DEF HealthWrite
  <2>3. Unseen'
    <3>1. CASE Loaded \subseteq visited[q]
      BY <1>11, <3>1 DEF HealthWrite
    <3>2. CASE ~ (Loaded \subseteq visited[q])
      BY <1>11, <3>2 DEF HealthWrite
    <3> QED
      BY <3>1, <3>2
  <2> QED
    BY <2>1, <2>2, <2>3
<1>12. CASE SelectOverride(q)
  BY <1>12 DEF SelectOverride
<1>13. CASE SelectMapped(q)
  BY <1>13 DEF SelectMapped
<1>14. CASE LoadFails(q)
  BY <1>14, ProvidersAssumption DEF LoadFails
<1> QED
  BY <1>1, <1>2, <1>3, <1>4, <1>5, <1>6, <1>7, <1>8, <1>9, <1>10, <1>11, <1>12, <1>13,
     <1>14 DEF RequestStep

LEMMA RequestRows ==
    ASSUME ProvidersTypeOK, AboutProvider, Begun, RegisteredOnce, OwnRowRead, NEW q \in Request, RequestStep(q)
    PROVE  OwnRowRead'
<1> USE DEF OwnRowRead, Begun, RegisteredOnce, NotAnswered, Apart, Unseen, Registering, ProvidersTypeOK, AboutProvider, AboutOne, tableVars, serverVars,
        ProcessUnchanged, Goto, Continue, Answer, Begin, Idle
<1>1. CASE RegisterKey(q)
  BY <1>1 DEF RegisterKey
<1>2. CASE RegisterCheck(q)
  BY <1>2 DEF RegisterCheck
<1>3. CASE RegisterInsert(q)
  BY <1>3, ProvidersAssumption DEF RegisterInsert, Inserted
<1>4. CASE RegisterStore(q)
  BY <1>4, ProvidersAssumption DEF RegisterStore
<1>5. CASE LoadRead(q, "load", "build") \/ LoadRead(q, "reload", "rebuild")
  BY <1>5 DEF LoadRead
<1>6. CASE LoadBuild(q)
  BY <1>6 DEF LoadBuild
<1>7. CASE Reload(q)
  BY <1>7 DEF Reload
<1>8. CASE DeleteMappings(q)
  BY <1>8 DEF DeleteMappings
<1>9. CASE DeleteRow(q)
  BY <1>9 DEF DeleteRow
<1>10. CASE HealthPing(q)
  BY <1>10 DEF HealthPing
<1>11. CASE HealthWrite(q)
  BY <1>11 DEF HealthWrite
<1>12. CASE SelectOverride(q)
  BY <1>12 DEF SelectOverride
<1>13. CASE SelectMapped(q)
  BY <1>13 DEF SelectMapped
<1>14. CASE LoadFails(q)
  BY <1>14, ProvidersAssumption DEF LoadFails
<1> QED
  BY <1>1, <1>2, <1>3, <1>4, <1>5, <1>6, <1>7, <1>8, <1>9, <1>10, <1>11, <1>12, <1>13,
     <1>14 DEF RequestStep

LEMMA RequestRoutes ==
    ASSUME ProvidersTypeOK, AboutProvider, Starting, OwnRowRead, Begun, RegisteredOnce, RegisteredRoutable, NEW q \in Request, RequestStep(q)
    PROVE  Starting' /\ RegisteredRoutable'
<1> USE DEF OwnRowRead, Begun, Starting, RegisteredRoutable, RegisteredOnce, NotAnswered, Apart, Unseen, Registering, Loaded, ProvidersTypeOK, AboutProvider, AboutOne, tableVars, serverVars,
        ProcessUnchanged, Goto, Continue, Answer, Begin, Idle
<1>1. CASE RegisterKey(q)
  BY <1>1 DEF RegisterKey
<1>2. CASE RegisterCheck(q)
  BY <1>2 DEF RegisterCheck
<1>3. CASE RegisterInsert(q)
  BY <1>3, ProvidersAssumption DEF RegisterInsert, Inserted
<1>4. CASE RegisterStore(q)
  BY <1>4, ProvidersAssumption DEF RegisterStore
<1>5. CASE LoadRead(q, "load", "build") \/ LoadRead(q, "reload", "rebuild")
  BY <1>5 DEF LoadRead
<1>6. CASE LoadBuild(q)
  BY <1>6 DEF LoadBuild, BuiltAdapters
<1>7. CASE Reload(q)
  BY <1>7 DEF Reload
<1>8. CASE DeleteMappings(q)
  BY <1>8 DEF DeleteMappings
<1>9. CASE DeleteRow(q)
  BY <1>9 DEF DeleteRow
<1>10. CASE HealthPing(q)
  BY <1>10 DEF HealthPing
<1>11. CASE HealthWrite(q)
  BY <1>11 DEF HealthWrite
<1>12. CASE SelectOverride(q)
  BY <1>12 DEF SelectOverride
<1>13. CASE SelectMapped(q)
  BY <1>13 DEF SelectMapped
<1>14. CASE LoadFails(q)
  BY <1>14, ProvidersAssumption DEF LoadFails
<1> QED
  BY <1>1, <1>2, <1>3, <1>4, <1>5, <1>6, <1>7, <1>8, <1>9, <1>10, <1>11, <1>12, <1>13,
     <1>14 DEF RequestStep

LEMMA ServerRegistrations ==
    ASSUME ProvidersTypeOK, AboutProvider, Starting, Begun, RegisteredOnce, OwnRowRead,
           CreateRow \/ MapProvider \/ ReportHealth \/ Crash \/ Start
    PROVE  Begun' /\ RegisteredOnce' /\ OwnRowRead'
<1> USE DEF Starting, Begun, RegisteredOnce, NotAnswered, Apart, Unseen, OwnRowRead, Registering, Loaded, ProvidersTypeOK, AboutProvider, AboutOne, tableVars, serverVars,
        requestVars, ProcessUnchanged
<1>1. CASE CreateRow
  BY <1>1, ProvidersAssumption DEF CreateRow, Inserted
<1>2. CASE MapProvider
  BY <1>2, ProvidersAssumption DEF MapProvider
<1>3. CASE ReportHealth
  BY <1>3, ProvidersAssumption DEF ReportHealth
<1>4. CASE Crash
  BY <1>4, ProvidersAssumption DEF Crash, NotLoaded
<1>5. CASE StartCredentials("credentials", "adapters")
  <2>1. /\ answers'.begun = answers.begun /\ answers'.stored = answers.stored
        /\ answers'.registered = answers.registered
        /\ answers'.unread \subseteq answers.stored
    BY <1>5 DEF StartCredentials
  <2>2. UNCHANGED <<present, buildable, adapters, requestVars>>
    BY <1>5 DEF StartCredentials
  <2> QED
    BY <2>1, <2>2
<1>6. CASE StartAdapters("adapters", "up")
  <2>1. /\ answers'.begun = answers.begun /\ answers'.stored = answers.stored
        /\ answers'.registered = answers.registered
        /\ answers'.unread = answers.unread
    BY <1>6 DEF StartAdapters
  <2>2. UNCHANGED <<present, buildable, requestVars>>
    BY <1>6 DEF StartAdapters
  <2>3. /\ Loaded' \subseteq Loaded \cup present
        /\ \A o \in Request : pc[o] = "none"
    BY <1>6 DEF StartAdapters, BuiltAdapters
  <2> QED
    BY <2>1, <2>2, <2>3
<1> QED
  BY <1>1, <1>2, <1>3, <1>4, <1>5, <1>6 DEF Start

LEMMA ServerRoutes ==
    ASSUME ProvidersTypeOK, AboutProvider, Starting, OwnRowRead, Begun, RegisteredOnce, RegisteredRoutable,
           CreateRow \/ MapProvider \/ ReportHealth \/ Crash \/ Start
    PROVE  Starting' /\ RegisteredRoutable'
<1> USE DEF Begun, Starting, RegisteredRoutable, Loaded, ProvidersTypeOK, AboutProvider, AboutOne, tableVars, serverVars,
        requestVars, ProcessUnchanged
<1>1. CASE CreateRow
  BY <1>1, ProvidersAssumption DEF CreateRow, Inserted
<1>2. CASE MapProvider
  BY <1>2, ProvidersAssumption DEF MapProvider
<1>3. CASE ReportHealth
  BY <1>3, ProvidersAssumption DEF ReportHealth
<1>4. CASE Crash
  BY <1>4, ProvidersAssumption DEF Crash, NotLoaded
<1>5. CASE StartCredentials("credentials", "adapters")
  BY <1>5, ProvidersAssumption DEF StartCredentials
<1>6. CASE StartAdapters("adapters", "up")
  BY <1>6, ProvidersAssumption DEF StartAdapters, BuiltAdapters
<1> QED
  BY <1>1, <1>2, <1>3, <1>4, <1>5, <1>6 DEF Start

-----------------------------------------------------------------------------
(***************************************************************************)
(* Keys.  Most steps touch neither the credentials nor the adapters, and   *)
(* bring no row back.                                                      *)
(***************************************************************************)

AtKey == {"check", "insert", "store"}

LEMMA KeysUntouched ==
    ASSUME KeysKept, UNCHANGED <<vault, cache, adapters, secret, server>>,
           answers'.unread = answers.unread,
           answers'.stored \cap present' \subseteq answers.stored \cap present
    PROVE  KeysKept'
BY DEF KeysKept, Decryptable, Loaded

LEMMA CachedUntouched ==
    ASSUME KeyCached, UNCHANGED <<cache, adapters>>,
           \A o \in Request : pc'[o] \in AtKey => pc[o] \in AtKey /\ about'[o] = about[o]
    PROVE  KeyCached'
BY DEF KeyCached, Loaded, AtKey

\* RegisterKey: nobody has stored or loaded anything for the new provider.
LEMMA RegisterKeyKeeps ==
    ASSUME OwnCredentials, ProvidersTypeOK, AboutProvider, Begun, RegisteredOnce,
           KeysKept, KeyCached, NEW q \in Request, RegisterKey(q)
    PROVE  KeysKept' /\ KeyCached'
<1>1. PICK p \in Provider \ answers.begun :
         /\ cache' = [cache EXCEPT ![RefOf[p]] = p]
         /\ answers' = [answers EXCEPT !.begun = @ \cup {p}]
         /\ Begin(q, p, "check")
  BY DEF RegisterKey
<1>2. UNCHANGED <<present, vault, adapters, secret, server>>
  BY DEF RegisterKey, tableVars, serverVars
<1>3. /\ answers'.stored = answers.stored /\ answers'.unread = answers.unread
      /\ p \notin answers.stored \cup Loaded
  BY <1>1 DEF ProvidersTypeOK, Begun
<1>4. \A o \in Provider : /\ RefOf[o] \in Ref
                          /\ cache'[RefOf[o]] = IF o = p THEN p ELSE cache[RefOf[o]]
  BY <1>1 DEF OwnCredentials, ProvidersTypeOK, Ref
<1>5. KeysKept'
  BY <1>2, <1>3, <1>4 DEF KeysKept, Decryptable, Loaded, ProvidersTypeOK
<1>6. \A o \in Request : /\ pc'[o] = IF o = q THEN "check" ELSE pc[o]
                         /\ about'[o] = IF o = q THEN p ELSE about[o]
  BY <1>1 DEF Begin, Goto, ProvidersTypeOK
<1>7. ASSUME NEW o \in Request, pc'[o] \in AtKey
      PROVE  /\ cache'[RefOf[about'[o]]] = about'[o]
             /\ about'[o] \in Loaded' => adapters'[about'[o]].key = about'[o]
  <2>1. CASE o = q
    BY <1>2, <1>3, <1>4, <1>6, <2>1 DEF Loaded
  <2>2. CASE o # q
    <3>1. pc[o] \in AtKey /\ about'[o] = about[o] /\ about[o] \in Provider
      BY <1>6, <1>7, <2>2 DEF AboutProvider, AboutOne, AtKey
    <3>2. about[o] # p
      BY <1>1, <3>1, ProvidersAssumption
         DEF RegisteredOnce, NotAnswered, Registering, AtKey
    <3> QED
      BY <1>2, <1>4, <3>1, <3>2 DEF KeyCached, Loaded, AtKey
  <2> QED
    BY <2>1, <2>2
<1> QED
  BY <1>5, <1>7 DEF KeyCached, AtKey

\* RegisterStore: the credential, the cache and an adapter that a reload has built in
\* between all have the key of the registration.
LEMMA RegisterStoreKeeps ==
    ASSUME OwnCredentials, ProvidersTypeOK, AboutProvider, RegisteredOnce,
           KeysKept, KeyCached, NEW q \in Request, RegisterStore(q)
    PROVE  KeysKept' /\ KeyCached'
<1> DEFINE p == about[q]
<1>1. /\ pc[q] = "store" /\ p \in Provider
      /\ UNCHANGED <<present, adapters, secret, server>>
      /\ \A o \in Request : pc'[o] = IF o = q THEN "load" ELSE pc[o]
      /\ about' = about
  BY DEF RegisterStore, Continue, Goto, AboutProvider, AboutOne, serverVars, ProvidersTypeOK
<1>2. cache[RefOf[p]] = p /\ (p \in Loaded => adapters[p].key = p)
  BY <1>1 DEF KeyCached
<1>3. cache' = cache
  <2>1. \A r \in Ref : cache[r] \in Provider \cup {NoProvider}
    BY DEF ProvidersTypeOK
  <2>2. cache' = cache \/ cache' = [cache EXCEPT ![RefOf[p]] = p]
    BY DEF RegisterStore
  <2> QED
    BY <1>2, <2>2 DEF ProvidersTypeOK
<1>4. KeyCached'
  BY <1>1, <1>3, CachedUntouched DEF AtKey
<1>5. CASE vault' = vault /\ answers' = answers
  <2>1. /\ answers'.stored \cap present' \subseteq answers.stored \cap present
        /\ answers'.unread = answers.unread
    BY <1>1, <1>5
  <2> QED
    BY <1>1, <1>3, <1>4, <1>5, <2>1, KeysUntouched
<1>6. CASE vault' = Stored(p) /\ answers' = [answers EXCEPT !.stored = @ \cup {p}]
  <2>1. answers'.stored = answers.stored \cup {p} /\ answers'.unread = answers.unread
    BY <1>6 DEF ProvidersTypeOK
  <2>2. RefOf[p] \in Ref /\ vault[RefOf[p]].owner \in {p, NoProvider}
    BY <1>1 DEF KeysKept, Ref
  <2>3. /\ vault'[RefOf[p]].owner \in {p, NoProvider}
        /\ vault'[RefOf[p]].key = p
    BY <1>6, <2>2 DEF Stored, Encrypted, ProvidersTypeOK
  <2>4. \A o \in Provider : o # p => vault'[RefOf[o]] = vault[RefOf[o]]
    BY <1>1, <1>6 DEF Stored, ProvidersTypeOK, OwnCredentials, Ref
  <2>5. \A o \in Provider : vault'[RefOf[o]].owner \in {o, NoProvider}
    BY <2>3, <2>4 DEF KeysKept
  <2>6. ASSUME NEW o \in answers'.stored \cap present'
        PROVE  /\ vault'[RefOf[o]].key = o
               /\ Decryptable(vault[RefOf[o]])' /\ o \notin answers'.unread =>
                     /\ server' # "credentials" => cache'[RefOf[o]] = o
                     /\ o \in Loaded' => adapters'[o].key = o
    <3>1. CASE o = p
      BY <1>1, <1>2, <1>3, <2>3, <3>1 DEF Loaded
    <3>2. CASE o # p
      <4>1. o \in answers.stored \cap present /\ o \in Provider
        BY <1>1, <2>1, <3>2 DEF ProvidersTypeOK
      <4> QED
        BY <1>1, <1>3, <2>1, <2>4, <3>2, <4>1 DEF KeysKept, Decryptable, Loaded
    <3> QED
      BY <3>1, <3>2
  <2> QED
    BY <1>4, <2>5, <2>6 DEF KeysKept, Decryptable
<1> QED
  BY <1>4, <1>5, <1>6 DEF RegisterStore

\* loadAdapters gives each adapter the key that the cache has for it.
LEMMA LoadBuildKeeps ==
    ASSUME ProvidersTypeOK, Starting, KeysKept, KeyCached, NEW q \in Request, LoadBuild(q)
    PROVE  KeysKept' /\ KeyCached'
<1>1. server = "up"
  BY DEF LoadBuild, Starting
<1>2. /\ UNCHANGED <<present, vault, cache, secret, server>>
      /\ adapters' = BuiltAdapters(read[q])
      /\ answers'.stored = answers.stored /\ answers'.unread = answers.unread
  BY DEF LoadBuild, tableVars, serverVars, ProvidersTypeOK
<1>3. \A o \in Provider : \/ adapters'[o] = adapters[o]
                          \/ adapters'[o].key = cache[RefOf[o]]
  BY <1>2 DEF BuiltAdapters, Resolve
<1>4. KeysKept'
  BY <1>1, <1>2, <1>3 DEF KeysKept, Decryptable, Loaded, ProvidersTypeOK
<1>5. \A o \in Request : pc'[o] \in AtKey => pc[o] \in AtKey /\ about'[o] = about[o]
  BY DEF LoadBuild, Answer, Goto, AtKey, ProvidersTypeOK
<1> QED
  BY <1>2, <1>3, <1>4, <1>5 DEF KeyCached, Loaded, AtKey

\* DeleteRow takes along the credential of the deleted provider only.
LEMMA DeleteRowKeeps ==
    ASSUME ProvidersTypeOK, AboutProvider, OwnCredentials, KeysKept, KeyCached,
           NEW q \in Request, DeleteRow(q)
    PROVE  KeysKept' /\ KeyCached'
<1>1. /\ UNCHANGED <<cache, adapters, secret, server, answers>>
      /\ \A o \in Request : pc'[o] \in AtKey => pc[o] \in AtKey /\ about'[o] = about[o]
  BY DEF DeleteRow, ProcessUnchanged, serverVars, Answer, Continue, Goto, AtKey,
         ProvidersTypeOK
<1>2. KeyCached'
  BY <1>1, CachedUntouched
<1>3. CASE about[q] \notin present
  <2>1. UNCHANGED <<present, vault>>
    BY <1>3 DEF DeleteRow, tableVars
  <2> QED
    BY <1>1, <1>2, <2>1, KeysUntouched
<1>4. CASE about[q] \in present
  <2>1. /\ present' = present \ {about[q]}
        /\ vault' = [r \in Ref |-> IF vault[r].owner = about[q] THEN NoRow ELSE vault[r]]
    BY <1>4 DEF DeleteRow
  <2>2. \A o \in Provider : vault'[RefOf[o]].owner \in {o, NoProvider}
    BY <2>1 DEF KeysKept, Ref, NoRow
  <2>3. \A o \in answers.stored \cap present' : vault'[RefOf[o]] = vault[RefOf[o]]
    BY <1>4, <2>1, ProvidersAssumption DEF KeysKept, Ref, ProvidersTypeOK
  <2>4. KeysKept'
    BY <1>1, <2>1, <2>2, <2>3 DEF KeysKept, Decryptable, Loaded
  <2> QED
    BY <1>2, <2>4
<1> QED
  BY <1>3, <1>4

LEMMA RequestKeys ==
    ASSUME OwnCredentials, ProvidersTypeOK, AboutProvider, Starting, Begun, RegisteredOnce,
           KeysKept, KeyCached, NEW q \in Request, RequestStep(q)
    PROVE  KeysKept' /\ KeyCached'
<1>1. CASE RegisterKey(q)
  BY <1>1, RegisterKeyKeeps
<1>2. CASE RegisterStore(q)
  BY <1>2, RegisterStoreKeeps
<1>3. CASE LoadBuild(q)
  BY <1>3, LoadBuildKeeps
<1>4. CASE DeleteRow(q)
  BY <1>4, DeleteRowKeeps
<1>5. CASE RegisterInsert(q)
  <2>1. /\ answers'.stored \cap present' \subseteq answers.stored \cap present
        /\ answers'.unread = answers.unread
    BY <1>5 DEF RegisterInsert, Inserted, RegisteredOnce, Unseen
  <2>2. \A o \in Request : pc'[o] \in AtKey => pc[o] \in AtKey /\ about'[o] = about[o]
    BY <1>5 DEF RegisterInsert, Continue, Goto, AtKey, ProvidersTypeOK
  <2>3. UNCHANGED <<vault, cache, adapters, secret, server>>
    BY <1>5 DEF RegisterInsert, ProcessUnchanged, serverVars
  <2> QED
    BY <2>1, <2>2, <2>3, KeysUntouched, CachedUntouched
<1>6. CASE \/ RegisterCheck(q) \/ Reload(q) \/ DeleteMappings(q)
           \/ LoadRead(q, "load", "build") \/ LoadRead(q, "reload", "rebuild")
           \/ HealthPing(q) \/ HealthWrite(q) \/ SelectOverride(q) \/ SelectMapped(q)
           \/ LoadFails(q)
  <2> USE DEF RegisterCheck, Reload, DeleteMappings, LoadRead, HealthPing, HealthWrite,
          SelectOverride, SelectMapped, LoadFails
  <2>1. \A o \in Request : pc'[o] \in AtKey => pc[o] \in AtKey /\ about'[o] = about[o]
    BY <1>6 DEF Continue, Answer, Begin, Goto, AtKey, ProvidersTypeOK
  <2>2. UNCHANGED <<present, vault, cache, adapters, secret, server>>
    BY <1>6 DEF ProcessUnchanged, serverVars, tableVars
  <2>3. answers'.stored = answers.stored /\ answers'.unread = answers.unread
    BY <1>6 DEF ProvidersTypeOK
  <2> QED
    BY <2>1, <2>2, <2>3, KeysUntouched, CachedUntouched
<1> QED
  BY <1>1, <1>2, <1>3, <1>4, <1>5, <1>6 DEF RequestStep

\* A server that starts decrypts what it can, and builds its adapters from that.
LEMMA ServerKeys ==
    ASSUME ProvidersTypeOK, AboutProvider, Starting, Begun, RegisteredOnce,
           KeysKept, KeyCached,
           CreateRow \/ MapProvider \/ ReportHealth \/ Crash \/ Start
    PROVE  KeysKept' /\ KeyCached'
<1>1. CASE CreateRow \/ MapProvider \/ ReportHealth
  <2> USE DEF CreateRow, Inserted, MapProvider, ReportHealth, ProcessUnchanged, serverVars, requestVars
  <2>1. /\ answers'.stored \cap present' \subseteq answers.stored \cap present
        /\ answers'.unread = answers.unread
    BY <1>1 DEF Begun, ProvidersTypeOK
  <2>2. UNCHANGED <<vault, cache, adapters, secret, server, pc, about>>
    BY <1>1
  <2> QED
    BY <2>1, <2>2, KeysUntouched, CachedUntouched
<1>2. CASE Crash
  <2>1. Loaded' = {} /\ server' = "credentials" /\ \A o \in Request : pc'[o] = "none"
    BY <1>2 DEF Crash, Loaded, NotLoaded
  <2>2. UNCHANGED <<present, vault, answers>>
    BY <1>2 DEF Crash, tableVars
  <2> QED
    BY <2>1, <2>2 DEF KeysKept, KeyCached
<1>3. CASE StartCredentials("credentials", "adapters")
  <2>1. /\ UNCHANGED <<present, vault, adapters, secret, pc, about>>
        /\ answers'.stored = answers.stored
        /\ Loaded = {} /\ \A o \in Request : pc[o] = "none"
    BY <1>3 DEF StartCredentials, Starting, tableVars, requestVars, ProvidersTypeOK
  <2>2. \/ answers'.unread = answers.stored
        \/ \A p \in Provider : Decryptable(vault[RefOf[p]]) =>
                                  cache'[RefOf[p]] = vault[RefOf[p]].key
    BY <1>3 DEF StartCredentials, Ref, ProvidersTypeOK
  <2> QED
    BY <2>1, <2>2 DEF KeysKept, KeyCached, Decryptable, Loaded, ProvidersTypeOK
<1>4. CASE StartAdapters("adapters", "up")
  <2>1. /\ UNCHANGED <<present, vault, cache, secret, pc, about>>
        /\ answers'.stored = answers.stored /\ answers'.unread = answers.unread
        /\ Loaded = {} /\ server # "credentials" /\ \A o \in Request : pc[o] = "none"
    BY <1>4 DEF StartAdapters, Starting, tableVars, requestVars, ProvidersTypeOK
  <2>2. \A p \in Provider : adapters'[p] = adapters[p] \/ adapters'[p].key = cache[RefOf[p]]
    BY <1>4 DEF StartAdapters, BuiltAdapters, Resolve
  <2> QED
    BY <2>1, <2>2 DEF KeysKept, KeyCached, Decryptable, Loaded, ProvidersTypeOK
<1> QED
  BY <1>1, <1>2, <1>3, <1>4 DEF Start

-----------------------------------------------------------------------------
(***************************************************************************)
(* The inductive invariant, and what it says of every server.              *)
(***************************************************************************)

LEMMA ProvidersInitial == ProvidersInit => ProvidersInv
<1> SUFFICES ASSUME ProvidersInit PROVE ProvidersInv
  OBVIOUS
<1>1. ProvidersTypeOK /\ AboutProvider
  BY ProvidersTyped
<1>2. Loaded = {}
  BY DEF ProvidersInit, Loaded, NotLoaded
<1>3. Starting /\ Begun /\ RegisteredOnce /\ OwnRowRead /\ RegisteredRoutable
  BY <1>2 DEF ProvidersInit, Starting, Begun, RegisteredOnce, NotAnswered, Apart, Unseen,
              OwnRowRead, RegisteredRoutable, Registering
<1>4. KeysKept /\ KeyCached
  BY <1>2 DEF ProvidersInit, KeysKept, KeyCached, Ref, NoRow
<1> QED
  BY <1>1, <1>3, <1>4 DEF ProvidersInv

LEMMA ProvidersStep == ProvidersInv /\ [ProvidersNext]_providerVars => ProvidersInv'
<1> SUFFICES ASSUME ProvidersInv, [ProvidersNext]_providerVars PROVE ProvidersInv'
  OBVIOUS
<1> USE DEF ProvidersInv
<1>1. ASSUME NEW q \in Request, RequestStep(q) PROVE ProvidersInv'
  <2>1. ProvidersTypeOK' /\ AboutProvider'
    BY <1>1, RequestTyped
  <2>2. Begun' /\ RegisteredOnce' /\ OwnRowRead'
    BY <1>1, RequestBegun, RequestOnce, RequestRows
  <2>3. Starting' /\ RegisteredRoutable'
    BY <1>1, RequestRoutes
  <2>4. OwnCredentials => KeysKept' /\ KeyCached'
    BY <1>1, RequestKeys
  <2> QED
    BY <2>1, <2>2, <2>3, <2>4 DEF OwnCredentials
<1>2. CASE CreateRow \/ MapProvider \/ ReportHealth \/ Crash \/ Start
  <2>1. ProvidersTypeOK' /\ AboutProvider'
    BY <1>2, ServerTyped
  <2>2. Begun' /\ RegisteredOnce' /\ OwnRowRead'
    BY <1>2, ServerRegistrations
  <2>3. Starting' /\ RegisteredRoutable'
    BY <1>2, ServerRoutes
  <2>4. OwnCredentials => KeysKept' /\ KeyCached'
    BY <1>2, ServerKeys
  <2> QED
    BY <2>1, <2>2, <2>3, <2>4 DEF OwnCredentials
<1>3. CASE UNCHANGED providerVars
  BY <1>3 DEF providerVars, tableVars, serverVars, requestVars, ProvidersTypeOK,
     AboutProvider, Starting, Begun, RegisteredOnce, NotAnswered, Apart, Unseen, OwnRowRead,
     RegisteredRoutable, OwnCredentials, KeysKept, KeyCached,
     Decryptable, Loaded
<1> QED
  BY <1>1, <1>2, <1>3 DEF ProvidersNext

\* The requests and the start of the server keep the tables, the router and the
\* credentials in step (provider-registry/src/index.ts, routes/gateway.ts,
\* routes/providers.ts).
THEOREM ProvidersInvariance == ProvidersSpec => []ProvidersInv
<1>1. QED
  BY ProvidersInitial, ProvidersStep, PTL DEF ProvidersSpec

\* A registered provider of which an adapter can be made is routed to for as long as its
\* row exists, unless the load of its registration or of the start failed and none that
\* read its row has succeeded since.
THEOREM RegisteredAreRouted == ProvidersSpec => []RegisteredRoutable
<1>1. ProvidersInv => RegisteredRoutable
  BY DEF ProvidersInv
<1> QED
  BY <1>1, ProvidersInvariance, PTL

\* selectProvider: while one of the role's providers can be used, the answer is healthy
\* and in the table, whatever the router holds besides.
THEOREM SelectionsPrefer == ProvidersSpec => []SelectionPrefers
<1>1. ProvidersInv => SelectionPrefers
  <2> DEFINE usable == (answers.registered \cap buildable \cap Capable) \ answers.missed
  <2> SUFFICES ASSUME ProvidersInv, NEW q \in Request, pc[q] = "mappings",
                      usable \cap mapped \cap healthy # {}
               PROVE  Selectable \subseteq healthy \cap present
    BY DEF SelectionPrefers
  <2>1. server = "up" /\ mapped \subseteq present
    BY DEF ProvidersInv, Starting, ProvidersTypeOK
  <2>2. usable \cap mapped \subseteq Loaded \cap Capable \cap present
    BY <2>1 DEF ProvidersInv, RegisteredRoutable
  <2>3. Eligible # {}
    BY <2>2 DEF Eligible
  <2> QED
    BY <2>3 DEF Selectable, First, Eligible
<1> QED
  BY <1>1, ProvidersInvariance, PTL

\* If no two names share a credential, a stored key is the one its provider is called
\* with, across restarts and changes of the encryption secret, unless the process could
\* not read the credentials when it started.
THEOREM StoredKeysUsed == OwnCredentials => (ProvidersSpec => []StoredKeyUsed)
<1> SUFFICES ASSUME OwnCredentials PROVE ProvidersSpec => []StoredKeyUsed
  OBVIOUS
<1>1. ProvidersInv => StoredKeyUsed
  BY DEF ProvidersInv, KeysKept, StoredKeyUsed
<1> QED
  BY <1>1, ProvidersInvariance, PTL


-----------------------------------------------------------------------------
(***************************************************************************)
(* The dashboard: LiveInv, by the variables that an action is about.       *)
(***************************************************************************)
RowsTyped == runState \in [Run -> RunStates] /\ taskState \in [Run -> TaskStates]

StoreTyped ==
    /\ runs \in [Run -> RunStates]
    /\ selectedRunId \in Run \cup {NoRun}
    /\ selectedRun \in [run : Run \cup {NoRun}, state : RunStates]
    /\ tasks \in [run : Run \cup {NoRun}, state : TaskStates]

FetchesTyped ==
    /\ request \in [Key -> [pending : BOOLEAN, seen : [Run -> RunStates \cup TaskStates]]]
    /\ recent \subseteq Key
    /\ RequestsTyped

CommandTyped ==
    /\ command \in [step : {"none", "sent", "done", "refused"},
                    name : Commands \cup {"none", "start"}, run : Run \cup {NoRun}]
    /\ CommandsAddressed

SpentTyped ==
    spent \in [selections : 0..MaxSelections, commands : 0..MaxCommands,
               moves : 0..MaxMoves, failures : 0..MaxFailures]

Connected == SocketTypeOK /\ ConnectionsBounded /\ IsFiniteSet(Live)

DashboardInv ==
    /\ RowsTyped /\ StoreTyped /\ FetchesTyped /\ CommandTyped /\ SpentTyped
    /\ Connected /\ EventsTyped

LEMMA DashboardGivesLive == DashboardInv => LiveInv
BY DEF DashboardInv, RowsTyped, StoreTyped, FetchesTyped, CommandTyped, SpentTyped, Connected,
       LiveInv, LiveTypeOK

\* What a step leaves alone stays as it is.
LEMMA Unmoved ==
    ASSUME DashboardInv
    PROVE  /\ UNCHANGED dbVars => RowsTyped'
           /\ UNCHANGED <<runs, selectedRunId, selectedRun, tasks>> => StoreTyped'
           /\ UNCHANGED <<request, recent>> => FetchesTyped'
           /\ UNCHANGED command => CommandTyped'
           /\ UNCHANGED spent => SpentTyped'
           /\ UNCHANGED <<socket, wsRef, timer, orphans, wsConnected, mounts, reachable, outages>>
                => Connected'
           /\ UNCHANGED channel => EventsTyped'
<1>1. /\ UNCHANGED dbVars => RowsTyped'
      /\ UNCHANGED <<runs, selectedRunId, selectedRun, tasks>> => StoreTyped'
      /\ UNCHANGED <<request, recent>> => FetchesTyped'
  BY DEF DashboardInv, RowsTyped, StoreTyped, FetchesTyped, RequestsTyped, dbVars
<1>2. /\ UNCHANGED command => CommandTyped'
      /\ UNCHANGED spent => SpentTyped'
      /\ UNCHANGED channel => EventsTyped'
  BY DEF DashboardInv, CommandTyped, CommandsAddressed, SpentTyped, EventsTyped
<1>3. UNCHANGED <<socket, wsRef, timer, orphans, wsConnected, mounts, reachable, outages>>
        => Connected'
  <2> SUFFICES ASSUME UNCHANGED <<socket, wsRef, timer, orphans, wsConnected, mounts,
                                  reachable, outages>>
               PROVE  Connected'
    OBVIOUS
  <2>1. Live' = Live /\ Timers' = Timers
    BY DEF Live, Timers
  <2> QED
    BY <2>1 DEF DashboardInv, Connected, SocketTypeOK, ConnectionsBounded
<1> QED
  BY <1>1, <1>2, <1>3

-----------------------------------------------------------------------------
\* Connections and timers.  The sum of Live and Timers grows only with mounts.
LEMMA TimersAreNumbers == ASSUME SocketTypeOK PROVE Timers \in Nat
BY SocketAssumption DEF SocketTypeOK, Timers

LEMMA ConnectAddsOne ==
    ASSUME Connected, Connect
    PROVE  /\ socket' \in [Socket -> {"none", "connecting", "open", "closing"}]
           /\ wsRef' \in Live' /\ IsFiniteSet(Live')
           /\ Cardinality(Live') = Cardinality(Live) + 1
<1>1. PICK s \in Socket \ Live :
        /\ socket' = [o \in Socket |->
                         IF o = s THEN "connecting"
                         ELSE IF o = wsRef THEN "closing" ELSE socket[o]]
        /\ wsRef' = s
  BY DEF Connect
<1>2. Live' = Live \cup {s}
  BY <1>1, SocketAssumption DEF Connected, SocketTypeOK, Live
<1>3. IsFiniteSet(Live') /\ Cardinality(Live') = Cardinality(Live) + 1
  BY <1>1, <1>2, FS_AddElement DEF Connected
<1> QED
  BY <1>1, <1>2, <1>3 DEF Connected, SocketTypeOK

LEMMA OpeningKeeps ==
    ASSUME Connected, NEW s \in Socket, SocketOpens(s)
    PROVE  Connected'
<1>1. Live' = Live /\ Timers' = Timers
  BY DEF SocketOpens, Connected, SocketTypeOK, Live, Timers
<1> QED
  BY <1>1 DEF SocketOpens, Connected, SocketTypeOK, ConnectionsBounded

LEMMA ClosingKeeps ==
    ASSUME Connected, NEW s \in Socket, SocketCloses(s)
    PROVE  Connected'
<1>1. s \in Live /\ Live' = Live \ {s}
  BY DEF SocketCloses, Connected, SocketTypeOK, Live
<1>2. /\ IsFiniteSet(Live') /\ Cardinality(Live') = Cardinality(Live) - 1
      /\ Cardinality(Live) \in Nat /\ Cardinality(Live') \in Nat
  BY <1>1, FS_RemoveElement, FS_CardinalityType DEF Connected
<1>3. timer' = TRUE /\ orphans' = IF timer THEN orphans + 1 ELSE orphans
  BY DEF SocketCloses, Closes, SetTimer
<1>4. Timers' = Timers + 1 /\ orphans' <= Timers
  BY <1>3 DEF Timers, Connected, SocketTypeOK
<1>5. ConnectionsBounded'
  BY <1>2, <1>4, TimersAreNumbers DEF SocketCloses, Connected, SocketTypeOK, ConnectionsBounded
<1>6. orphans' \in 0..MaxMounts
  BY <1>2, <1>3, <1>4, TimersAreNumbers, SocketAssumption
  DEF Connected, SocketTypeOK, ConnectionsBounded
<1> QED
  BY <1>2, <1>3, <1>5, <1>6 DEF SocketCloses, Connected, SocketTypeOK

LEMMA FiringKeeps == ASSUME Connected, TimerFires PROVE Connected'
<1>1. /\ socket' \in [Socket -> {"none", "connecting", "open", "closing"}]
      /\ wsRef' \in Live' /\ IsFiniteSet(Live')
      /\ Cardinality(Live') = Cardinality(Live) + 1
  BY ConnectAddsOne DEF TimerFires
<1>2. Timers' = Timers - 1 /\ timer' \in BOOLEAN /\ orphans' \in 0..MaxMounts
  <2>1. orphans \in Nat /\ orphans <= MaxMounts /\ MaxMounts \in Nat
    BY SocketAssumption DEF Connected, SocketTypeOK
  <2>2. CASE timer /\ timer' = FALSE /\ orphans' = orphans
    <3>1. Timers = orphans + 1
      BY <2>2 DEF Timers
    <3>2. Timers' = orphans
      BY <2>1, <2>2 DEF Timers
    <3>3. timer' \in BOOLEAN
      BY <2>2
    <3> QED
      BY <2>1, <2>2, <3>1, <3>2, <3>3
  <2>3. CASE orphans > 0 /\ orphans' = orphans - 1 /\ timer' = timer
    BY <2>1, <2>3 DEF Timers, Connected, SocketTypeOK
  <2> QED
    BY <2>2, <2>3 DEF TimerFires
<1>3. ConnectionsBounded'
  BY <1>1, <1>2, TimersAreNumbers, FS_CardinalityType
  DEF TimerFires, Connected, SocketTypeOK, ConnectionsBounded
<1> QED
  BY <1>1, <1>2, <1>3 DEF TimerFires, Connected, SocketTypeOK

LEMMA RemountKeeps == ASSUME Connected, Remount PROVE Connected'
<1>1. /\ socket' \in [Socket -> {"none", "connecting", "open", "closing"}]
      /\ wsRef' \in Live' /\ IsFiniteSet(Live')
      /\ Cardinality(Live') = Cardinality(Live) + 1
  BY ConnectAddsOne DEF Remount
<1>2. Timers' <= Timers /\ Timers' \in Nat /\ timer' \in BOOLEAN
  <2>1. orphans' = orphans /\ timer' = FALSE /\ orphans \in Nat
    BY DEF Remount, Connected, SocketTypeOK
  <2>2. Timers' = orphans /\ orphans <= Timers
    BY <2>1 DEF Timers
  <2> QED
    BY <2>1, <2>2
<1>3. mounts' = mounts + 1 /\ mounts' \in 1..MaxMounts
  BY SocketAssumption DEF Remount, Connected, SocketTypeOK
<1>4. ConnectionsBounded'
  BY <1>1, <1>2, <1>3, TimersAreNumbers, FS_CardinalityType
  DEF Connected, SocketTypeOK, ConnectionsBounded
<1> QED
  BY <1>1, <1>2, <1>3, <1>4 DEF Remount, Connected, SocketTypeOK

LEMMA ReachingKeeps == ASSUME Connected, Outage \/ Restored PROVE Connected'
<1>1. Live' = Live /\ Timers' = Timers
  BY DEF Outage, Restored, Live, Timers
<1>2. outages' \in 0..MaxOutages
  BY SocketAssumption DEF Outage, Restored, Connected, SocketTypeOK
<1>3. reachable' \in BOOLEAN
  BY DEF Outage, Restored
<1>4. UNCHANGED <<socket, wsRef, timer, orphans, wsConnected, mounts>>
  BY DEF Outage, Restored
<1> QED
  BY <1>1, <1>2, <1>3, <1>4 DEF Connected, SocketTypeOK, ConnectionsBounded

LEMMA SocketKeeps ==
    ASSUME Connected, EventsTyped, SocketNext
    PROVE  Connected' /\ EventsTyped'
<1>1. Connected'
  BY OpeningKeeps, ClosingKeeps, FiringKeeps, RemountKeeps, ReachingKeeps
  DEF SocketNext, SocketStep
<1>2. << >> \in Seq(EventRows)
  OBVIOUS
<1>3. ASSUME Connect PROVE EventsTyped'
  BY <1>2, <1>3 DEF Connect, EventsTyped
<1>4. ASSUME NEW s \in Socket, SocketOpens(s) \/ SocketCloses(s) PROVE EventsTyped'
  BY <1>2, <1>4 DEF SocketOpens, SocketCloses, EventsTyped
<1>5. ASSUME Outage \/ Restored PROVE EventsTyped'
  BY <1>5 DEF Outage, Restored, EventsTyped
<1> QED
  BY <1>1, <1>3, <1>4, <1>5 DEF SocketNext, SocketStep, TimerFires, Remount

-----------------------------------------------------------------------------
\* Requests: what is read and what is fetched.
LEMMA KeyForms ==
    /\ ListKey \in Key
    /\ \A r \in Run : RunKey(r) \in Key /\ TasksKey(r) \in Key
BY DEF Key

LEMMA SeenTyped ==
    ASSUME RowsTyped, NEW k \in Key
    PROVE  Seen(k) \in [Run -> IF k.kind = "tasks" THEN TaskStates ELSE RunStates]
BY DEF Seen, RowsTyped, Key, ListKey, RunKey, TasksKey, RunStates, TaskStates

LEMMA SentTyped ==
    ASSUME RowsTyped, NEW k \in Key
    PROVE  /\ Sent(k) \in [pending : BOOLEAN, seen : [Run -> RunStates \cup TaskStates]]
           /\ Sent(k).seen \in [Run -> IF k.kind = "tasks" THEN TaskStates ELSE RunStates]
BY SeenTyped DEF Sent

LEMMA NotPendingTyped ==
    /\ NotPending \in [pending : BOOLEAN, seen : [Run -> RunStates \cup TaskStates]]
    /\ \A k \in Key :
          NotPending.seen \in [Run -> IF k.kind = "tasks" THEN TaskStates ELSE RunStates]
BY DEF NotPending, Unread, RunStates, TaskStates

LEMMA RequestUpdated ==
    ASSUME RowsTyped, FetchesTyped, NEW k \in Key,
           request' = [request EXCEPT ![k] = Sent(k)]
              \/ request' = [request EXCEPT ![k] = NotPending],
           recent' \subseteq Key
    PROVE  FetchesTyped'
BY SentTyped, NotPendingTyped DEF FetchesTyped, RequestsTyped

LEMMA FetchTyped ==
    ASSUME RowsTyped, FetchesTyped, NEW keys \in SUBSET Key, NEW forced, Fetch(keys, forced)
    PROVE  FetchesTyped'
<1>1. Fetched(keys, forced) \subseteq Key
  BY DEF Fetched
<1> QED
  BY <1>1, SentTyped DEF Fetch, FetchesTyped, RequestsTyped

LEMMA RequestsKeep ==
    ASSUME DashboardInv, NEW k \in Key,
           IntervalPasses(k) \/ ServerReads(k) \/ Answered(k) \/ RequestFails(k)
    PROVE  DashboardInv'
<1>0. RowsTyped /\ StoreTyped /\ FetchesTyped /\ SpentTyped
  BY DEF DashboardInv
<1>1. CASE IntervalPasses(k)
  <2>1. FetchesTyped'
    BY <1>0, <1>1 DEF IntervalPasses, FetchesTyped, RequestsTyped
  <2> QED
    BY <1>1, <2>1, Unmoved DEF IntervalPasses, socketVars, DashboardInv
<1>2. CASE ServerReads(k)
  <2>1. FetchesTyped'
    BY <1>0, <1>2, RequestUpdated DEF ServerReads, FetchesTyped
  <2> QED
    BY <1>2, <2>1, Unmoved DEF ServerReads, socketVars, DashboardInv
<1>3. CASE Answered(k)
  <2>1. FetchesTyped'
    BY <1>0, <1>3, RequestUpdated DEF Answered, FetchesTyped
  <2>2. StoreTyped'
    <3>1. /\ k.kind = "runs" => request[k].seen \in [Run -> RunStates]
          /\ k.kind = "run" => k.run \in Run /\ request[k].seen[k.run] \in RunStates
          /\ k.kind = "tasks" => k.run \in Run /\ request[k].seen[k.run] \in TaskStates
      BY <1>0 DEF FetchesTyped, RequestsTyped, Key, ListKey, RunKey, TasksKey
    <3> QED
      BY <1>0, <1>3, <3>1 DEF Answered, Listed, StoreTyped
  <2> QED
    BY <1>3, <2>1, <2>2, Unmoved DEF Answered, socketVars, DashboardInv
<1>4. CASE RequestFails(k)
  <2>1. FetchesTyped'
    BY <1>0, <1>4, RequestUpdated DEF RequestFails, FetchesTyped
  <2>2. SpentTyped'
    BY <1>0, <1>4, ViewAssumption DEF RequestFails, SpentTyped
  <2> QED
    BY <1>4, <2>1, <2>2, Unmoved DEF RequestFails, socketVars, DashboardInv
<1> QED
  BY <1>1, <1>2, <1>3, <1>4

LEMMA PageKeeps ==
    ASSUME DashboardInv, PollRuns \/ PollTasks \/ \E r \in Run : Select(r)
    PROVE  DashboardInv'
<1>0. RowsTyped /\ StoreTyped /\ FetchesTyped /\ SpentTyped
  BY DEF DashboardInv
<1>1. CASE PollRuns
  <2>1. FetchesTyped'
    BY <1>0, <1>1, FetchTyped, KeyForms DEF PollRuns
  <2> QED
    BY <1>1, <2>1, Unmoved DEF PollRuns, socketVars, DashboardInv
<1>2. CASE PollTasks
  <2>1. FetchesTyped'
    BY <1>0, <1>2, FetchTyped, KeyForms DEF PollTasks, StoreTyped
  <2> QED
    BY <1>2, <2>1, Unmoved DEF PollTasks, socketVars, DashboardInv
<1>3. ASSUME NEW r \in Run, Select(r) PROVE DashboardInv'
  <2>1. FetchesTyped'
    BY <1>0, <1>3, FetchTyped, KeyForms DEF Select
  <2>2. StoreTyped' /\ SpentTyped'
    BY <1>0, <1>3, ViewAssumption
    DEF Select, StoreTyped, SpentTyped, Nothing, RunStates, TaskStates
  <2> QED
    BY <1>3, <2>1, <2>2, Unmoved DEF Select, socketVars, DashboardInv
<1> QED
  BY <1>1, <1>2, <1>3

-----------------------------------------------------------------------------
\* Events: they arrive in the order in which they were broadcast.
LEMMA AddEventKeeps ==
    ASSUME DashboardInv, NEW s \in Socket, AddEvent(s)
    PROVE  DashboardInv'
<1>0. RowsTyped /\ StoreTyped /\ FetchesTyped /\ EventsTyped
  BY DEF DashboardInv
<1> DEFINE event == Head(channel[s])
<1>1. /\ channel[s] \in Seq(EventRows) /\ channel[s] # << >>
      /\ channel' = [channel EXCEPT ![s] = Tail(channel[s])]
      /\ RunChanged(event) \/ TaskChanged(event) \/ CallCompleted(event)
  BY <1>0 DEF AddEvent, Receives, EventsTyped
<1>2. event \in EventRows /\ Tail(channel[s]) \in Seq(EventRows)
  BY <1>1
<1>3. EventsTyped'
  BY <1>0, <1>1, <1>2 DEF EventsTyped
<1>4. UNCHANGED <<selectedRunId>> /\ UNCHANGED <<dbVars, command, spent>>
  BY DEF AddEvent
<1> HIDE DEF event
<1>5. StoreTyped' /\ FetchesTyped'
  <2>1. CASE RunChanged(event)
    <3>1. event.state \in RunStates
      BY <1>2, <2>1 DEF RunChanged, EventRows
    <3>2. StoreTyped'
      BY <1>0, <1>4, <2>1, <3>1 DEF RunChanged, RunUpdated, StoreTyped, RunStates
    <3> QED
      BY <1>0, <2>1, <3>2, FetchTyped, KeyForms DEF RunChanged
  <2>2. CASE TaskChanged(event)
    <3>1. event.state \in TaskStates
      BY <1>2, <2>2 DEF TaskChanged, EventRows
    <3>2. StoreTyped'
      BY <1>0, <1>4, <2>2, <3>1 DEF TaskChanged, StoreTyped
    <3>3. {TasksKey(r) : r \in {selectedRunId} \ {NoRun}} \subseteq Key
      BY <1>0, KeyForms DEF StoreTyped
    <3>4. FetchesTyped'
      BY <1>0, <2>2, <3>3, FetchTyped DEF TaskChanged, FetchesTyped, RequestsTyped
    <3> QED
      BY <3>2, <3>4
  <2>3. CASE CallCompleted(event)
    <3>1. event.state \in TaskStates
      BY <1>2, <2>3 DEF CallCompleted, EventRows
    <3> QED
      BY <1>0, <1>4, <2>3, <3>1 DEF CallCompleted, StoreTyped, FetchesTyped, RequestsTyped
  <2> QED
    BY <1>1, <2>1, <2>2, <2>3
<1> QED
  BY <1>3, <1>4, <1>5, Unmoved DEF AddEvent, DashboardInv

LEMMA BroadcastTyped ==
    ASSUME EventsTyped, NEW event \in EventRows, Broadcast(event)
    PROVE  EventsTyped'
BY DEF Broadcast, EventsTyped

LEMMA ServerMovesKeep == ASSUME DashboardInv, ServerMoves PROVE DashboardInv'
<1>0. RowsTyped /\ SpentTyped /\ EventsTyped
  BY DEF DashboardInv
<1>1. PICK r \in Run :
        WorkersMoveRun(r) \/ WorkersMoveTask(r) \/ WorkersCall(r) \/ OthersMove(r)
  BY DEF ServerMoves
<1>2. \A to \in RunStates : Event("RUN_STATE_CHANGED", r, to) \in EventRows
  BY DEF Event, EventRows
<1>3. \A to \in TaskStates,
         type \in {"TASK_STATE_CHANGED", "PROVIDER_CALL_STARTED", "PROVIDER_CALL_COMPLETED"} :
            Event(type, r, to) \in EventRows
  BY DEF Event, EventRows
<1>4. RowsTyped' /\ EventsTyped'
  <2>1. CASE WorkersMoveRun(r)
    BY <1>0, <1>2, <2>1, BroadcastTyped
    DEF WorkersMoveRun, Moves, RowsTyped, TaskStates
  <2>2. CASE WorkersMoveTask(r)
    BY <1>0, <1>3, <2>2, BroadcastTyped DEF WorkersMoveTask, RowsTyped
  <2>3. CASE WorkersCall(r)
    BY <1>0, <1>3, <2>3, BroadcastTyped
    DEF WorkersCall, RowsTyped, dbVars, TaskStates
  <2>4. CASE OthersMove(r)
    BY <1>0, <2>4 DEF OthersMove, Moves, RowsTyped, EventsTyped, RunStates
  <2> QED
    BY <1>1, <2>1, <2>2, <2>3, <2>4
<1>5. SpentTyped'
  BY <1>0, ViewAssumption DEF ServerMoves, SpentTyped
<1> QED
  BY <1>4, <1>5, Unmoved DEF ServerMoves, storeVars, DashboardInv

-----------------------------------------------------------------------------
\* Commands.
LEMMA CommandsKeep ==
    ASSUME DashboardInv, Order \/ ServerObeys \/ ServerRefuses \/ AnswerLost \/ Obeyed
    PROVE  DashboardInv'
<1>0. RowsTyped /\ StoreTyped /\ FetchesTyped /\ CommandTyped /\ SpentTyped
  BY DEF DashboardInv
<1>1. CASE Order
  <2>1. CommandTyped' /\ SpentTyped'
    BY <1>0, <1>1, ViewAssumption
    DEF Order, Send, CommandTyped, CommandsAddressed, SpentTyped, StoreTyped
  <2> QED
    BY <1>1, <2>1, Unmoved DEF Order, storeVars, socketVars, DashboardInv
<1>2. CASE ServerObeys
  <2>1. PICK r \in Addressed, effect \in Effects(command.name) :
          /\ Moves(r, {effect[1]}, effect[2])
          /\ command' = [command EXCEPT !.step = "done", !.run = r]
    BY <1>2 DEF ServerObeys
  <2>2. r \in Run /\ command.name \in {"create", "start", "cancel", "resume"}
    BY <1>0, <1>2, ViewAssumption
    DEF ServerObeys, CommandTyped, CommandsAddressed, Addressed
  <2>3. effect[2] \in RunStates
    BY <2>1, <2>2 DEF Effects, RunStates
  <2>4. RowsTyped' /\ CommandTyped'
    BY <1>0, <1>2, <2>1, <2>2, <2>3
    DEF ServerObeys, Moves, RowsTyped, CommandTyped, CommandsAddressed
  <2> QED
    BY <1>2, <2>4, Unmoved DEF ServerObeys, storeVars, socketVars, DashboardInv
<1>3. CASE ServerRefuses
  <2>1. CommandTyped'
    BY <1>0, <1>3 DEF ServerRefuses, NoCommand, CommandTyped, CommandsAddressed
  <2> QED
    BY <1>3, <2>1, Unmoved DEF ServerRefuses, storeVars, socketVars, DashboardInv
<1>4. CASE AnswerLost
  <2>1. CommandTyped' /\ SpentTyped'
    BY <1>0, <1>4, ViewAssumption
    DEF AnswerLost, CommandTyped, CommandsAddressed, SpentTyped
  <2> QED
    BY <1>4, <2>1, Unmoved DEF AnswerLost, storeVars, socketVars, DashboardInv
<1>5. CASE Obeyed
  <2>1. command.run \in Run
    BY <1>0, <1>5 DEF Obeyed, CommandTyped, CommandsAddressed
  <2>2. CommandTyped'
    BY <1>0, <1>5, <2>1 DEF Obeyed, Send, NoCommand, CommandTyped, CommandsAddressed
  <2>3. StoreTyped'
    BY <1>0, <1>5, <2>1
    DEF Obeyed, RunUpdated, Guess, StoreTyped, Nothing, RunStates, TaskStates
  <2>4. FetchesTyped'
    BY <1>0, <1>5, <2>1, FetchTyped, KeyForms
    DEF Obeyed, FetchesTyped, RequestsTyped
  <2> QED
    BY <1>5, <2>2, <2>3, <2>4, Unmoved DEF Obeyed, socketVars, DashboardInv
<1> QED
  BY <1>1, <1>2, <1>3, <1>4, <1>5

LEMMA DashboardStep == DashboardInv /\ [LiveNext]_viewVars => DashboardInv'
<1> SUFFICES ASSUME DashboardInv, [LiveNext]_viewVars PROVE DashboardInv'
  OBVIOUS
<1>1. CASE SocketMoves
  <2>1. Connected' /\ EventsTyped'
    BY <1>1, SocketKeeps DEF SocketMoves, DashboardInv
  <2> QED
    BY <1>1, <2>1, Unmoved DEF SocketMoves, storeVars, DashboardInv
<1>2. CASE UNCHANGED viewVars
  BY <1>2, Unmoved DEF viewVars, storeVars, socketVars, DashboardInv
<1> QED
  BY <1>1, <1>2, RequestsKeep, PageKeeps, AddEventKeeps, CommandsKeep, ServerMovesKeep
  DEF LiveNext

LEMMA DashboardInit == LiveInit => DashboardInv
<1> SUFFICES ASSUME LiveInit PROVE DashboardInv
  OBVIOUS
<1>1. Connected /\ EventsTyped
  <2>1. PICK s \in Socket :
          /\ socket = [o \in Socket |-> IF o = s THEN "connecting" ELSE "none"]
          /\ channel = [o \in Socket |-> << >>]
          /\ wsRef = s
          /\ timer = FALSE /\ orphans = 0
          /\ wsConnected = FALSE
          /\ mounts = 1
          /\ reachable = TRUE /\ outages = 0
    BY DEF LiveInit, SocketInit
  <2>2. Live = {s} /\ Timers = 0
    BY <2>1 DEF Live, Timers
  <2>3. IsFiniteSet(Live) /\ Cardinality(Live) = 1
    BY <2>2, FS_Singleton
  <2>4. SocketTypeOK
    <3>1. timer \in BOOLEAN /\ wsConnected \in BOOLEAN /\ reachable \in BOOLEAN
      BY <2>1
    <3>2. orphans \in 0..MaxMounts /\ mounts \in 1..MaxMounts /\ outages \in 0..MaxOutages
      BY <2>1, SocketAssumption
    <3>3. /\ socket \in [Socket -> {"none", "connecting", "open", "closing"}]
          /\ wsRef \in Live
      BY <2>1, <2>2
    <3> QED
      BY <3>1, <3>2, <3>3 DEF SocketTypeOK
  <2>5. ConnectionsBounded
    BY <2>1, <2>2, <2>3 DEF ConnectionsBounded
  <2>6. EventsTyped
    BY <2>1 DEF EventsTyped
  <2> QED
    BY <2>3, <2>4, <2>5, <2>6 DEF Connected
<1>2. RowsTyped
  BY DEF LiveInit, RowsTyped, RunStates, TaskStates
<1>3. StoreTyped /\ CommandTyped /\ SpentTyped
  BY ViewAssumption
  DEF LiveInit, StoreTyped, CommandTyped, CommandsAddressed, SpentTyped, Nothing, NoCommand,
      RunStates, TaskStates
<1>4. FetchesTyped
  BY <1>2, SentTyped, NotPendingTyped, KeyForms DEF LiveInit, FetchesTyped, RequestsTyped
<1> QED
  BY <1>1, <1>2, <1>3, <1>4 DEF DashboardInv

\* Whatever breaks, closes late or overlaps, there are never more connections and timers than
\* times the effect has run, and the store has the states of runs and tasks, for any number of
\* runs, sockets, events and commands.
THEOREM DashboardInvariance == LiveSpec => []LiveInv
BY DashboardInit, DashboardStep, DashboardGivesLive, PTL DEF LiveSpec

=============================================================================
