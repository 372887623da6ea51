----------------------------- MODULE Providers -----------------------------
(***************************************************************************)
(* The provider router (services/provider-registry/src/index.ts) with the  *)
(* routes that register, check and delete providers                        *)
(* (routes/gateway.ts, routes/providers.ts), the credentials they share,   *)
(* and the start of the server.  Adapters and the credential cache live in *)
(* the process, the rest in the database; a request is a process whose     *)
(* steps end at its awaits.                                                *)
(*                                                                         *)
(* Only the requests a constant names are made.  A provider stands for the *)
(* row a registration inserts and for the API key it came with; what else  *)
(* its configuration says is left out.                                     *)
(*                                                                         *)
(* A definition placed before the one it varies, and used by nothing, is a *)
(* plausible fault that a property must notice (README, "Faults").         *)
(***************************************************************************)
EXTENDS Naturals

CONSTANTS
    Provider,     \* the registrations that are made, of one provider each
    NoProvider,
    RefOf,        \* RefOf[p]: credentials_ref, from the name in capitals
    Capable,      \* the providers that have the capabilities a task requires
    Override,     \* the provider that the run names for the role, or NoProvider
    Priority,     \* Priority[p]: provider_mappings.priority for the role
    Request,      \* concurrent requests
    Operations,   \* the requests there are, and the faults
    Secrets,      \* the values APP_ENCRYPTION_KEY may have when the server starts
    NoSecret,     \* it is not set
    Production,   \* NODE_ENV is production
    MaxCrashes    \* bound on the restarts of the server

ASSUME ProvidersAssumption ==
    /\ NoProvider \notin Provider
    /\ Capable \subseteq Provider
    /\ Override \in Provider \cup {NoProvider}
    /\ Priority \in [Provider -> Nat]
    /\ Operations \subseteq {"delete", "reload", "health", "select", "blocked",
                             "store_fails", "load_fails", "start_fails", "no_adapter",
                             "create", "report"}
    /\ Secrets # {} /\ Production \in BOOLEAN /\ (Production => NoSecret \notin Secrets)
    /\ MaxCrashes \in Nat

Ref == {RefOf[p] : p \in Provider}
NoRow == [owner |-> NoProvider, key |-> NoProvider, sealed |-> NoSecret]
NotLoaded == [key |-> NoProvider, loaded |-> FALSE]

VARIABLES
    present,    \* the rows of provider_definitions
    buildable,  \* the providers whose row createAdapter makes an adapter of
    healthy,    \* the rows whose health_status.isHealthy is true
    mapped,     \* the providers that provider_mappings gives the role
    vault,      \* vault[r]: provider_credentials, the row it belongs to and the sealed key
    cache,      \* cache[r]: gatewayCredentialStore
    adapters,   \* adapters[p]: the adapter that the router holds
    secret,     \* APP_ENCRYPTION_KEY of the process
    server,     \* the next step of the start of the server
    crashes,
    answers,    \* history: registrations begun, keys stored, registrations answered,
                \* and what the failed loads have missed
    pc,         \* pc[q]: the next step of request q
    about,      \* about[q]: the provider q is about
    read,       \* read[q]: the rows q has read
    visited,    \* visited[q]: the adapters whose health q has asked for
    observed    \* observed[q]: the answer

tableVars == <<present, buildable, healthy, mapped, vault>>
requestVars == <<pc, about, read, visited, observed>>
serverVars == <<secret, server, crashes>>
providerVars == <<tableVars, cache, adapters, serverVars, answers, requestVars>>

Steps == {"none", "check", "insert", "store", "load", "build",
          "row", "reload", "rebuild", "ping",
          "health", "mappings"}

Loaded == {p \in Provider : adapters[p].loaded}

ProvidersTypeOK ==
    /\ present \subseteq Provider /\ buildable \subseteq Provider /\ healthy \subseteq Provider
    /\ mapped \subseteq present
    /\ vault \in [Ref -> [owner : Provider \cup {NoProvider}, key : Provider \cup {NoProvider},
                       sealed : Secrets \cup {NoSecret}]]
    /\ cache \in [Ref -> Provider \cup {NoProvider}]
    /\ adapters \in [Provider -> [key : Provider \cup {NoProvider}, loaded : BOOLEAN]]
    /\ secret \in Secrets
    /\ server \in {"credentials", "adapters", "up"}
    /\ crashes \in 0..MaxCrashes
    /\ answers \in [begun : SUBSET Provider, stored : SUBSET Provider,
                    registered : SUBSET Provider, missed : SUBSET Provider,
                    unread : SUBSET Provider]
    /\ pc \in [Request -> Steps]
    /\ about \in [Request -> Provider \cup {NoProvider}]
    /\ read \in [Request -> SUBSET Provider]
    /\ visited \in [Request -> SUBSET Provider]
    /\ observed \in [Request -> BOOLEAN]

ProvidersInit ==
    /\ present = {} /\ buildable = {} /\ healthy = {} /\ mapped = {}
    /\ vault = [r \in Ref |-> NoRow]
    /\ cache = [r \in Ref |-> NoProvider]
    /\ adapters = [p \in Provider |-> NotLoaded]
    /\ secret \in Secrets
    /\ server = "up"
    /\ crashes = 0
    /\ answers = [begun |-> {}, stored |-> {}, registered |-> {}, missed |-> {}, unread |-> {}]
    /\ pc = [q \in Request |-> "none"]
    /\ about = [q \in Request |-> NoProvider]
    /\ read = [q \in Request |-> {}]
    /\ visited = [q \in Request |-> {}]
    /\ observed = [q \in Request |-> FALSE]

-----------------------------------------------------------------------------
Idle(q) == pc[q] = "none" /\ server = "up"
Goto(q, step) == pc' = [pc EXCEPT ![q] = step]
Continue(q, step) == Goto(q, step) /\ UNCHANGED <<about, read, visited, observed>>
Answer(q) ==
    /\ Goto(q, "none")
    /\ about' = [about EXCEPT ![q] = NoProvider]
    /\ read' = [read EXCEPT ![q] = {}]
    /\ visited' = [visited EXCEPT ![q] = {}]
    /\ observed' = [observed EXCEPT ![q] = FALSE]
Begin(q, p, step) ==
    /\ Goto(q, step)
    /\ about' = [about EXCEPT ![q] = p]
    /\ UNCHANGED <<read, visited, observed>>
ProcessUnchanged == UNCHANGED <<cache, adapters, serverVars>>

(***************************************************************************)
(* Credentials.  encryptCredential seals with the secret of the process,   *)
(* or only encodes when there is none; decryptCredential throws for an     *)
(* encoded row in production, and for a sealed one without its secret.     *)
(***************************************************************************)
Encrypted(key) == [key |-> key, sealed |-> secret]
Decryptable(row) ==
    IF row.sealed = NoSecret THEN ~ Production ELSE row.sealed = secret

\* storeCredential: ON CONFLICT leaves the owner of the row.
Stored(p) ==
    [vault EXCEPT ![RefOf[p]] =
        [owner |-> IF @.owner = NoProvider THEN p ELSE @.owner,
         key |-> Encrypted(p).key, sealed |-> Encrypted(p).sealed]]

\* resolveGatewayCredential, without the environment.
Resolve(p) == cache[RefOf[p]]

\* createAdapter for each row that was read.  It returns null for a type it does not know
\* and for a configuration that throws, and the row is skipped; an adapter is never taken
\* out.
ReplacedAdapters(rows) ==
    [p \in Provider |->
        IF p \in rows \cap buildable THEN [key |-> Resolve(p), loaded |-> TRUE] ELSE NotLoaded]
BuiltAdapters(rows) ==
    [p \in Provider |->
        IF p \in rows \cap buildable THEN [key |-> Resolve(p), loaded |-> TRUE] ELSE adapters[p]]

(***************************************************************************)
(* POST /gateway/register: the key goes to the cache before the endpoint   *)
(* is looked up; then the row, the stored credential (a failure is logged) *)
(* and the adapters (a failure is logged as well, and the request answered *)
(* 201 nevertheless).                                                      *)
(***************************************************************************)
RegisterKey(q) ==
    /\ Idle(q)
    /\ \E p \in Provider \ answers.begun :
          /\ cache' = [cache EXCEPT ![RefOf[p]] = p]
          /\ answers' = [answers EXCEPT !.begun = @ \cup {p}]
          /\ Begin(q, p, "check")
    /\ UNCHANGED <<tableVars, adapters, serverVars>>

RegisterCheck(q) ==
    /\ pc[q] = "check"
    /\ \/ Continue(q, "insert")
       \/ "blocked" \in Operations /\ Answer(q)
    /\ ProcessUnchanged
    /\ UNCHANGED <<tableVars, answers>>

\* A row of any configuration is inserted, and is healthy until it is looked at.
Inserted(p) ==
    /\ present' = present \cup {p}
    /\ healthy' = healthy \cup {p}
    /\ \/ buildable' = buildable \cup {p}
       \/ "no_adapter" \in Operations /\ UNCHANGED buildable

RegisterInsert(q) ==
    /\ pc[q] = "insert"
    /\ Inserted(about[q])
    /\ Continue(q, "store")
    /\ ProcessUnchanged
    /\ UNCHANGED <<mapped, vault, answers>>

RegisterStore(q) ==
    LET p == about[q] r == RefOf[p] IN
    /\ pc[q] = "store"
    /\ \/ /\ p \in present
          /\ vault' = Stored(p)
          /\ cache' = [cache EXCEPT ![r] = p]
          /\ answers' = [answers EXCEPT !.stored = @ \cup {p}]
       \/ /\ p \notin present \/ "store_fails" \in Operations
          /\ UNCHANGED <<vault, cache, answers>>
    /\ Continue(q, "load")
    /\ UNCHANGED <<present, buildable, healthy, mapped, adapters, serverVars>>

\* POST /providers: a row without a credential, and no adapter before the next reload.
CreateRow ==
    /\ "create" \in Operations
    /\ server = "up"
    /\ \E p \in Provider \ answers.begun :
          /\ Inserted(p)
          /\ answers' = [answers EXCEPT !.begun = @ \cup {p}]
    /\ ProcessUnchanged
    /\ UNCHANGED <<mapped, vault, requestVars>>

(***************************************************************************)
(* loadAdapters, at the end of the requests that register, delete and      *)
(* reload: read the enabled rows, then build their adapters.               *)
(***************************************************************************)
LoadRead(q, step, next) ==
    /\ pc[q] = step
    /\ read' = [read EXCEPT ![q] = present]
    /\ Goto(q, next)
    /\ ProcessUnchanged
    /\ UNCHANGED <<tableVars, answers, about, visited, observed>>

\* A registration is answered in the same way, another request with an error.
LoadFails(q) ==
    LET new == {about[q]} \ {NoProvider} IN
    /\ "load_fails" \in Operations
    /\ pc[q] \in {"load", "reload"}
    /\ answers' = IF pc[q] = "load"
                  THEN [answers EXCEPT !.registered = @ \cup new,
                                       !.missed = @ \cup (new \ Loaded)]
                  ELSE answers
    /\ Answer(q)
    /\ ProcessUnchanged
    /\ UNCHANGED tableVars

LoadBuild(q) ==
    /\ pc[q] \in {"build", "rebuild"}
    /\ adapters' = BuiltAdapters(read[q])
    /\ answers' = [answers EXCEPT
                      !.missed = @ \ read[q],
                      !.registered = IF pc[q] = "build"
                                     THEN @ \cup ({about[q]} \ {NoProvider}) ELSE @]
    /\ Answer(q)
    /\ UNCHANGED <<tableVars, cache, serverVars>>

Reload(q) ==
    /\ "reload" \in Operations
    /\ Idle(q)
    /\ Begin(q, NoProvider, "load")
    /\ ProcessUnchanged
    /\ UNCHANGED <<tableVars, answers>>

(***************************************************************************)
(* DELETE /providers/:id: first the mappings, then the row, which takes    *)
(* the credential it owns with it (ON DELETE CASCADE), then the adapters.  *)
(***************************************************************************)
DeleteMappings(q) ==
    /\ "delete" \in Operations
    /\ Idle(q)
    /\ \E p \in present : mapped' = mapped \ {p} /\ Begin(q, p, "row")
    /\ ProcessUnchanged
    /\ UNCHANGED <<present, buildable, healthy, vault, answers>>

\* The mappings after the deletion of p (ON DELETE CASCADE).
MappingsKept(p) == mapped
MappingsWithout(p) == mapped \ {p}

DeleteRow(q) ==
    LET p == about[q] IN
    /\ pc[q] = "row"
    /\ IF p \in present
       THEN /\ present' = present \ {p}
            /\ healthy' = healthy \ {p}
            /\ mapped' = MappingsWithout(p)
            /\ vault' = [r \in Ref |->
                            IF vault[r].owner = p
                            THEN NoRow ELSE vault[r]]
            /\ Continue(q, "reload")
       ELSE Answer(q) /\ UNCHANGED <<present, healthy, mapped, vault>>
    /\ ProcessUnchanged
    /\ UNCHANGED <<buildable, answers>>

\* PUT /roles/:id/provider gives the role a provider that exists.
MapProvider ==
    /\ server = "up"
    /\ \E p \in present \ mapped : mapped' = mapped \cup {p}
    /\ ProcessUnchanged
    /\ UNCHANGED <<present, buildable, healthy, vault, answers, requestVars>>

(***************************************************************************)
(* runHealthChecks: ask one adapter after another and write each answer    *)
(* into its row, if there is one.  The map is read as the loop goes on.    *)
(***************************************************************************)
HealthPing(q) ==
    /\ "health" \in Operations
    /\ Idle(q) \/ pc[q] = "ping"
    /\ \E p \in Loaded \ visited[q], up \in BOOLEAN :
          /\ about' = [about EXCEPT ![q] = p]
          /\ visited' = [visited EXCEPT ![q] = @ \cup {p}]
          /\ observed' = [observed EXCEPT ![q] = up]
    /\ Goto(q, "health")
    /\ ProcessUnchanged
    /\ UNCHANGED <<tableVars, answers, read>>

HealthWrite(q) ==
    /\ pc[q] = "health"
    /\ healthy' = IF observed[q] THEN healthy \cup ({about[q]} \cap present)
                                 ELSE healthy \ {about[q]}
    /\ IF Loaded \subseteq visited[q] THEN Answer(q) ELSE Continue(q, "ping")
    /\ ProcessUnchanged
    /\ UNCHANGED <<present, buildable, mapped, vault, answers>>

\* PUT /providers/:id/health writes what a client says.
ReportHealth ==
    /\ "report" \in Operations
    /\ server = "up"
    /\ \E p \in present : healthy' \in {healthy \cup {p}, healthy \ {p}}
    /\ ProcessUnchanged
    /\ UNCHANGED <<present, buildable, mapped, vault, answers, requestVars>>

(***************************************************************************)
(* selectProvider: the provider that the run names if it is loaded;        *)
(* otherwise the first mapped one that is healthy, loaded and capable;     *)
(* otherwise any capable adapter.                                          *)
(***************************************************************************)
EligibleAlso == {p \in mapped \cap present \cap Loaded : p \in Capable}
Eligible == {p \in mapped \cap present \cap healthy \cap Loaded : p \in Capable}
First(S) == {p \in S : \A o \in S : Priority[p] <= Priority[o]}
Fallback == Loaded \cap Capable

SelectOverride(q) ==
    /\ "select" \in Operations
    /\ Idle(q)
    /\ Override \notin Loaded
    /\ Continue(q, "mappings")
    /\ ProcessUnchanged
    /\ UNCHANGED <<tableVars, answers>>

\* What a selection may return after it has read the mappings.
Selectable ==
    IF Eligible # {} THEN First(Eligible)
    ELSE IF Fallback # {} THEN Fallback ELSE {NoProvider}

SelectMapped(q) ==
    /\ pc[q] = "mappings"
    /\ Answer(q)
    /\ ProcessUnchanged
    /\ UNCHANGED <<tableVars, answers>>

(***************************************************************************)
(* The server crashes and starts again, possibly with another secret: it   *)
(* loads the credentials that it can decrypt, then the adapters, asks each *)
(* of them for its health, and then listens.  loadCredentialsFromDB        *)
(* swallows its errors, and start those of initializeServices: the server  *)
(* goes on without what it could not read.                                 *)
(***************************************************************************)
Crash ==
    /\ crashes < MaxCrashes
    /\ crashes' = crashes + 1
    /\ server' = "credentials"
    /\ secret' \in Secrets
    /\ cache' = [r \in Ref |-> NoProvider]
    /\ adapters' = [p \in Provider |-> NotLoaded]
    /\ pc' = [q \in Request |-> "none"]
    /\ about' = [q \in Request |-> NoProvider]
    /\ read' = [q \in Request |-> {}]
    /\ visited' = [q \in Request |-> {}]
    /\ observed' = [q \in Request |-> FALSE]
    /\ UNCHANGED <<tableVars, answers>>

StartCredentials(step, next) ==
    /\ server = step
    /\ server' = next
    /\ \/ /\ cache' = [r \in Ref |->
                         IF Decryptable(vault[r]) THEN vault[r].key ELSE NoProvider]
          /\ answers' = [answers EXCEPT !.unread = {}]
       \/ /\ "start_fails" \in Operations
          /\ answers' = [answers EXCEPT !.unread = answers.stored]
          /\ UNCHANGED cache
    /\ UNCHANGED <<tableVars, adapters, secret, crashes, requestVars>>

\* A health check that fails leaves the rows that it has not come to.
StartAdapters(step, next) ==
    LET asked == present \cap buildable IN
    /\ server = step
    /\ server' = next
    /\ \/ /\ adapters' = BuiltAdapters(present)
          /\ \E up \in SUBSET asked : healthy' = (healthy \ asked) \cup up
          /\ answers' = [answers EXCEPT !.missed = {}]
       \/ /\ "start_fails" \in Operations
          /\ answers' = [answers EXCEPT !.missed = present]
          /\ UNCHANGED <<adapters, healthy>>
    /\ UNCHANGED <<present, buildable, mapped, vault, cache, secret, crashes, requestVars>>

StartAdaptersFirst ==
    StartAdapters("credentials", "adapters") \/ StartCredentials("adapters", "up")
Start ==
    StartCredentials("credentials", "adapters") \/ StartAdapters("adapters", "up")

RequestStep(q) ==
    \/ RegisterKey(q) \/ RegisterCheck(q) \/ RegisterInsert(q) \/ RegisterStore(q)
    \/ LoadRead(q, "load", "build") \/ LoadRead(q, "reload", "rebuild")
    \/ LoadFails(q) \/ LoadBuild(q) \/ Reload(q)
    \/ DeleteMappings(q) \/ DeleteRow(q)
    \/ HealthPing(q) \/ HealthWrite(q)
    \/ SelectOverride(q) \/ SelectMapped(q)

ProvidersNext ==
    \/ \E q \in Request : RequestStep(q)
    \/ CreateRow \/ MapProvider \/ ReportHealth
    \/ Crash
    \/ Start

ProvidersSpec == ProvidersInit /\ [][ProvidersNext]_providerVars

-----------------------------------------------------------------------------
(***************************************************************************)
(* Properties.                                                             *)
(***************************************************************************)

\* A registered provider of which an adapter can be made is routable for as long as its row
\* exists ("Reload provider adapters so the new provider is available for routing"),
\* whatever other requests load with an older reading of the table.  The exceptions are
\* those whose registration, or the start of the server, failed to load adapters; and one
\* load that reads their rows is enough to make up for it.
RegisteredRoutable ==
    server = "up" =>
        (answers.registered \cap present \cap buildable) \ answers.missed \subseteq Loaded

\* A provider whose key was stored is called with that key for as long as the server can
\* decrypt it, if the server could read its credentials when it started: also after a
\* restart, also when encryption was introduced since, and whatever registrations were
\* refused or loads failed, if no two names share a credential.
StoredKeyUsed ==
    \A p \in (answers.stored \cap present \cap Loaded) \ answers.unread :
        Decryptable(vault[RefOf[p]]) => adapters[p].key = p

\* While a capable provider of the role is registered, routable and healthy, a selection
\* returns one that is healthy ("skipping any provider that is currently unhealthy") and
\* in the table, although the router keeps adapters of providers that were deleted.
SelectionPrefers ==
    LET usable == (answers.registered \cap buildable \cap Capable) \ answers.missed IN
    \A q \in Request :
        pc[q] = "mappings" /\ usable \cap mapped \cap healthy # {} =>
            Selectable \subseteq healthy \cap present

\* "Reload adapters to reflect the deletion": when the requests have ended, no deleted
\* provider is in the router any more.
DeletedNotRouted ==
    server = "up" /\ (\A q \in Request : pc[q] = "none") => Loaded \subseteq present

=============================================================================
