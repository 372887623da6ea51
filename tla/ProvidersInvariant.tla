------------------------- MODULE ProvidersInvariant -------------------------
(***************************************************************************)
(* The inductive invariant behind the properties of Providers: what the    *)
(* requests and the start of the server rely on between two awaits and do  *)
(* not look at again.                                                      *)
(***************************************************************************)
EXTENDS Providers

\* The requests that are about a provider, and the part of a registration that has
\* not loaded its adapter yet.
AboutOne == {"check", "insert", "store", "row", "reload", "rebuild", "health"}
Registering == {"check", "insert", "store", "load", "build"}

AboutProvider == \A q \in Request : pc[q] \in AboutOne => about[q] \in Provider

\* A server that is starting has no adapter and serves no request.
Starting == server # "up" => Loaded = {} /\ \A q \in Request : pc[q] = "none"

\* Whatever the tables, the router and the requests know of was begun once.
Begun ==
    /\ present \cup buildable \cup answers.registered \cup answers.stored \cup Loaded \subseteq answers.begun
    /\ answers.unread \subseteq answers.stored
    /\ \A q \in Request : read[q] \subseteq answers.begun

\* A registration that is under way was begun, and is not in the answers yet.
NotAnswered ==
    \A q \in Request : pc[q] \in Registering /\ about[q] # NoProvider =>
        about[q] \in answers.begun \ answers.registered

\* No two requests register the same provider.
Apart ==
    \A q, o \in Request :
        q # o /\ pc[q] \in Registering /\ pc[o] \in Registering /\ about[q] = about[o] =>
            about[q] = NoProvider

\* Before its row is inserted nobody can have read it, and its key is stored once.
Unseen ==
    /\ \A q \in Request : pc[q] \in {"check", "insert"} =>
          about[q] \notin present \cup answers.stored \cup Loaded
    /\ \A q, o \in Request : pc[q] \in {"check", "insert"} => about[q] \notin read[o]
    /\ \A q \in Request : pc[q] = "store" => about[q] \notin answers.stored

RegisteredOnce == NotAnswered /\ Apart /\ Unseen

\* The reading a registration builds its adapter from has its own row, if the row exists.
OwnRowRead ==
    \A q \in Request : pc[q] = "build" /\ about[q] \in present => about[q] \in read[q]

\* "if no two names share a credential"
OwnCredentials == \A p, o \in Provider : RefOf[p] = RefOf[o] => p = o

\* A stored credential belongs to its provider and holds its key, and what the process
\* has decrypted or cached is that key.
KeysKept ==
    /\ \A p \in Provider : vault[RefOf[p]].owner \in {p, NoProvider}
    /\ \A p \in answers.stored \cap present :
          /\ vault[RefOf[p]].key = p
          /\ Decryptable(vault[RefOf[p]]) /\ p \notin answers.unread =>
                /\ server # "credentials" => cache[RefOf[p]] = p
                /\ p \in Loaded => adapters[p].key = p

\* A registration under way has its key in the cache, and an adapter that another request
\* has built for it meanwhile has it too.
KeyCached ==
    \A q \in Request : pc[q] \in {"check", "insert", "store"} =>
        /\ cache[RefOf[about[q]]] = about[q]
        /\ about[q] \in Loaded => adapters[about[q]].key = about[q]

ProvidersInv ==
    /\ ProvidersTypeOK
    /\ AboutProvider
    /\ Starting
    /\ Begun
    /\ RegisteredOnce
    /\ OwnRowRead
    /\ RegisteredRoutable
    /\ OwnCredentials => KeysKept /\ KeyCached

=============================================================================
