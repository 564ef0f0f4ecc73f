---------------------------- MODULE MCParquetCache ----------------------------
(***************************************************************************)
(* The parquet cache: the controller and the two halves of a server.  They *)
(* share no state, the instance sets that the server loads being its       *)
(* input, so each is explored alone: part says which one runs, and the     *)
(* others stay in one initial state.                                       *)
(*                                                                         *)
(* Two templates, one of which may also be asked for with fewer replicas   *)
(* and is the first one asked for: nothing tells the templates apart.      *)
(***************************************************************************)
EXTENDS KeyspaceServer, ParquetCacheController, ParquetCacheData

CONSTANTS a, b

MCTwoTemplates == {[template |-> a, replicas |-> 2], [template |-> b, replicas |-> 2]}

MCTwoSizes == MCTwoTemplates \cup {[template |-> a, replicas |-> 1]}

VARIABLE part

MCInit ==
    /\ part \in {"controller", "server", "data"}
    /\ ControllerInit
    /\ KeyspaceInit
    /\ DataInit
    /\ pc.spec.template = a
    /\ part # "controller" => pc.spec.replicas = 2
    /\ part # "server" => file.own

MCNext ==
    /\ UNCHANGED part
    /\ \/ /\ part = "controller"
          /\ ControllerNext
          /\ UNCHANGED <<keyspaceVars, dataVars>>
       \/ /\ part = "server"
          /\ KeyspaceNext
          /\ UNCHANGED <<controllerVars, dataVars>>
       \/ /\ part = "data"
          /\ DataNext
          /\ UNCHANGED <<controllerVars, keyspaceVars>>

(***************************************************************************)
(* The server's runtime keeps running every task that can run.             *)
(***************************************************************************)
ServerFairness ==
    /\ WF_keyspaceVars(part = "server" /\ Update("startup"))
    /\ WF_keyspaceVars(part = "server" /\ (Notified \/ Update("watcher")))
    /\ \A c \in Conn : WF_keyspaceVars(part = "server" /\ Serve(c))

MCSpec ==
    /\ MCInit
    /\ [][MCNext]_<<part, controllerVars, keyspaceVars, dataVars>>
    /\ ServerFairness

-----------------------------------------------------------------------------
\* FileIsLoaded, of a server: it ends up with the instance set in the file, unless
\* the watcher's loop panicked or the start-up update stored an older one last.
ServerLoadsFile == part = "server" => FileIsLoaded

\* ConnectionsAreServed, of a server: poll_ready does not leave a connection waiting,
\* unless the only notification came before it was registered.
ServerServes == part = "server" => ConnectionsAreServed
=============================================================================
