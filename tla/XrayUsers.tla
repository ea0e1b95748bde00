------------------------------ MODULE XrayUsers ------------------------------
(***************************************************************************)
(* The users of the xray kernel: the list the service wants, the list the  *)
(* kernel believes it serves, and the accounts inside the xray instance,   *)
(* which are changed one by one through xray's UserManager or all at once  *)
(* by starting a new instance.                                             *)
(*                                                                         *)
(* Sources: internal/kernel/xray/xray.go, internal/kernel/kernel.go, and   *)
(* the callers in internal/service/service.go.                             *)
(*                                                                         *)
(* A list of users is a function from ids to UUIDs; None is "not in it".   *)
(***************************************************************************)
CONSTANTS
    Ids,        \* user ids
    Uuids,      \* well-formed UUIDs
    BadUuids,   \* strings xray does not accept as a UUID
    Configs,    \* node configurations
    Unmanaged,  \* those whose protocol has no UserManager (socks, http)
    None        \* no user, no instance

VARIABLES
    running,     \* Xray.running: an instance is there
    core,        \* the accounts inside the instance
    users,       \* Xray.users
    nodeConfig,  \* Xray.nodeConfig, or None
    hash,        \* Xray.lastKernelHash, what it was computed from
    lastUsers,   \* Service.lastUsers
    lastConfig,  \* Service.lastConfig, or None
    changed      \* history: ids whose UUID UpdateUsers changed in place

vars == <<running, core, users, nodeConfig, hash, lastUsers, lastConfig, changed>>
kernelVars == <<running, core, users, nodeConfig, hash, changed>>

Lists == [Ids -> Uuids \cup BadUuids \cup {None}]
NoUsers == [i \in Ids |-> None]
Members(list) == {i \in Ids : list[i] # None}

Init ==
    /\ running = FALSE
    /\ core = NoUsers
    /\ users = NoUsers
    /\ nodeConfig = None
    /\ hash = None
    /\ lastUsers = NoUsers
    /\ lastConfig = None
    /\ changed = {}

(***************************************************************************)
(* The kernel.                                                             *)
(***************************************************************************)

\* Start swaps the new instance in.  The configuration of a list with a
\* malformed UUID does not load.
Started(c, list) ==
    /\ \A i \in Ids : list[i] \notin BadUuids
    /\ running' = TRUE
    /\ core' = list
    /\ users' = list
    /\ nodeConfig' = c
    /\ hash' = <<c, list>>
    /\ changed' = {}


\* UserDiff: the users that are new or have another UUID, and those that left.
ToAdd(old, new) == {i \in Members(new) : new[i] # old[i]}

ToRemove(old, new) == Members(old) \ Members(new)

\* UserManager.RemoveUser and then AddUser: xray refuses an account whose name
\* it already has, and the code goes on.
Managed(list) ==
    [i \in Ids |->
        LET kept == IF i \in ToRemove(users, list) THEN None ELSE core[i]
        IN  IF i \in ToAdd(users, list) /\ list[i] \notin BadUuids /\ kept = None
            THEN list[i] ELSE kept]

\* UpdateUsers of a running kernel, apart from a restart that fails.
UpdateUsers(list) ==
    IF ToAdd(users, list) \cup ToRemove(users, list) = {}
    THEN /\ users' = list
         /\ UNCHANGED <<running, core, nodeConfig, hash, changed>>
    ELSE IF nodeConfig \in Unmanaged THEN Started(nodeConfig, list)
    ELSE /\ core' = Managed(list)
         /\ users' = list
         /\ changed' = (changed \cup {i \in Members(users) \cap Members(list) :
                                        users[i] # list[i]}) \cap Members(list)
         /\ UNCHANGED <<running, nodeConfig, hash>>

\* Reload: nothing but the limits if configuration and users are those of the
\* last start, a new instance otherwise.
Reload(c, list) ==
    IF hash = <<c, list>>
    THEN /\ users' = list
         /\ UNCHANGED <<running, core, nodeConfig, hash, changed>>
    ELSE Started(c, list)

\* A start that fails leaves the old instance as it was.
StartFails == UNCHANGED kernelVars

(***************************************************************************)
(* The service.                                                            *)
(***************************************************************************)

\* applyUserUpdate: an update that fails is tried as a start; if that fails
\* too the old list is wanted again.
ApplyUserUpdate(list) ==
    /\ lastConfig # None
    /\ list # lastUsers
    /\ \/ /\ running
          /\ \/ UpdateUsers(list)
             \/ nodeConfig \in Unmanaged /\ Started(lastConfig, list)
          /\ lastUsers' = list
       \/ /\ running
          /\ nodeConfig \in Unmanaged
          /\ StartFails
          /\ UNCHANGED lastUsers
       \/ /\ ~running
          /\ list # NoUsers
          /\ \/ Started(lastConfig, list) /\ lastUsers' = list
             \/ StartFails /\ UNCHANGED lastUsers
       \/ /\ ~running
          /\ list = NoUsers
          /\ StartFails
          /\ lastUsers' = list
    /\ UNCHANGED lastConfig

\* Stop, for a configuration without users.
Stopped ==
    /\ running' = FALSE
    /\ core' = NoUsers
    /\ changed' = {}
    /\ UNCHANGED <<users, nodeConfig, hash>>

\* applyPullResult with a new configuration that is applied.
ApplyConfig(c, list) ==
    /\ c # lastConfig
    /\ lastConfig' = c
    /\ lastUsers' = list
    /\ \/ list = NoUsers /\ Stopped
       \/ list # NoUsers /\ running /\ Reload(c, list)
       \/ list # NoUsers /\ ~running /\ Started(c, list)

\* applyPullResult with a new configuration that fails: the last good one is
\* reloaded, or started, or that fails as well.
ApplyConfigFails(c, list) ==
    /\ c # lastConfig
    /\ list # NoUsers
    /\ lastConfig # None
    /\ \/ lastUsers # NoUsers /\ running /\ Reload(lastConfig, lastUsers)
       \/ lastUsers # NoUsers /\ Started(lastConfig, lastUsers)
       \/ StartFails
    /\ UNCHANGED <<lastUsers, lastConfig>>

Next ==
    \E list \in Lists :
        \/ ApplyUserUpdate(list)
        \/ \E c \in Configs : ApplyConfig(c, list) \/ ApplyConfigFails(c, list)

Spec == Init /\ [][Next]_vars

------------------------------------------------------------------------------
(***************************************************************************)
(* Properties.                                                             *)
(***************************************************************************)

\* Every variable has its type, and the running kernel holds the list the
\* service wants.
TypeOK ==
    /\ running \in BOOLEAN
    /\ core \in [Ids -> Uuids \cup {None}]
    /\ users \in Lists /\ lastUsers \in Lists
    /\ nodeConfig \in Configs \cup {None} /\ lastConfig \in Configs \cup {None}
    /\ hash \in (Configs \X Lists) \cup {None}
    /\ changed \subseteq Ids
    /\ running => users = lastUsers


\* "Remove first, then add (order matters for UUID changes on same ID)": a
\* user with a changed UUID is served with the new one.
ChangedServed ==
    running => \A i \in Members(lastUsers) :
                   lastUsers[i] \notin BadUuids => core[i] = lastUsers[i]
==============================================================================
