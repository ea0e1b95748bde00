---------------------------- MODULE ConfigLayout ----------------------------
(***************************************************************************)
(* Several instances in one config.yml: what each inherits from the top    *)
(* level, the ID and the directory it gets, which layouts the daemon       *)
(* starts, and what the cleanup of one instance's registration token does  *)
(* to a file that the others, and the operator, use at the same time.      *)
(*                                                                         *)
(* Source: internal/config/config.go (LoadRoot and what it calls,          *)
(* ExpandDevicePlatformNode, ValidateStartupLayout), standalone.go,        *)
(* enrollment_cleanup.go and cmd/corade/main.go. Enrollment itself is      *)
(* module Enrollment, the watcher and its reloads module ConfigReload.     *)
(*                                                                         *)
(* An option that is not set is "". A path is the sequence of its names.   *)
(***************************************************************************)
EXTENDS Naturals, Sequences, FiniteSets

CONSTANTS
    Tops,       \* top-level settings of the file
    Pool,       \* instances the operator may write, one per machine
    Nodes,      \* node numbers the panel assigns to every machine
    MaxEdits    \* bound: edits of the operator

VARIABLES
    top, list,  \* config.yml: the top level and the instances
    run,        \* the running instances: machine, ID, directory, token
    home,       \* the directory in which a machine's identity was enrolled
    edits

layoutVars == <<top, list, run, home, edits>>

Machines == {e.machine : e \in Pool}
Base == <<"base">>
Nowhere == <<>>
Positions == DOMAIN list

Or(own, inherited) == IF own = "" THEN inherited ELSE own

\* inheritFrom: what an instance leaves open comes from the top level, but not
\* its ID nor its directories. (Certificate, interval, log, kernel and WebSocket
\* options inherit alike and play no part here.)
InheritFrom(c, parent) ==
    [c EXCEPT !.control = Or(@, parent.control), !.token = Or(@, parent.token)]

\* AutoInstanceID: a standalone instance has one name, a device-platform one is
\* named after its token, a legacy one after its panel.
AutoInstanceID(c) ==
    IF c.users # <<>> THEN "standalone"
    ELSE IF c.panel # "" THEN c.panel
    ELSE Or(c.token, "no-token")

\* assignInstanceIDs: an ID in the file stays.
AssignInstanceIDs(s) == [i \in DOMAIN s |-> [s[i] EXCEPT !.id = Or(@, AutoInstanceID(s[i]))]]

\* setDefaultsFrom: several instances get a directory each, a single one the
\* directory of the file. A control token makes a device-platform instance.
SetDefaults(s) ==
    [i \in DOMAIN s |->
        [s[i] EXCEPT
            !.control = IF @ = "" /\ s[i].token # "" THEN "device-platform" ELSE @,
            !.dir = IF @ # Nowhere THEN @
                    ELSE IF Len(s) > 1 THEN Append(Base, s[i].id) ELSE Base]]

\* validateStandalone: the users are numbered and named apart.
ValidUsers(us) ==
    \A i, j \in DOMAIN us : i # j => us[i].id # us[j].id /\ us[i].uuid # us[j].uuid

\* validate: a standalone instance has nothing of the panel's, a device-platform
\* one a token or the panel's key, and only a legacy one a legacy panel.
Valid(c) ==
    \/ c.users # <<>> /\ c.control = "" /\ c.token = "" /\ c.panel = "" /\ ValidUsers(c.users)
    \/ c.users = <<>> /\ c.control # "" /\ c.panel = "" /\ (c.token # "" \/ c.pinned)
    \/ c.users = <<>> /\ c.control = "" /\ c.panel # ""

Loaded ==
    LET inherited == [i \in Positions |-> InheritFrom(list[i], top)]
    IN  SetDefaults(AssignInstanceIDs(inherited))

\* validateRoot: every instance is valid and no two have one ID.
LoadsRoot ==
    /\ \A i \in Positions : Valid(Loaded[i])
    /\ \A i, j \in Positions : i # j => Loaded[i].id # Loaded[j].id

\* ValidateStartupLayout: no legacy instance, no health port and no directory
\* is used twice.
ValidateStartupLayout(s) ==
    /\ \A i \in DOMAIN s : s[i].users # <<>> \/ s[i].control # ""
    /\ \A i, j \in DOMAIN s : i # j => s[i].dir # s[j].dir /\ (s[i].port # 0 => s[i].port # s[j].port)

\* ExpandDevicePlatformNode: the directory of a node below its instance's.
ExpandNode(c, n) == Append(c.dir, n)

\* The directories an instance and its node services write to.
Directories(c) == {c.dir} \cup IF c.users # <<>> THEN {} ELSE {ExpandNode(c, n) : n \in Nodes}

Running(s) == {[machine |-> s[i].machine, id |-> s[i].id, dir |-> s[i].dir,
                token |-> s[i].token, all |-> Directories(s[i])] : i \in DOMAIN s}

Init ==
    /\ top \in Tops
    /\ \E a, b \in Pool : a # b /\ list = <<a, b>>
    /\ run = {}
    /\ home = [m \in Machines |-> Nowhere]
    /\ edits = 0

\* main and runWithReload: a file that does not load leaves a running daemon
\* alone; one whose layout is refused ends it.
Load ==
    /\ LoadsRoot
    /\ run' = IF ValidateStartupLayout(Loaded) THEN Running(Loaded) ELSE {}
    /\ UNCHANGED <<top, list, home, edits>>

\* markEnrolled: the identity file in the instance's directory.
Enroll(r) ==
    /\ r.token # ""
    /\ home[r.machine] = Nowhere
    /\ home' = [home EXCEPT ![r.machine] = r.dir]
    /\ UNCHANGED <<top, list, run, edits>>


\* cleanControlNode: no token; the ID of the running instance and the panel's
\* key are written down.
CleanControlNode(e, r) == [e EXCEPT !.token = "", !.id = r.id, !.pinned = TRUE]

\* ForgetEnrollmentToken: the file is read, the entries of this machine are
\* cleaned, and the file is replaced, under a lock of the process.
ForgetEnrollmentToken(r) ==
    /\ home[r.machine] = r.dir
    /\ list' = [i \in Positions |->
                  IF list[i].machine = r.machine THEN CleanControlNode(list[i], r) ELSE list[i]]
    /\ run' = (run \ {r}) \cup {[r EXCEPT !.token = ""]}
    /\ UNCHANGED <<top, home, edits>>

\* The operator adds an instance, removes one (but keeps several), or changes
\* their order.
Edit ==
    /\ edits < MaxEdits
    /\ edits' = edits + 1
    /\ \/ \E e \in Pool :
             /\ \A i \in Positions : list[i].machine # e.machine
             /\ home[e.machine] = Nowhere
             /\ list' = Append(list, e)
       \/ \E i \in Positions :
             /\ Len(list) > 2
             /\ list' = SubSeq(list, 1, i - 1) \o SubSeq(list, i + 1, Len(list))
       \/ \E i, j \in Positions :
             /\ i < j
             /\ list' = [list EXCEPT ![i] = list[j], ![j] = list[i]]
    /\ UNCHANGED <<top, run, home>>

Next ==
    \/ Load
    \/ \E r \in run : Enroll(r) \/ ForgetEnrollmentToken(r)
    \/ Edit

Spec == Init /\ [][Next]_layoutVars

-----------------------------------------------------------------------------

\* Type invariant of the file and of the running instances.
TypeOK ==
    /\ top \in Tops
    /\ \A i \in Positions : list[i].machine \in Machines
    /\ {r.machine : r \in run} \subseteq Machines
    /\ edits \in 0..MaxEdits

\* No two instances that run at once, nor the node services below them, write
\* to the same directory: identities, journals, certificates and caches stay
\* apart, whatever order files were edited, loaded and cleaned in.
DirectoriesApart ==
    /\ \A r, s \in run : r # s => r.all \cap s.all = {}
    /\ Cardinality({r.machine : r \in run}) = Cardinality(run)

\* A machine that was enrolled finds its identity again: whenever the file
\* loads, its instance has the directory it enrolled in, although the token
\* that named the directory is erased and other instances come, go and change
\* places.
IdentityFollows ==
    LoadsRoot =>
        \A i \in Positions :
            home[list[i].machine] # Nowhere => Loaded[i].dir = home[list[i].machine]
=============================================================================
