---------------------------- MODULE CtlBindings ----------------------------
(***************************************************************************)
(* `coradectl bind add-node|add-machine|remove`: what the migration tool   *)
(* does to the three files it keeps, config.yml, credentials.env and       *)
(* install-meta.json. A command reads the configuration, rewrites it whole,*)
(* then the credentials, then the metadata, each with a plain WriteFile,   *)
(* and restarts the service. A write may fail or be cut short and the      *)
(* command may be killed between two writes.                               *)
(*                                                                         *)
(* Source: cmd/xbctl/main.go. A binding is named by its AutoInstanceID; an *)
(* entry holds the variable its token is read from, if it names one. Where *)
(* the daemon reads these files is module ConfigLayout.                    *)
(***************************************************************************)
EXTENDS Naturals, Sequences, SequencesExt

CONSTANTS
    Names,        \* the bindings (panel URL and node or machine number)
    Starts,       \* configurations and credentials the machine begins with
    MaxTokens,    \* bound: the tokens handed out
    MaxCommands,  \* bound: commands begun
    MaxFaults     \* bound: commands cut short

VARIABLES
    conf,       \* config.yml: readable, top-level binding, instances
    creds,      \* credentials.env: the token under each variable
    meta,       \* install-meta.json: the instances it lists and the latest
    pc, cmd,    \* the command under way
    want,       \* ghost: the binding and token the finished commands ask for
    unsure,     \* ghost: bindings whose last command was cut short
    reported,   \* what the last command printed
    commands, faults

bindingVars == <<conf, creds, meta, pc, cmd, want, unsure, reported, commands, faults>>

NoToken == 0
Tokens == 1..MaxTokens
NoName == "none"
NoEntry == [name |-> NoName, key |-> NoName]

\* envKey: the variable of a binding that coradectl wrote. An operator's own
\* file may name another one ("HAND").
EnvKey(n) == n
Keys == {EnvKey(n) : n \in Names} \cup {"HAND"}

Empty == [ok |-> TRUE, top |-> NoEntry, list |-> <<>>]
NoCommand == [op |-> NoName, name |-> NoName, token |-> NoToken, root |-> Empty, removed |-> {}]

\* normalizeRootInstances: a top-level binding counts when there is no list.
Instances(root) ==
    IF root.list # <<>> THEN root.list
    ELSE IF root.top # NoEntry THEN <<root.top>> ELSE <<>>

NamesOf(s) == [i \in DOMAIN s |-> s[i].name]

\* A configuration that loadWritableRootConfig cannot parse binds nothing.
Bound == IF conf.ok THEN {e.name : e \in Range(Instances(conf))} ELSE {}

Init ==
    /\ \E s \in Starts :
          /\ conf = s.conf
          /\ creds = s.creds
          /\ want = [n \in Names |->
                LET mine == {e \in Range(Instances(s.conf)) : e.name = n} IN
                [bound |-> mine # {},
                 token |-> IF \E e \in mine : e.key # NoName
                           THEN s.creds[(CHOOSE e \in mine : e.key # NoName).key] ELSE NoToken]]
          /\ meta = [list |-> NamesOf(Instances(s.conf)), latest |-> NoName]
    /\ pc = "idle"
    /\ cmd = NoCommand
    /\ unsure = {}
    /\ reported = "nothing"
    /\ commands = 0
    /\ faults = 0

Begin(c) ==
    /\ pc = "idle"
    /\ commands < MaxCommands
    /\ commands' = commands + 1
    /\ pc' = "conf"
    /\ cmd' = c
    /\ UNCHANGED <<conf, creds, meta, want, unsure, reported, faults>>

\* The first entry of every name.
Deduped(s) ==
    FoldLeft(LAMBDA kept, e : IF \E k \in Range(kept) : k.name = e.name THEN kept ELSE Append(kept, e),
             <<>>, s)

\* The entry of the same name is replaced, otherwise the new one is appended.
Merged(s, e) ==
    IF \E i \in DOMAIN s : s[i].name = e.name
    THEN [i \in DOMAIN s |-> IF s[i].name = e.name THEN e ELSE s[i]]
    ELSE Append(s, e)

\* runBindAdd and runConfigInit up to its first write. A configuration that
\* cannot be read counts as none.
Add(n, t) ==
    LET root == IF conf.ok THEN conf ELSE Empty IN
    Begin([op |-> "add", name |-> n, token |-> t, removed |-> {},
           root |-> [root EXCEPT !.list = Merged(Deduped(Instances(root)), [name |-> n, key |-> EnvKey(n)])]])

\* removeBinding up to its first write; without a match it is an error.
RemoveBinding(n) ==
    LET removed == {e \in Range(Instances(conf)) : e.name = n} IN
    /\ conf.ok
    /\ removed # {}
    /\ Begin([op |-> "remove", name |-> n, token |-> NoToken, removed |-> removed,
              root |-> [conf EXCEPT !.list = SelectSeq(Instances(conf), LAMBDA e : e.name # n)]])

\* writeRootConfig: the instances; without any, the top-level binding becomes
\* one. A token that stands in the file itself is not written again.
WriteRootConfig ==
    /\ pc = "conf"
    /\ conf' = [ok |-> TRUE, top |-> NoEntry, list |-> Instances(cmd.root)]
    /\ pc' = "creds"
    /\ UNCHANGED <<creds, meta, cmd, want, unsure, reported, commands, faults>>

\* Mutant: the credentials written before are not read.
MergeCredentialsAlone ==
    IF cmd.token = NoToken THEN creds
    ELSE [k \in Keys |-> IF k = EnvKey(cmd.name) THEN cmd.token ELSE NoToken]

\* mergeCredentials: called when a token was given.
MergeCredentials ==
    IF cmd.token = NoToken THEN creds ELSE [creds EXCEPT ![EnvKey(cmd.name)] = cmd.token]

\* pruneCredentialKeys: the variables the removed entries name.
PruneCredentialKeys ==
    [k \in Keys |-> IF \E e \in cmd.removed : e.key = k THEN NoToken ELSE creds[k]]

WriteCredentials ==
    /\ pc = "creds"
    /\ creds' = IF cmd.op = "add" THEN MergeCredentials ELSE PruneCredentialKeys
    /\ pc' = "meta"
    /\ UNCHANGED <<conf, meta, cmd, want, unsure, reported, commands, faults>>

\* writeInstallMetaVersioned: the instances of the root in memory; the latest
\* is the one just added, or the first.
WriteInstallMeta ==
    LET names == NamesOf(Instances(cmd.root)) IN
    /\ pc = "meta"
    /\ meta' = [list |-> names,
                latest |-> IF cmd.op = "add" THEN cmd.name
                           ELSE IF names = <<>> THEN NoName ELSE names[1]]
    /\ pc' = "service"
    /\ UNCHANGED <<conf, creds, cmd, want, unsure, reported, commands, faults>>

\* The service is restarted, or stopped when no binding is kept, and the
\* command reports.
Finish ==
    /\ pc = "service"
    /\ reported' = CASE cmd.op = "add" -> "added"
                     [] cmd.op = "remove" /\ cmd.root.list # <<>> -> "removed"
                     [] OTHER -> "allRemoved"
    /\ want' = [want EXCEPT ![cmd.name] =
                   IF cmd.op = "add" THEN [bound |-> TRUE, token |-> cmd.token]
                   ELSE [bound |-> FALSE, token |-> NoToken]]
    /\ unsure' = unsure \ {cmd.name}
    /\ pc' = "idle"
    /\ cmd' = NoCommand
    /\ UNCHANGED <<conf, creds, meta, commands, faults>>

\* The command is killed or a write fails; the file being written is cut short.
CutShort ==
    /\ pc # "idle"
    /\ faults < MaxFaults
    /\ faults' = faults + 1
    /\ \/ unsure' = unsure \cup {cmd.name} /\ UNCHANGED <<conf, creds>>
       \/ pc = "conf" /\ conf' = [Empty EXCEPT !.ok = FALSE] /\ unsure' = Names /\ UNCHANGED creds
       \/ pc = "creds" /\ creds' = [k \in Keys |-> NoToken] /\ unsure' = Names /\ UNCHANGED conf
    /\ reported' = "nothing"
    /\ pc' = "idle"
    /\ cmd' = NoCommand
    /\ UNCHANGED <<meta, want, commands>>

Next ==
    \/ \E n \in Names, t \in Tokens \cup {NoToken} : Add(n, t)
    \/ \E n \in Names : RemoveBinding(n)
    \/ WriteRootConfig
    \/ WriteCredentials
    \/ WriteInstallMeta
    \/ Finish
    \/ CutShort

Spec == Init /\ [][Next]_bindingVars

-----------------------------------------------------------------------------

\* Type invariant of the three files.
TypeOK ==
    /\ conf.ok \in BOOLEAN
    /\ Range(Instances(conf)) \subseteq [name : Names, key : Keys \cup {NoName}]
    /\ creds \in [Keys -> Tokens \cup {NoToken}]
    /\ Range(meta.list) \subseteq Names
    /\ unsure \subseteq Names

\* Between commands the files say what the finished commands asked for: a
\* binding is configured exactly if it was added and not removed since, an
\* added one finds its last token under the variable its entry names, and
\* after a finished command install-meta.json lists the configured bindings.
\* Commands for other bindings, cut short or not, do not disturb it, unless a
\* file was cut short.
FilesFollowCommands ==
    pc = "idle" =>
        /\ \A n \in Names \ unsure :
              /\ n \in Bound <=> want[n].bound
              /\ want[n].token # NoToken =>
                    \E e \in Range(Instances(conf)) : e.name = n /\ e.key # NoName /\ creds[e.key] = want[n].token
        /\ reported # "nothing" => meta.list = NamesOf(Instances(conf))
=============================================================================
