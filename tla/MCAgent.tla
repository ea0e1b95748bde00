------------------------------ MODULE MCAgent ------------------------------
(***************************************************************************)
(* What the agent holds towards the panel and in its files: the replay     *)
(* window of the encrypted session (AgentSession), the calls made over it  *)
(* (PlatformCalls), the service of a node (NodeService), and config.yml as *)
(* the agent reads it (ConfigLayout) and coradectl writes it               *)
(* (CtlBindings).  They are checked side by side: a behaviour is one of    *)
(* the five; side says which, and the others keep one of their initial     *)
(* states.                                                                 *)
(***************************************************************************)
EXTENDS AgentSession, Sequences, TLC

CONSTANTS
    Callers, MaxForgets, MaxFaults,                          \* PlatformCalls
    Configs, Invalid, UserLists, NoUsers, None, Streaming,   \* NodeService
    PartialReload, StatusCap, MaxNodeEdits, MaxRenewals, MaxChanges,
    c1, c2, ua, ub,
    Names, MaxTokens, MaxCommands, MaxCuts,                  \* CtlBindings
    Nodes, MaxEdits                                          \* ConfigLayout

VARIABLES
    side,
    session, lock, call, flying, alive, made, executed, installed, forgets, faults,
    specs, members, version, connected, changes, pc, boot, registered, statuses,
    pulls, pullResults, pullActive, skipRemaining, reconcileNeeded,
    wsResyncPending, lastConfig, lastUsers, desiredRevision, appliedRevision,
    certGen, renewed, kernel,
    conf, creds, meta, step, cmd, want, unsure, reported, commands, cuts,
    top, list, run, home, edits

callVars == <<session, lock, call, flying, alive, made, executed, installed, forgets, faults>>
nodeVars == <<specs, members, version, connected, changes, pc, boot, registered,
              statuses, pulls, pullResults, pullActive, skipRemaining,
              reconcileNeeded, wsResyncPending, lastConfig, lastUsers,
              desiredRevision, appliedRevision, certGen, renewed, kernel>>
bindingVars == <<conf, creds, meta, step, cmd, want, unsure, reported, commands, cuts>>
layoutVars == <<top, list, run, home, edits>>

\* The file coradectl begins with: none, one with a doubled binding and a
\* variable of its own, and one with a binding that has no credential.
Root(l) == [ok |-> TRUE, top |-> [name |-> "none", key |-> "none"], list |-> l]
Binding(n, k) == [name |-> n, key |-> k]
Creds(a, b, hand) == ("a" :> a) @@ ("b" :> b) @@ ("c" :> 0) @@ ("HAND" :> hand)

MCStarts ==
    {[conf |-> Root(<<>>), creds |-> Creds(0, 0, 0)],
     [conf |-> Root(<<Binding("a", "HAND"), Binding("b", "b"), Binding("a", "a")>>),
      creds |-> Creds(2, 1, 2)],
     [conf |-> Root(<<Binding("a", "a"), Binding("b", "none")>>), creds |-> Creds(1, 0, 0)]}

\* Instances an operator may write: with and without a directory or a token of
\* their own, two in the same directory, one of the legacy panel and one with
\* users of its own.
Instance(m, t, d, us, p) ==
    [machine |-> m, control |-> "", token |-> t, panel |-> "", id |-> "", dir |-> d,
     users |-> us, pinned |-> FALSE, port |-> p]
Defaults(t) == [control |-> "", token |-> t]
User(i, u) == [id |-> i, uuid |-> u]

MCTops == {Defaults(""), Defaults("t4")}

MCPool ==
    {Instance("m1", "t1", <<>>, <<>>, 0), Instance("m2", "t2", <<>>, <<>>, 1),
     Instance("m3", "t3", <<"d">>, <<>>, 0), Instance("m4", "", <<"d">>, <<>>, 0),
     [Instance("m6", "", <<"f">>, <<>>, 0) EXCEPT !.panel = "p"],
     Instance("m5", "", <<"e">>, <<User(1, "u"), User(2, "v")>>, 1)}

Calls == INSTANCE PlatformCalls

Node == INSTANCE NodeService WITH MaxEdits <- MaxNodeEdits

Ctl == INSTANCE CtlBindings WITH
    Starts <- MCStarts, MaxFaults <- MaxCuts, pc <- step, faults <- cuts

Layout == INSTANCE ConfigLayout WITH Tops <- MCTops, Pool <- MCPool

Symmetry == Permutations({c1, c2}) \cup Permutations({ua, ub})

MCInit ==
    /\ side \in {"session", "calls", "node", "bindings", "layout"}
    /\ Init /\ Calls!Init /\ Node!Init /\ Ctl!Init /\ Layout!Init
    /\ side # "node" => specs = <<c1>> /\ members = NoUsers
    /\ side # "bindings" => conf = Root(<<>>)
    /\ side # "layout" =>
          top = Defaults("") /\ list[1].machine = "m1" /\ list[2].machine = "m2"

MCNext ==
    \/ side = "session" /\ Next
       /\ UNCHANGED <<side, callVars, nodeVars, bindingVars, layoutVars>>
    \/ side = "calls" /\ Calls!Next
       /\ UNCHANGED <<side, vars, nodeVars, bindingVars, layoutVars>>
    \/ side = "node" /\ Node!Next
       /\ UNCHANGED <<side, vars, callVars, bindingVars, layoutVars>>
    \/ side = "bindings" /\ Ctl!Next
       /\ UNCHANGED <<side, vars, callVars, nodeVars, layoutVars>>
    \/ side = "layout" /\ Layout!Next
       /\ UNCHANGED <<side, vars, callVars, nodeVars, bindingVars>>

MCSpec ==
    MCInit /\ [][MCNext]_<<side, vars, callVars, nodeVars, bindingVars, layoutVars>>

\* The panel executes a call at most once, though a refused one is sent again;
\* a session the panel forgot is replaced once, however many calls find out;
\* and a call is refused only if the panel forgot its sessions while it was made.
CallsOnce == side = "calls" => Calls!CallsOnce

\* The variables of all five have their types; and what the next poll is
\* compared with is what the kernel runs.
BaselineServed ==
    CASE side = "session" -> TypeOK
      [] side = "calls" -> Calls!TypeOK
      [] side = "node" -> Node!TypeOK /\ Node!BaselineServed
      [] side = "bindings" -> Ctl!TypeOK
      [] side = "layout" -> Layout!TypeOK

\* Retries stop only once the revision wanted is acknowledged, and no older
\* revision replaces a newer one.
AcknowledgedForward ==
    /\ [](side = "node" => Node!QuietMeansAcknowledged)
    /\ Node!RevisionsForward

\* The three files hold the bindings and tokens the finished commands ask for.
FilesFollowCommands == side = "bindings" => Ctl!FilesFollowCommands

=============================================================================
